----------------------------- MODULE SyncSystem -----------------------------
(***************************************************************************)
(* Desktop synchronisation end to end: the encrypted local store of each   *)
(* device (localstore), the worker processes that synchronise it           *)
(* (syncclient, desktopagent), the network, and the relay (sync).          *)
(*                                                                         *)
(* A phrase's CRDT state is abstracted to the set of mutations it contains *)
(* and the merge to set union: PhraseReplicaProofs shows that the real     *)
(* merge is a join and that every local write goes up.  A mutation is a    *)
(* pair of its device and a number.  The record hash, which covers the     *)
(* random nonce, is the sealing worker with what it sealed.                *)
(*                                                                         *)
(* A worker process belongs to one device.  The `run` command takes the    *)
(* process lock for its lifetime; the `sync-once` command does not.        *)
(* Faults (lost requests and responses, local errors, crashes) happen at   *)
(* any step, MaxFaults times.                                              *)
(***************************************************************************)
EXTENDS RelayLog

CONSTANTS
    Device,        \* the devices of the account
    Object,        \* opaque phrase identifiers
    Runner,        \* worker processes of the `run` command
    OneShot,       \* worker processes of the `sync-once` command
    Home,          \* Home[w]: the device whose store worker w opens
    Trusted,       \* Trusted[d]: devices whose verification keys d holds
    Account,       \* the account identifier
    PageLimit,     \* records in one download page
    MaxMutations,  \* bound: MaxMutations[d] local mutations on device d
    MaxFaults,     \* bound: faults in a behaviour
    None           \* an absent row, upload or lock holder

Worker == Runner \cup OneShot
Mutation == UNION {{d} \X (1 .. MaxMutations[d]) : d \in Device}
Phrase == SUBSET Mutation

ASSUME HomeAssumption == Home \in [Worker -> Device]
ASSUME TrustedAssumption ==
    Trusted \in [Device -> SUBSET Device] /\ \A d \in Device : d \in Trusted[d]
ASSUME BoundAssumption ==
    PageLimit \in Nat \ {0} /\ MaxMutations \in [Device -> Nat] /\ MaxFaults \in Nat

\* A sealed envelope with the outbox event it was made from; also a log record.
Hash == [by : Worker, seq : Nat, event : Nat, version : Nat]
Envelope == [acct : {Account}, dev : Device, seq : Nat, prev : Hash \cup {NoHash},
             hash : Hash, obj : Object, payload : Phrase]

Event == [id : Nat, version : Nat, payload : Phrase]

ASSUME NoneAssumption == None \notin Envelope /\ None \notin Event /\ None \notin Worker
ASSUME NoHashAssumption == NoHash \notin Hash

VARIABLES
    \* SQLite database of each device
    phrases,    \* phrases[d][o]: the encrypted_phrases row
    outbox,     \* outbox[d][o]: the encrypted_outbox row, at most one per object
    lastEvent,  \* lastEvent[d]: AUTOINCREMENT of event_id
    cursor,     \* sync_state.cursor
    nextSeq,    \* sync_state.next_device_sequence
    prevHash,   \* sync_state.previous_hash
    prepared,   \* sync_state.prepared_*: the staged envelope or None
    \* worker processes
    lock,       \* lock[d]: the run process that holds the process lock
    pc,         \* pc[w]: where the worker is in its round
    mem,        \* mem[w]: its local variables
    \* relay and network
    log,        \* the envelopes table
    ack,        \* devices.ack_cursor
    late,       \* requests whose sender no longer waits for the answer
    \* bounds and history
    mutations,  \* mutations[d]: number of local mutations so far
    queued,     \* history: queued[d][o], mutations ever put into d's outbox
    faults      \* number of faults so far

store   == <<phrases, outbox, lastEvent, cursor, nextSeq, prevHash, prepared>>
process == <<lock, pc, mem>>
relay   == <<log, ack, late>>
history == <<mutations, queued, faults>>
vars    == <<store, process, relay, history>>

\* The local variables of a round: the checkpoint it loaded, the envelope it
\* sealed or sends, the relay's verdict on it, the records still to merge, the
\* row being merged, and the cursor after the page.
Idle == [cursor |-> 0, seq |-> 1, prev |-> NoHash, upload |-> None,
         accepted |-> TRUE, todo |-> {}, row |-> {}, next |-> 0]

Init ==
    /\ phrases = [d \in Device |-> [o \in Object |-> {}]]
    /\ outbox = [d \in Device |-> [o \in Object |-> None]]
    /\ lastEvent = [d \in Device |-> 0]
    /\ cursor = [d \in Device |-> 0]
    /\ nextSeq = [d \in Device |-> 1]
    /\ prevHash = [d \in Device |-> NoHash]
    /\ prepared = [d \in Device |-> None]
    /\ lock = [d \in Device |-> None]
    /\ pc = [w \in Worker |-> "idle"]
    /\ mem = [w \in Worker |-> Idle]
    /\ log = <<>>
    /\ ack = [d \in Device |-> 0]
    /\ late = {}
    /\ mutations = [d \in Device |-> 0]
    /\ queued = [d \in Device |-> [o \in Object |-> {}]]
    /\ faults = 0

-----------------------------------------------------------------------------
(* Local mutations: SaveExplicit, RecordSelection and Delete. *)

\* The store's mutex makes a mutation atomic against the merges of the process
\* that shares the Store value, the one of the `run` command.
MutexFree(d) == \A w \in Runner : Home[w] = d => pc[w] # "store"

\* The outbox row of an object after a write: a new event, or the next version
\* of the waiting one.
Enqueued(d, o, payload) ==
    IF outbox[d][o] = None
    THEN [id |-> lastEvent[d] + 1, version |-> 1, payload |-> payload]
    ELSE [id |-> outbox[d][o].id, version |-> outbox[d][o].version + 1, payload |-> payload]

\* A mutation below the learning threshold is not enqueued.
Mutate(d, o, enqueue) ==
    LET row == phrases[d][o] \cup {<<d, mutations[d] + 1>>}
    IN  /\ mutations[d] < MaxMutations[d]
        /\ MutexFree(d)
        /\ mutations' = [mutations EXCEPT ![d] = @ + 1]
        /\ phrases' = [phrases EXCEPT ![d][o] = row]
        /\ IF enqueue
           THEN /\ outbox' = [outbox EXCEPT ![d][o] = Enqueued(d, o, row)]
                /\ lastEvent' = [lastEvent EXCEPT ![d] = IF outbox[d][o] = None THEN @ + 1 ELSE @]
                /\ queued' = [queued EXCEPT ![d][o] = @ \cup row]
           ELSE UNCHANGED <<outbox, lastEvent, queued>>
        /\ UNCHANGED <<cursor, nextSeq, prevHash, prepared, process, relay, faults>>

-----------------------------------------------------------------------------
(* One round of a worker: Worker.SyncOnce. *)

Goto(w, label) == pc' = [pc EXCEPT ![w] = label]

\* The round ends, with or without an error.
EndRound(w) ==
    /\ Goto(w, "idle")
    /\ mem' = [mem EXCEPT ![w] = Idle]

\* `run` starts; a second one finds the lock taken and exits.
Acquire(w) ==
    /\ w \in Runner
    /\ lock[Home[w]] = None
    /\ lock' = [lock EXCEPT ![Home[w]] = w]
    /\ UNCHANGED <<store, pc, mem, relay, history>>

\* Copy the persisted checkpoint of the worker's device.
LoadSyncState(w) ==
    LET d == Home[w]
    IN  [Idle EXCEPT !.cursor = cursor[d], !.seq = nextSeq[d], !.prev = prevHash[d],
                     !.upload = prepared[d]]

\* A staged envelope is sent again as it is, before anything new is sealed.
Load(w) ==
    /\ pc[w] = "idle"
    /\ w \in Runner => lock[Home[w]] = w
    /\ mem' = [mem EXCEPT ![w] = LoadSyncState(w)]
    /\ Goto(w, IF prepared[Home[w]] # None THEN "sent" ELSE "loaded")
    /\ UNCHANGED <<store, lock, relay, history>>

\* The objects whose event is first in PendingEvents(1).
FirstPending(d) ==
    {o \in Object : /\ outbox[d][o] # None
                    /\ \A p \in Object : outbox[d][p] # None => outbox[d][o].id <= outbox[d][p].id}

SealEnvelope(w, o) ==
    LET d  == Home[w]
        ev == outbox[d][o]
    IN  [acct |-> Account, dev |-> d, seq |-> mem[w].seq, prev |-> mem[w].prev, obj |-> o,
         payload |-> ev.payload,
         hash |-> [by |-> w, seq |-> mem[w].seq, event |-> ev.id, version |-> ev.version]]

Seal(w) ==
    /\ pc[w] = "loaded"
    /\ \/ /\ FirstPending(Home[w]) = {}
          /\ Goto(w, "sent")
          /\ UNCHANGED mem
       \/ \E o \in FirstPending(Home[w]) :
             /\ mem' = [mem EXCEPT ![w].upload = SealEnvelope(w, o)]
             /\ Goto(w, "sealed")
    /\ UNCHANGED <<store, lock, relay, history>>

\* The outbox still holds the version an envelope was sealed from.
InOutbox(d, e) ==
    /\ outbox[d][e.obj] # None
    /\ outbox[d][e.obj].id = e.hash.event
    /\ outbox[d][e.obj].version = e.hash.version

CanStage_Overwrite(d, e) == nextSeq[d] = e.seq /\ InOutbox(d, e)

CanStage(d, e) ==
    /\ prepared[d] = None
    /\ nextSeq[d] = e.seq
    /\ InOutbox(d, e)

SavePreparedUpload(w) ==
    /\ pc[w] = "sealed"
    /\ CanStage(Home[w], mem[w].upload)
    /\ prepared' = [prepared EXCEPT ![Home[w]] = mem[w].upload]
    /\ Goto(w, "staged")
    /\ UNCHANGED <<phrases, outbox, lastEvent, cursor, nextSeq, prevHash, lock, mem, relay, history>>

StageRefused(w) ==
    /\ pc[w] = "sealed"
    /\ ~CanStage(Home[w], mem[w].upload)
    /\ EndRound(w)
    /\ UNCHANGED <<store, lock, relay, history>>

\* prepare loads the checkpoint again and sends what it finds staged.
Reload(w) ==
    /\ pc[w] = "staged"
    /\ mem' = [mem EXCEPT ![w] = LoadSyncState(w)]
    /\ Goto(w, "sent")
    /\ UNCHANGED <<store, lock, relay, history>>

-----------------------------------------------------------------------------
(* The relay: one serialisable transaction per request. *)

Request(w) == [dev |-> Home[w], cursor |-> mem[w].cursor, upload |-> mem[w].upload]

\* The log after the upload of a request.  Its cursor is never past the
\* account's last record (TypeOK), so it is never refused for that.
LogAfter(r) == IF r.upload = None THEN log ELSE Upload(log, r.upload)

AckAfter_PageEnd(r) == [ack EXCEPT ![r.dev] = Len(LogAfter(r))]

AckAfter(r) == [ack EXCEPT ![r.dev] = IF @ < r.cursor THEN r.cursor ELSE @]

ServeSync(w) ==
    LET r == Request(w)
    IN  /\ pc[w] = "sent"
        /\ log' = LogAfter(r)
        /\ ack' = AckAfter(r)
        /\ \E end \in PageEnds(LogAfter(r), Account, r.cursor, PageLimit) :
              mem' = [mem EXCEPT
                        ![w].accepted = r.upload = None \/ Accepted(Verdict(log, r.upload)),
                        ![w].todo = PageRecords(LogAfter(r), Account, r.cursor, end),
                        ![w].next = nextCursor(LogAfter(r), Account, end)]
        /\ Goto(w, "replied")
        /\ UNCHANGED <<store, lock, late, history>>

\* A request whose sender timed out or died may still arrive.
ServeLate(r) ==
    /\ r \in late
    /\ log' = LogAfter(r)
    /\ ack' = AckAfter(r)
    /\ late' = late \ {r}
    /\ UNCHANGED <<store, process, history>>

-----------------------------------------------------------------------------
(* The answer. *)

Decodable_Some(w) ==
    mem[w].todo # {} => \E i \in mem[w].todo : log[i].dev \in Trusted[Home[w]]

Decodable(w) == \A i \in mem[w].todo : log[i].dev \in Trusted[Home[w]]

\* The whole page is verified before any of it is merged.
ReceiveReply(w) ==
    /\ pc[w] = "replied"
    /\ mem[w].accepted
    /\ Decodable(w)
    /\ Goto(w, "merging")
    /\ UNCHANGED <<store, lock, mem, relay, history>>

ReceiveRejection(w) ==
    /\ pc[w] = "replied"
    /\ ~mem[w].accepted
    /\ EndRound(w)
    /\ UNCHANGED <<store, lock, relay, history>>

ReceiveUndecodable(w) ==
    /\ pc[w] = "replied"
    /\ mem[w].accepted
    /\ ~Decodable(w)
    /\ EndRound(w)
    /\ UNCHANGED <<store, lock, relay, history>>

\* MergeRemotePayload reads the row and writes it back in two transactions;
\* the mutex it holds in between is that of its own process.
FirstTodo(w) == CHOOSE i \in mem[w].todo : \A j \in mem[w].todo : i <= j

MergeLoad(w) ==
    /\ pc[w] = "merging"
    /\ mem[w].todo # {}
    /\ mem' = [mem EXCEPT ![w].row = phrases[Home[w]][log[FirstTodo(w)].obj]]
    /\ Goto(w, "store")
    /\ UNCHANGED <<store, lock, relay, history>>

MergedRow_RemoteOnly(w) == log[FirstTodo(w)].payload

MergedRow(w) == mem[w].row \cup log[FirstTodo(w)].payload

MergeStore(w) ==
    /\ pc[w] = "store"
    /\ phrases' = [phrases EXCEPT ![Home[w]][log[FirstTodo(w)].obj] = MergedRow(w)]
    /\ mem' = [mem EXCEPT ![w].todo = @ \ {FirstTodo(w)}, ![w].row = {}]
    /\ Goto(w, "merging")
    /\ UNCHANGED <<outbox, lastEvent, cursor, nextSeq, prevHash, prepared, lock, relay, history>>

\* The outbox after an acknowledgement: only the version that was sealed goes.
Acknowledged_AnyVersion(d, e) == [outbox EXCEPT ![d][e.obj] = None]

Acknowledged(d, e) == IF InOutbox(d, e) THEN [outbox EXCEPT ![d][e.obj] = None] ELSE outbox

CommitPreparedUpload_KeepHash(w) ==
    LET d == Home[w]
        e == prepared[d]
    IN  /\ pc[w] = "merging"
        /\ mem[w].todo = {}
        /\ mem[w].upload # None
        /\ e # None
        /\ outbox' = Acknowledged(d, e)
        /\ nextSeq' = [nextSeq EXCEPT ![d] = e.seq + 1]
        /\ prepared' = [prepared EXCEPT ![d] = None]
        /\ Goto(w, "committed")
        /\ UNCHANGED <<phrases, lastEvent, cursor, prevHash, lock, mem, relay, history>>

\* The call names no upload: it commits whatever is staged by now.
CommitPreparedUpload(w) ==
    LET d == Home[w]
        e == prepared[d]
    IN  /\ pc[w] = "merging"
        /\ mem[w].todo = {}
        /\ mem[w].upload # None
        /\ e # None
        /\ outbox' = Acknowledged(d, e)
        /\ nextSeq' = [nextSeq EXCEPT ![d] = e.seq + 1]
        /\ prevHash' = [prevHash EXCEPT ![d] = e.hash]
        /\ prepared' = [prepared EXCEPT ![d] = None]
        /\ Goto(w, "committed")
        /\ UNCHANGED <<phrases, lastEvent, cursor, lock, mem, relay, history>>

CommitRefused(w) ==
    /\ pc[w] = "merging"
    /\ mem[w].todo = {}
    /\ mem[w].upload # None
    /\ prepared[Home[w]] = None
    /\ EndRound(w)
    /\ UNCHANGED <<store, lock, relay, history>>

\* The round is ready to move the cursor.
PageDone(w) ==
    \/ pc[w] = "committed"
    \/ pc[w] = "merging" /\ mem[w].todo = {} /\ mem[w].upload = None

AdvanceSyncCursor_NoCompare(w) ==
    /\ PageDone(w)
    /\ cursor' = [cursor EXCEPT ![Home[w]] = mem[w].next]
    /\ EndRound(w)
    /\ UNCHANGED <<phrases, outbox, lastEvent, nextSeq, prevHash, prepared, lock, relay, history>>

AdvanceSyncCursor(w) ==
    /\ PageDone(w)
    /\ cursor[Home[w]] = mem[w].cursor
    /\ cursor' = [cursor EXCEPT ![Home[w]] = mem[w].next]
    /\ EndRound(w)
    /\ UNCHANGED <<phrases, outbox, lastEvent, nextSeq, prevHash, prepared, lock, relay, history>>

AdvanceRefused(w) ==
    /\ PageDone(w)
    /\ cursor[Home[w]] # mem[w].cursor
    /\ EndRound(w)
    /\ UNCHANGED <<store, lock, relay, history>>

-----------------------------------------------------------------------------
(* Faults. *)

\* A request that is on its way when its sender stops waiting.
Abandon(w) ==
    /\ faults < MaxFaults
    /\ faults' = faults + 1
    /\ late' = IF pc[w] = "sent" THEN late \cup {Request(w)} ELSE late
    /\ EndRound(w)

\* A timeout, a lost response, a local error: the round ends with an error.
Fail(w) ==
    /\ pc[w] # "idle"
    /\ Abandon(w)
    /\ UNCHANGED <<store, lock, log, ack, mutations, queued>>

\* The process dies at any point and the lock is released with it.
Crash(w) ==
    /\ lock[Home[w]] = w
    /\ Abandon(w)
    /\ lock' = [lock EXCEPT ![Home[w]] = None]
    /\ UNCHANGED <<store, log, ack, mutations, queued>>

-----------------------------------------------------------------------------
Step(w) ==
    \/ Acquire(w)           \/ Load(w)               \/ Seal(w)
    \/ SavePreparedUpload(w) \/ StageRefused(w)      \/ Reload(w)
    \/ ServeSync(w)
    \/ ReceiveReply(w)      \/ ReceiveRejection(w)   \/ ReceiveUndecodable(w)
    \/ MergeLoad(w)         \/ MergeStore(w)
    \/ CommitPreparedUpload(w) \/ CommitRefused(w)
    \/ AdvanceSyncCursor(w) \/ AdvanceRefused(w)

Next ==
    \/ \E d \in Device, o \in Object, enqueue \in BOOLEAN : Mutate(d, o, enqueue)
    \/ \E w \in Worker : Step(w) \/ Fail(w) \/ Crash(w)
    \/ \E r \in late : ServeLate(r)

Spec == Init /\ [][Next]_vars

\* `run` loops for ever and is restarted after a crash; the relay answers.
\* Nothing is assumed of mutations, of abandoned requests or of faults.
FairSpec == Spec /\ \A w \in Runner : WF_vars(Step(w))

-----------------------------------------------------------------------------
(* Properties. *)

Local == [cursor : Nat, seq : Nat, prev : Hash \cup {NoHash}, upload : Envelope \cup {None},
          accepted : BOOLEAN, todo : SUBSET Nat, row : Phrase, next : Nat]

\* Types; no cursor, acknowledgement or page of a worker reaches past the log.
TypeOK ==
    /\ phrases \in [Device -> [Object -> Phrase]]
    /\ outbox \in [Device -> [Object -> Event \cup {None}]]
    /\ lastEvent \in [Device -> Nat]
    /\ cursor \in [Device -> 0 .. Len(log)]
    /\ nextSeq \in [Device -> Nat]
    /\ prevHash \in [Device -> Hash \cup {NoHash}]
    /\ prepared \in [Device -> Envelope \cup {None}]
    /\ lock \in [Device -> Runner \cup {None}]
    /\ pc \in [Worker -> {"idle", "loaded", "sealed", "staged", "sent", "replied",
                          "merging", "store", "committed"}]
    /\ mem \in [Worker -> Local]
    /\ \A w \in Worker : /\ mem[w].cursor <= Len(log)
                         /\ mem[w].next <= Len(log)
                         /\ mem[w].todo \subseteq DOMAIN log
    /\ log \in Seq(Envelope)
    /\ ack \in [Device -> Nat]
    /\ late \subseteq [dev : Device, cursor : Nat, upload : Envelope \cup {None}]
    /\ mutations \in [Device -> Nat]
    /\ \A d \in Device : mutations[d] <= MaxMutations[d]
    /\ queued \in [Device -> [Object -> Phrase]]
    /\ faults \in 0 .. MaxFaults

\* Every envelope that has left the memory of a worker.
Released ==
    {log[i] : i \in DOMAIN log} \cup ({prepared[d] : d \in Device} \ {None})
      \cup ({r.upload : r \in late} \ {None})
      \cup ({mem[w].upload : w \in {v \in Worker : pc[v] = "sent"}} \ {None})

\* Exact retry: a sequence number of a device stands for one envelope for
\* ever, in the store, on the wire, in abandoned requests and in the log,
\* across crashes, timeouts and new versions of the outbox event.
OneEnvelopePerSequence ==
    \A a, b \in Released : a.dev = b.dev /\ a.seq = b.seq => a = b

\* The relay never rejects an upload of a device whose store has one writer:
\* neither sequence_conflict, sequence_gap nor previous_hash_mismatch, which
\* the worker could not recover from, as it retries the same envelope.
UploadsAccepted ==
    \A w \in Worker : pc[w] = "replied" => mem[w].accepted

InLog(o) == UNION {log[i].payload : i \in {j \in DOMAIN log : log[j].obj = o}}

Waits(d, o) == IF outbox[d][o] = None THEN {} ELSE outbox[d][o].payload

\* A mutation that was put into the outbox stays there until the relay has it:
\* "network failure only grows a local outbox", and an acknowledgement never
\* deletes a newer version of the event.
NoLostMutation ==
    \A d \in Device, o \in Object : queued[d][o] \subseteq Waits(d, o) \cup InLog(o)

\* The cursor of a device never passes a record that is not merged into its
\* store: AdvanceSyncCursor "records a fully verified and locally merged
\* download page".
NoSkippedPage ==
    \A d \in Device : \A i \in DOMAIN log :
        i <= cursor[d] => log[i].payload \subseteq phrases[d][log[i].obj]

\* The relay's acknowledgement cursor of a device is never ahead of the cursor
\* that the device has stored, however late a request arrives.
AckBehindCursor ==
    \A d \in Device : ack[d] <= cursor[d]

\* A device only merges what the key of a device it trusts verifies: the rest
\* of its phrases is its own.
VerifiedOnly ==
    \A d \in Device, o \in Object : \A m \in phrases[d][o] :
        \/ m[1] = d
        \/ \E i \in DOMAIN log : log[i].dev \in Trusted[d] /\ log[i].obj = o /\ m \in log[i].payload

\* A cursor never goes back, and a record once in the log stays as it is.
NothingGoesBack ==
    [][/\ \A d \in Device : cursor[d] <= cursor'[d] /\ ack[d] <= ack'[d]
       /\ Len(log) <= Len(log')
       /\ \A i \in DOMAIN log : log'[i] = log[i]]_vars

\* The store, the workers and the relay implement ReplicatedPhrases.
Replicated ==
    INSTANCE ReplicatedPhrases
      WITH known <- phrases, shared <- [o \in Object |-> InLog(o)]

ImplementsReplicated == Replicated!Spec

\* Once mutations and faults have ceased, the outbox of a device that has every
\* verification key drains, and the device ends up with all that the relay has
\* stored, beside devices that are stopped by a record they cannot verify.
\* With NoLostMutation, devices that all have every key hold every mutation.
Converges ==
    <>[](\A d \in Device : Trusted[d] = Device =>
            /\ \A o \in Object : outbox[d][o] = None
            /\ \A i \in DOMAIN log : log[i].payload \subseteq phrases[d][log[i].obj])
=============================================================================
