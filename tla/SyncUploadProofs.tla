-------------------------- MODULE SyncUploadProofs --------------------------
(***************************************************************************)
(* The uploads of SyncSystem, for every number of devices, objects and     *)
(* workers, mutations, faults and late requests.                           *)
(*                                                                         *)
(* Exact retry, with or without the process lock: one sequence number of a *)
(* device stands for one envelope.  The induction rests on what the staged *)
(* row says of everything that ever left a worker: nothing released        *)
(* carries a sequence number past the next one, and what carries the next  *)
(* one is the staged envelope itself.                                      *)
(*                                                                         *)
(* When every store has one writer, that is without sync-once processes,   *)
(* the process lock makes the worker that is in a round the only one of    *)
(* its device (Alone).  The staged envelope then extends the chain that    *)
(* the relay has, or is its end (ChainInv), so that no upload is rejected. *)
(***************************************************************************)
EXTENDS SyncSystemProofs

\* What is staged is the device's own next envelope.
StagedNext ==
    \A d \in Device : prepared[d] # None => prepared[d].dev = d /\ prepared[d].seq = nextSeq[d]

\* Nothing released is past the staged envelope.
ReleasedUpToStaged ==
    \A a \in Released : /\ a.seq <= nextSeq[a.dev]
                        /\ a.seq = nextSeq[a.dev] => prepared[a.dev] = a

\* A freshly loaded worker carries no upload, a sealing one its own.
SealedOwn ==
    \A w \in Worker : /\ pc[w] = "loaded" => mem[w].upload = None
                      /\ pc[w] = "sealed" => mem[w].upload # None /\ mem[w].upload.dev = Home[w]

\* The inductive invariant of exact retry.
RetryInv ==
    CursorInv /\ StagedNext /\ ReleasedUpToStaged /\ SealedOwn /\ OneEnvelopePerSequence

\* Membership in Released, one clause per place an envelope can be.
LEMMA ReleasedMember ==
    ASSUME NEW a
    PROVE  a \in Released <=>
              \/ \E i \in DOMAIN log : a = log[i]
              \/ \E d \in Device : a = prepared[d] /\ a # None
              \/ \E r \in late : a = r.upload /\ a # None
              \/ \E w \in Worker : pc[w] = "sent" /\ a = mem[w].upload /\ a # None
  BY DEF Released

\* The same after a step.
LEMMA ReleasedMemberAfter ==
    ASSUME NEW a
    PROVE  a \in Released' <=>
              \/ \E i \in DOMAIN log' : a = log'[i]
              \/ \E d \in Device : a = prepared'[d] /\ a # None
              \/ \E r \in late' : a = r.upload /\ a # None
              \/ \E w \in Worker : pc'[w] = "sent" /\ a = mem'[w].upload /\ a # None
  BY DEF Released

\* Everything released is an envelope.
LEMMA ReleasedType ==
    ASSUME TypeOK, NEW a \in Released
    PROVE  a \in Envelope /\ a.dev \in Device /\ a.seq \in Nat
<1>1. CASE \E i \in DOMAIN log : a = log[i]
  BY <1>1, LogType DEF Envelope
<1>2. CASE \E d \in Device : a = prepared[d] /\ a # None
  <2>1. a \in Envelope
    BY <1>2 DEF TypeOK
  <2> QED
    BY <2>1 DEF Envelope
<1>3. CASE \E r \in late : a = r.upload /\ a # None
  <2>1. a \in Envelope
    BY <1>3 DEF TypeOK
  <2> QED
    BY <2>1 DEF Envelope
<1>4. CASE \E w \in Worker : pc[w] = "sent" /\ a = mem[w].upload /\ a # None
  <2>1. a \in Envelope
    BY <1>4 DEF TypeOK, Local
  <2> QED
    BY <2>1 DEF Envelope
<1> QED
  BY <1>1, <1>2, <1>3, <1>4, ReleasedMember

\* The upload of a request in flight is released.
LEMMA InFlightReleased ==
    ASSUME TypeOK, NEW r, InFlight(r), r.upload # None
    PROVE  r.upload \in Released
<1>1. CASE r \in late
  BY <1>1, ReleasedMember
<1>2. CASE \E w \in Worker : pc[w] = "sent" /\ r = Request(w)
  BY <1>2, RequestType, ReleasedMember
<1> QED
  BY <1>1, <1>2 DEF InFlight

\* The log only gets what was released before.
LEMMA LogReleased ==
    ASSUME TypeOK, RequestsBehind, Next, NEW i \in DOMAIN log'
    PROVE  log'[i] \in Released
<1>a. \A j \in DOMAIN log : log[j] \in Released
  BY ReleasedMember
<1>1. CASE UNCHANGED <<log, ack>>
  BY <1>1, <1>a
<1>2. ASSUME NEW r, InFlight(r), log' = LogAfter(r) PROVE log'[i] \in Released
  <2>1. CASE r.upload = None
    BY <1>2, <2>1, <1>a DEF LogAfter
  <2>2. CASE r.upload # None
    <3>1. r.upload \in Released
      BY <1>2, <2>2, InFlightReleased
    <3>2. log' = log \/ log' = Append(log, r.upload)
      BY <1>2, <2>2 DEF LogAfter, Upload
    <3>3. CASE log' = log
      BY <3>3, <1>a
    <3>4. CASE log' = Append(log, r.upload)
      <4>1. i \in DOMAIN log \/ i = Len(log) + 1
        BY <3>4, LogType
      <4>2. CASE i \in DOMAIN log
        BY <3>4, <4>2, <1>a, LogType
      <4>3. CASE i = Len(log) + 1
        BY <3>4, <4>3, <3>1, LogType
      <4> QED
        BY <4>1, <4>2, <4>3
    <3> QED
      BY <3>2, <3>3, <3>4
  <2> QED
    BY <2>1, <2>2
<1> QED
  BY <1>1, <1>2, RelayMoves

\* A worker sends only what is staged or what it was sending.
LEMMA SentReleased ==
    ASSUME TypeOK, SealedOwn, Next, NEW v \in Worker, pc'[v] = "sent", mem'[v].upload # None
    PROVE  mem'[v].upload \in Released
<1>a. pc \in [Worker -> Label] /\ mem \in [Worker -> Local]
  BY DEF TypeOK, Label
<1>b. CASE pc'[v] = pc[v] /\ mem'[v] = mem[v]
  BY <1>b, ReleasedMember
<1>c. Home[v] \in Device
  BY HomeAssumption
<1>1. CASE Load(v) \/ Reload(v)
  <2>1. mem'[v] = LoadSyncState(v)
    BY <1>1, <1>a DEF Load, Reload
  <2>2. LoadSyncState(v).upload = prepared[Home[v]]
    BY DEF LoadSyncState, Idle
  <2> QED
    BY <2>1, <2>2, <1>c, ReleasedMember
<1>2. CASE Seal(v)
  <2>1. UNCHANGED mem /\ pc[v] = "loaded"
    BY <1>2, <1>a DEF Seal, Goto
  <2> QED
    BY <2>1 DEF SealedOwn
<1>3. CASE Acquire(v)
  BY <1>3, <1>b DEF Acquire
<1>4. ASSUME NEW l \in Label, l # "sent", Goto(v, l) PROVE FALSE
  BY <1>4, <1>a DEF Goto
<1>5. CASE Step(v) \/ Fail(v) \/ Crash(v)
  BY <1>5, <1>1, <1>2, <1>3, <1>4, ZenonT(30)
 
  DEF Step, Fail, Crash, Abandon, EndRound, StageRefused, ReceiveRejection, ReceiveUndecodable, CommitRefused,
      AdvanceSyncCursor, AdvanceRefused, SavePreparedUpload, ServeSync, ReceiveReply, MergeLoad,
     MergeStore,
      CommitPreparedUpload, Label
<1>6. ASSUME NEW w \in Worker, w # v, Step(w) \/ Fail(w) \/ Crash(w) PROVE mem'[v].upload \in Released
  BY <1>6, <1>b, WorkerFrame
<1>7. ASSUME NEW r \in late, ServeLate(r) PROVE mem'[v].upload \in Released
  BY <1>7, <1>b DEF ServeLate, process
<1>8. ASSUME NEW d \in Device, NEW o \in Object, NEW q \in BOOLEAN, Mutate(d, o, q)
      PROVE  mem'[v].upload \in Released
  BY <1>8, <1>b DEF Mutate, process
<1> QED
  BY <1>5, <1>6, <1>7, <1>8 DEF Next

\* The staged row changes only by staging and by committing.
LEMMA StageMoves ==
    ASSUME Next
    PROVE  \/ UNCHANGED <<nextSeq, prepared>>
           \/ \E w \in Worker : SavePreparedUpload(w) \/ CommitPreparedUpload(w)
<1>1. ASSUME NEW w \in Worker, Step(w), ~SavePreparedUpload(w), ~CommitPreparedUpload(w)
      PROVE  UNCHANGED <<nextSeq, prepared>>
  BY <1>1, Zenon DEF Step, Acquire, Load, Seal, StageRefused, Reload, ServeSync, ReceiveReply,
     ReceiveRejection, ReceiveUndecodable, MergeLoad, MergeStore, CommitRefused,
     AdvanceSyncCursor, AdvanceRefused, store
<1>2. ASSUME NEW w \in Worker, Fail(w) \/ Crash(w) PROVE UNCHANGED <<nextSeq, prepared>>
  BY <1>2 DEF Fail, Crash, store
<1>3. ASSUME NEW r \in late, ServeLate(r) PROVE UNCHANGED <<nextSeq, prepared>>
  BY <1>3 DEF ServeLate, store
<1>4. ASSUME NEW d \in Device, NEW o \in Object, NEW q \in BOOLEAN, Mutate(d, o, q)
      PROVE  UNCHANGED <<nextSeq, prepared>>
  BY <1>4 DEF Mutate
<1> QED
  BY <1>1, <1>2, <1>3, <1>4 DEF Next

\* What a step releases was released before or has just been staged.
LEMMA ReleasedStep ==
    ASSUME TypeOK, RequestsBehind, SealedOwn, Next, NEW a \in Released'
    PROVE  a \in Released \/ \E d \in Device : a = prepared'[d] /\ a # None
<1>1. CASE \E i \in DOMAIN log' : a = log'[i]
  BY <1>1, LogReleased
<1>2. CASE \E r \in late' : a = r.upload /\ a # None
  BY <1>2, RelayMoves, InFlightReleased
<1>3. CASE \E w \in Worker : pc'[w] = "sent" /\ a = mem'[w].upload /\ a # None
  BY <1>3, SentReleased
<1> QED
  BY <1>1, <1>2, <1>3, ReleasedMemberAfter

\* A worker seals for its own device, and starts its round with no upload.
LEMMA SealedOwnStep ==
    ASSUME TypeOK, SealedOwn, Next
    PROVE  SealedOwn'
<1> DEFINE Own(u) == /\ pc'[u] = "loaded" => mem'[u].upload = None
                     /\ pc'[u] = "sealed" => mem'[u].upload # None /\ mem'[u].upload.dev = Home[u]
<1> SUFFICES ASSUME NEW v \in Worker PROVE Own(v)
  BY DEF SealedOwn
<1>a. pc \in [Worker -> Label] /\ mem \in [Worker -> Local]
  BY DEF TypeOK, Label
<1>b. CASE pc'[v] = pc[v] /\ mem'[v] = mem[v]
  BY <1>b DEF SealedOwn
<1>c. ASSUME NEW l \in Label \ {"loaded", "sealed"}, Goto(v, l) PROVE Own(v)
  BY <1>c, <1>a DEF Goto
<1>1. CASE Load(v)
  <2>1. mem'[v] = LoadSyncState(v) /\ pc'[v] = IF prepared[Home[v]] # None THEN "sent" ELSE "loaded"
    BY <1>1, <1>a DEF Load, Goto
  <2>2. LoadSyncState(v).upload = prepared[Home[v]]
    BY DEF LoadSyncState, Idle
  <2> QED
    BY <2>1, <2>2
<1>2. CASE Seal(v)
  <2>1. CASE Goto(v, "sent")
    BY <2>1, <1>c DEF Label
  <2>2. ASSUME NEW o \in FirstPending(Home[v]),
               mem' = [mem EXCEPT ![v].upload = SealEnvelope(v, o)], Goto(v, "sealed")
        PROVE  Own(v)
    <3>1. mem'[v].upload = SealEnvelope(v, o) /\ pc'[v] = "sealed"
      BY <2>2, <1>a DEF Local, Goto
    <3>2. SealEnvelope(v, o).dev = Home[v]
      BY DEF SealEnvelope
    <3>3. SealEnvelope(v, o) # None
      <4>1. TypeOK /\ Home[v] \in Device
        BY HomeAssumption, Zenon
      <4>2. o \in Object /\ outbox[Home[v]][o] \in Event
        BY <4>1 DEF FirstPending, TypeOK
      <4>3. /\ outbox[Home[v]][o].payload \in Phrase
            /\ outbox[Home[v]][o].id \in Nat
            /\ outbox[Home[v]][o].version \in Nat
        BY <4>2 DEF Event
      <4>4. mem[v].seq \in Nat /\ mem[v].prev \in Hash \cup {NoHash}
        BY <1>a DEF Local
      <4>5. SealEnvelope(v, o).hash \in Hash
        BY <4>3, <4>4, Zenon DEF SealEnvelope, Hash
      <4>6. SealEnvelope(v, o) \in Envelope
        BY <4>1, <4>2, <4>3, <4>4, <4>5 DEF SealEnvelope, Envelope
      <4> QED
        BY <4>6, NoneAssumption
    <3> QED
      BY <3>1, <3>2, <3>3
  <2> QED
    BY <1>2, <2>1, <2>2 DEF Seal
<1>3. CASE Acquire(v)
  BY <1>3, <1>b DEF Acquire
<1> HIDE DEF Own
<1>4. CASE Step(v) \/ Fail(v) \/ Crash(v)
  BY <1>4, <1>1, <1>2, <1>3, <1>c, ZenonT(30)
 
  DEF Step, Fail, Crash, Abandon, EndRound, StageRefused, ReceiveRejection, ReceiveUndecodable, CommitRefused,
      AdvanceSyncCursor, AdvanceRefused, SavePreparedUpload, ServeSync, ReceiveReply, MergeLoad,
     MergeStore,
      CommitPreparedUpload, Reload, Label
<1>5. ASSUME NEW w \in Worker, w # v, Step(w) \/ Fail(w) \/ Crash(w) PROVE Own(v)
  BY <1>5, <1>b, WorkerFrame
<1>6. ASSUME NEW r \in late, ServeLate(r) PROVE Own(v)
  BY <1>6, <1>b DEF ServeLate, process
<1>7. ASSUME NEW d \in Device, NEW o \in Object, NEW q \in BOOLEAN, Mutate(d, o, q) PROVE Own(v)
  BY <1>7, <1>b DEF Mutate, process
<1> QED
  BY <1>4, <1>5, <1>6, <1>7 DEF Next

\* Staging an envelope, the only step that releases a new one.
LEMMA SaveRetry ==
    ASSUME TypeOK, RequestsBehind, StagedNext, ReleasedUpToStaged, SealedOwn, OneEnvelopePerSequence,
           Next, NEW w \in Worker, SavePreparedUpload(w)
    PROVE  StagedNext' /\ ReleasedUpToStaged' /\ OneEnvelopePerSequence'
<1> DEFINE d == Home[w]
           e == mem[w].upload
<1>1. d \in Device /\ e # None /\ e.dev = d
  BY HomeAssumption DEF SavePreparedUpload, SealedOwn
<1>2. e.seq = nextSeq[d] /\ prepared[d] = None
  BY DEF SavePreparedUpload, CanStage
<1>3. prepared' = [prepared EXCEPT ![d] = e] /\ nextSeq' = nextSeq
  BY Zenon DEF SavePreparedUpload
<1>4. prepared \in [Device -> Envelope \cup {None}] /\ nextSeq \in [Device -> Nat]
  BY DEF TypeOK
<1> HIDE DEF d, e
<1>5. StagedNext'
  BY <1>1, <1>2, <1>3, <1>4 DEF StagedNext
<1>6. \A a \in Released' : a \in Released \/ a = e
  <2> SUFFICES ASSUME NEW a \in Released', a \notin Released PROVE a = e
    OBVIOUS
  <2>1. PICK c \in Device : a = prepared'[c] /\ a # None
    BY ReleasedStep
  <2>2. c # d => prepared'[c] = prepared[c]
    BY <1>3, <1>4
  <2>3. c = d
    BY <2>1, <2>2, ReleasedMember
  <2> QED
    BY <2>1, <2>3, <1>1, <1>3, <1>4
<1>7. \A a \in Released : a.dev \in Device /\ a.seq \in Nat /\ a.seq <= nextSeq[a.dev]
                          /\ (a.seq = nextSeq[a.dev] => prepared[a.dev] = a /\ a # None)
  <2> TAKE a \in Released
  <2>1. a \in Envelope /\ a.dev \in Device /\ a.seq \in Nat
    BY ReleasedType
  <2> QED
    BY <2>1, NoneAssumption DEF ReleasedUpToStaged
<1>8. \A a \in Released : a.dev = d => a.seq # nextSeq[d]
  BY <1>2, <1>7
<1>9. ReleasedUpToStaged'
  BY <1>1, <1>2, <1>3, <1>4, <1>6, <1>7, <1>8 DEF ReleasedUpToStaged
<1>10. OneEnvelopePerSequence'
  BY <1>1, <1>2, <1>6, <1>8 DEF OneEnvelopePerSequence
<1> QED
  BY <1>5, <1>9, <1>10

\* Committing the staged envelope leaves the next sequence number unused.
LEMMA CommitRetry ==
    ASSUME TypeOK, RequestsBehind, StagedNext, ReleasedUpToStaged, SealedOwn, OneEnvelopePerSequence,
           Next, NEW w \in Worker, CommitPreparedUpload(w)
    PROVE  StagedNext' /\ ReleasedUpToStaged' /\ OneEnvelopePerSequence'
<1> DEFINE d == Home[w]
           e == prepared[d]
<1>1. d \in Device /\ e # None
  BY HomeAssumption DEF CommitPreparedUpload
<1>2. e.dev = d /\ e.seq = nextSeq[d]
  BY <1>1 DEF StagedNext
<1>3. prepared' = [prepared EXCEPT ![d] = None] /\ nextSeq' = [nextSeq EXCEPT ![d] = e.seq + 1]
  BY Zenon DEF CommitPreparedUpload
<1>4. prepared \in [Device -> Envelope \cup {None}] /\ nextSeq \in [Device -> Nat]
  BY DEF TypeOK
<1> HIDE DEF d, e
<1>5. StagedNext'
  BY <1>1, <1>3, <1>4 DEF StagedNext
<1>6. \A a \in Released' : a \in Released
  <2> SUFFICES ASSUME NEW a \in Released', a \notin Released PROVE FALSE
    OBVIOUS
  <2>1. PICK c \in Device : a = prepared'[c] /\ a # None
    BY ReleasedStep
  <2>2. prepared'[c] = prepared[c] \/ prepared'[c] = None
    BY <1>3, <1>4
  <2> QED
    BY <2>1, <2>2, ReleasedMember
<1>7. \A a \in Released : a.dev \in Device /\ a.seq \in Nat /\ a.seq <= nextSeq[a.dev]
                          /\ (a.seq = nextSeq[a.dev] => prepared[a.dev] = a)
  BY ReleasedType DEF ReleasedUpToStaged
<1>9. ReleasedUpToStaged'
  BY <1>1, <1>2, <1>3, <1>4, <1>6, <1>7 DEF ReleasedUpToStaged
<1>10. OneEnvelopePerSequence'
  BY <1>6 DEF OneEnvelopePerSequence
<1> QED
  BY <1>5, <1>9, <1>10

\* Every step keeps the invariant.
LEMMA RetryStep ==
    ASSUME RetryInv, Next
    PROVE  RetryInv'
<1>a. TypeOK /\ RequestsBehind /\ StagedNext /\ ReleasedUpToStaged /\ SealedOwn /\ OneEnvelopePerSequence
  BY DEF RetryInv, CursorInv, TypeInv
<1>1. CursorInv' /\ SealedOwn'
  BY <1>a, CursorStep, SealedOwnStep DEF RetryInv
<1>2. CASE UNCHANGED <<nextSeq, prepared>>
  <2>1. \A a \in Released' : a \in Released
    BY <1>a, <1>2, ReleasedStep, ReleasedMember
  <2> QED
    BY <1>a, <1>1, <1>2, <2>1 DEF RetryInv, StagedNext, ReleasedUpToStaged, OneEnvelopePerSequence
<1>3. CASE \E w \in Worker : SavePreparedUpload(w)
  BY <1>a, <1>1, <1>3, SaveRetry DEF RetryInv
<1>4. CASE \E w \in Worker : CommitPreparedUpload(w)
  BY <1>a, <1>1, <1>4, CommitRetry DEF RetryInv
<1> QED
  BY <1>2, <1>3, <1>4, StageMoves

\* At first nothing is released.
LEMMA InitRetry == Init => RetryInv
<1> SUFFICES ASSUME Init PROVE RetryInv
  OBVIOUS
<1>1. Released = {}
  <2> SUFFICES ASSUME NEW a \in Released PROVE FALSE
    OBVIOUS
  <2>1. DOMAIN log = {} /\ late = {}
    BY DEF Init
  <2>2. \A d \in Device : prepared[d] = None
    BY DEF Init
  <2>3. \A w \in Worker : pc[w] # "sent"
    BY DEF Init
  <2> QED
    BY <2>1, <2>2, <2>3, ReleasedMember
<1>2. StagedNext /\ SealedOwn
  BY Zenon DEF Init, StagedNext, SealedOwn
<1> QED
  BY <1>1, <1>2, InitCursor DEF RetryInv, ReleasedUpToStaged, OneEnvelopePerSequence

\* A step that changes nothing keeps the invariant.
LEMMA StutterRetry == RetryInv /\ UNCHANGED vars => RetryInv'
<1> SUFFICES ASSUME RetryInv, UNCHANGED vars PROVE RetryInv'
  BY Zenon
<1>1. Released' = Released
  BY DEF Released, vars, store, process, relay
<1>2. CursorInv'
  BY StutterCursor DEF RetryInv
<1> QED
  BY <1>1, <1>2
  DEF RetryInv, StagedNext, SealedOwn, ReleasedUpToStaged, OneEnvelopePerSequence, vars, store, process

\* Exact retry (prepare, SavePreparedUpload, CommitPreparedUpload): a sequence
\* number of a device never stands for two envelopes, whatever crashes, lost
\* answers, late requests and concurrent sync-once processes do.
THEOREM ExactRetry == Spec => []OneEnvelopePerSequence
<1>1. RetryInv /\ [Next]_vars => RetryInv'
  BY RetryStep, StutterRetry
<1>2. RetryInv => OneEnvelopePerSequence
  BY DEF RetryInv
<1> QED
  BY InitRetry, <1>1, <1>2, PTL DEF Spec

-----------------------------------------------------------------------------
(* One writer for each store. *)

\* The relay has stored the envelope e.
InLogRecord(e) == \E i \in DOMAIN log : log[i] = e

\* The worker in a round holds the lock and has the cursor that is stored.
Alone ==
    \A w \in Worker : pc[w] # "idle" => lock[Home[w]] = w /\ mem[w].cursor = cursor[Home[w]]

\* The relay has the chain of d up to the checkpoint and no further.
Unsent(d) ==
    /\ \A i \in DOMAIN log : log[i].dev = d => log[i].seq < nextSeq[d]
    /\ nextSeq[d] = 1 => prevHash[d] = NoHash
    /\ nextSeq[d] # 1 =>
          \E i \in DOMAIN log : log[i].dev = d /\ log[i].seq = nextSeq[d] - 1 /\ log[i].hash = prevHash[d]

\* The relay's chain ends at the checkpoint or with the staged envelope.
ChainInv ==
    /\ \A i \in DOMAIN log : log[i].seq >= 1
    /\ \A d \in Device :
          /\ nextSeq[d] >= 1
          /\ prepared[d] # None => prepared[d].prev = prevHash[d]
          /\ Unsent(d) \/ (prepared[d] # None /\ InLogRecord(prepared[d]))

\* What a worker carries at each point of its round.
UploadInv(w) ==
    LET d == Home[w]
    IN  /\ pc[w] \in {"loaded", "sealed"} => prepared[d] = None
        /\ pc[w] = "loaded" => mem[w].seq = nextSeq[d] /\ mem[w].prev = prevHash[d]
        /\ pc[w] = "sealed" => mem[w].upload.prev = prevHash[d]
        /\ pc[w] \in {"sent", "replied", "merging", "store"} => mem[w].upload = prepared[d]
        /\ pc[w] \in {"replied", "merging", "store"} =>
              mem[w].accepted /\ (mem[w].upload # None => InLogRecord(mem[w].upload))

\* An abandoned request repeats the staged envelope or one the relay has.
LateInv ==
    \A r \in late : r.upload # None => r.upload = prepared[r.upload.dev] \/ InLogRecord(r.upload)

\* The inductive invariant of a store with one writer.
ChainedInv == RetryInv /\ Alone /\ ChainInv /\ LateInv /\ \A w \in Worker : UploadInv(w)

-----------------------------------------------------------------------------
(* One worker at a time. *)

\* Two workers in a round belong to different devices.
LEMMA Exclusive ==
    ASSUME Alone, NEW v \in Worker, NEW w \in Worker, v # w, pc[v] # "idle", pc[w] # "idle"
    PROVE  Home[v] # Home[w]
  BY DEF Alone

\* A step of a worker writes no other store than that of its device, and none
\* at all outside of a round.
LEMMA StoreFrame ==
    ASSUME TypeOK, NEW w \in Worker, Step(w) \/ Fail(w) \/ Crash(w)
    PROVE  /\ pc[w] = "idle" => UNCHANGED store
           /\ \A c \in Device : c # Home[w] =>
                 /\ phrases'[c] = phrases[c] /\ outbox'[c] = outbox[c] /\ lastEvent'[c] = lastEvent[c]
                 /\ cursor'[c] = cursor[c] /\ nextSeq'[c] = nextSeq[c]
                 /\ prevHash'[c] = prevHash[c] /\ prepared'[c] = prepared[c]
<1>a. Home[w] \in Device
  BY HomeAssumption
<1>1. CASE UNCHANGED store
  BY <1>1, Zenon DEF store
<1>2. CASE SavePreparedUpload(w)
  BY <1>2, <1>a DEF SavePreparedUpload, TypeOK
<1>3. CASE MergeStore(w)
  BY <1>3, <1>a, ZenonT(30) DEF MergeStore, TypeOK
<1>4. CASE CommitPreparedUpload(w)
  <2>1. /\ outbox' = Acknowledged(Home[w], prepared[Home[w]])
        /\ nextSeq' = [nextSeq EXCEPT ![Home[w]] = prepared[Home[w]].seq + 1]
        /\ prevHash' = [prevHash EXCEPT ![Home[w]] = prepared[Home[w]].hash]
        /\ prepared' = [prepared EXCEPT ![Home[w]] = None]
        /\ UNCHANGED <<phrases, lastEvent, cursor>>
        /\ pc[w] = "merging"
    BY <1>4 DEF CommitPreparedUpload
  <2>2. outbox' = outbox \/ outbox' = [outbox EXCEPT ![Home[w]][prepared[Home[w]].obj] = None]
    BY <2>1, Zenon DEF Acknowledged
  <2> QED
    BY <2>1, <2>2, <1>a, ZenonT(30) DEF TypeOK
<1>5. CASE AdvanceSyncCursor(w)
  BY <1>5, <1>a, Zenon DEF AdvanceSyncCursor, PageDone, TypeOK
<1> QED
  BY <1>1, <1>2, <1>3, <1>4, <1>5, ZenonT(30)
 
  DEF Step, Fail, Crash, Acquire, Load, Seal, StageRefused, Reload, ServeSync, ReceiveReply, ReceiveRejection,
      ReceiveUndecodable, MergeLoad, CommitRefused, AdvanceRefused

\* So the store of a worker in a round changes by its own steps and by local
\* mutations only.
LEMMA OtherStore ==
    ASSUME TypeOK, Alone, NEW w \in Worker, Step(w) \/ Fail(w) \/ Crash(w),
           NEW v \in Worker, v # w, pc[v] # "idle", NEW d, d = Home[v]
    PROVE  /\ phrases'[d] = phrases[d] /\ outbox'[d] = outbox[d] /\ lastEvent'[d] = lastEvent[d]
           /\ cursor'[d] = cursor[d] /\ nextSeq'[d] = nextSeq[d]
           /\ prevHash'[d] = prevHash[d] /\ prepared'[d] = prepared[d]
<1>1. d \in Device
  BY HomeAssumption, Zenon
<1>2. CASE pc[w] = "idle"
  BY <1>2, StoreFrame, Zenon DEF store
<1>3. CASE pc[w] # "idle"
  BY <1>1, <1>3, Exclusive, StoreFrame, Zenon
<1> QED
  BY <1>2, <1>3, Zenon

\* The lock changes with its holder only.
LEMMA LockFrame ==
    ASSUME TypeOK, Alone, OneShot = {}, NEW w \in Worker, Step(w) \/ Fail(w) \/ Crash(w),
           NEW v \in Worker, v # w, pc[v] # "idle"
    PROVE  lock'[Home[v]] = lock[Home[v]]
<1>1. Home[v] \in Device /\ Home[w] \in Device /\ lock[Home[v]] = v /\ v # None
  BY HomeAssumption, NoneAssumption, Zenon DEF Alone
<1>2. CASE Acquire(w)
  BY <1>1, <1>2, Zenon DEF Acquire, TypeOK
<1>3. CASE Crash(w)
  BY <1>1, <1>3 DEF Crash, TypeOK
<1>4. CASE UNCHANGED lock
  BY <1>4
<1> QED
  BY <1>2, <1>3, <1>4, ZenonT(30)
  DEF Step, Fail, Load, Seal, SavePreparedUpload, StageRefused, Reload, ServeSync, ReceiveReply,
     ReceiveRejection, ReceiveUndecodable, MergeLoad, MergeStore, CommitPreparedUpload,
     CommitRefused,
     AdvanceSyncCursor, AdvanceRefused

\* No step brings a second writer to a store.
LEMMA AloneStep ==
    ASSUME CursorInv, Alone, OneShot = {}, Next
    PROVE  Alone'
<1>0. TypeOK /\ RequestsBehind
  BY Zenon DEF CursorInv, TypeInv
<1>a. pc \in [Worker -> Label] /\ mem \in [Worker -> Local]
  BY <1>0 DEF TypeOK, Label
<1> SUFFICES ASSUME NEW v \in Worker, pc'[v] # "idle"
             PROVE  lock'[Home[v]] = v /\ mem'[v].cursor = cursor'[Home[v]]
  BY Zenon DEF Alone
<1>1. ASSUME NEW w \in Worker, Step(w) \/ Fail(w) \/ Crash(w), v # w
      PROVE  lock'[Home[v]] = v /\ mem'[v].cursor = cursor'[Home[v]]
  <2>1. pc[v] # "idle" /\ mem'[v] = mem[v]
    BY <1>0, <1>1, WorkerFrame
  <2>2. lock'[Home[v]] = lock[Home[v]] /\ cursor'[Home[v]] = cursor[Home[v]]
    BY <1>0, <1>1, <2>1, LockFrame, OtherStore
  <2> QED
    BY <2>1, <2>2 DEF Alone
<1>2. CASE EndRound(v)
  BY <1>2, <1>a DEF EndRound, Goto
<1>3. CASE Acquire(v)
  <2>1. pc[v] # "idle"
    BY <1>3 DEF Acquire
  <2>2. lock[Home[v]] = v /\ v # None
    BY <2>1, NoneAssumption DEF Alone
  <2> QED
    BY <1>3, <2>2 DEF Acquire
<1>4. CASE Load(v)
  <2>1. mem'[v] = LoadSyncState(v) /\ cursor' = cursor /\ lock' = lock /\ lock[Home[v]] = v
    BY <1>4, <1>a DEF Load, Worker, store
  <2>2. LoadSyncState(v).cursor = cursor[Home[v]]
    BY DEF LoadSyncState, Idle
  <2> QED
    BY <2>1, <2>2, Zenon
<1>5. CASE Step(v) /\ ~Acquire(v) /\ ~Load(v) /\ ~EndRound(v)
  <2>1. pc[v] # "idle" /\ UNCHANGED <<lock, cursor>>
    BY <1>5, Zenon
    DEF Step, Seal, SavePreparedUpload, StageRefused, Reload, ServeSync, ReceiveReply,
        ReceiveRejection, ReceiveUndecodable, MergeLoad, MergeStore, CommitPreparedUpload,
       CommitRefused,
        AdvanceSyncCursor, AdvanceRefused, store
  <2>2. mem'[v].cursor = mem[v].cursor \/ mem'[v].cursor = cursor[Home[v]]
    BY <1>0, <1>5, WorkerCursor
  <2> QED
    BY <2>1, <2>2 DEF Alone
<1>6. CASE Fail(v) \/ Crash(v)
  BY <1>6, <1>2 DEF Fail, Crash, Abandon
<1>7. ASSUME NEW r \in late, ServeLate(r) PROVE lock'[Home[v]] = v /\ mem'[v].cursor = cursor'[Home[v]]
  BY <1>7 DEF ServeLate, process, store, Alone
<1>8. ASSUME NEW d \in Device, NEW o \in Object, NEW q \in BOOLEAN, Mutate(d, o, q)
      PROVE  lock'[Home[v]] = v /\ mem'[v].cursor = cursor'[Home[v]]
  BY <1>8 DEF Mutate, process, Alone
<1> QED
  BY <1>1, <1>2, <1>3, <1>4, <1>5, <1>6, <1>7, <1>8, ZenonT(30) DEF Next

-----------------------------------------------------------------------------
(* The chain. *)

\* The positions of a device's records in the one account.
LEMMA DeviceRecordsOf ==
    ASSUME TypeOK, NEW d
    PROVE  DeviceRecords(log, Account, d) = {i \in DOMAIN log : log[i].dev = d}
<1>1. \A i \in DOMAIN log : log[i] \in Envelope
  BY LogType
<1>2. \A e \in Envelope : e.acct = Account
  BY Zenon DEF Envelope
<1> QED
  BY <1>1, <1>2 DEF DeviceRecords

\* A device whose chain the relay has up to the checkpoint: the relay expects
\* exactly the checkpoint's sequence number and previous hash.
LEMMA ChainEnd ==
    ASSUME TypeOK, ChainInv, OneEnvelopePerSequence, NEW d \in Device, Unsent(d)
    PROVE  /\ lastSequence(log, Account, d) + 1 = nextSeq[d]
           /\ lastHash(log, Account, d) = prevHash[d]
           /\ \A i \in DeviceRecords(log, Account, d) : log[i].seq # nextSeq[d]
<1> DEFINE mine == DeviceRecords(log, Account, d)
           last == LastRecord(log, Account, d)
<1>1. mine = {i \in DOMAIN log : log[i].dev = d}
  BY DeviceRecordsOf, Zenon
<1>2. nextSeq[d] \in Nat /\ nextSeq[d] >= 1
  BY Zenon DEF TypeOK, ChainInv
<1>3. \A i \in mine : log[i].seq \in Nat /\ log[i].seq >= 1 /\ log[i].seq < nextSeq[d]
  <2> TAKE i \in mine
  <2>1. i \in DOMAIN log /\ log[i] \in Envelope
    BY <1>1, LogType, Zenon
  <2> QED
    BY <1>1, <2>1 DEF Envelope, ChainInv, Unsent
<1>4. CASE nextSeq[d] = 1
  <2>1. mine = {}
    BY <1>2, <1>3, <1>4
  <2>2. prevHash[d] = NoHash
    BY <1>4, Zenon DEF Unsent
  <2> QED
    BY <1>4, <2>1, <2>2, SMTT(30) DEF lastSequence, lastHash
<1>5. CASE nextSeq[d] # 1
  <2>1. PICK i \in mine : log[i].seq = nextSeq[d] - 1 /\ log[i].hash = prevHash[d]
    BY <1>1, <1>5 DEF Unsent
  <2>2. \A j \in mine : log[j].seq <= log[i].seq
    BY <1>2, <1>3, <2>1
  <2>3. last \in mine /\ \A j \in mine : log[j].seq <= log[last].seq
    BY <2>2, Zenon DEF LastRecord
  <2>4. log[last].seq = log[i].seq
    BY <1>3, <2>2, <2>3, SMTT(30)
  <2>5. log[last] \in Released /\ log[i] \in Released /\ log[last].dev = log[i].dev
    BY <1>1, <2>3, ReleasedMember
  <2>6. log[last] = log[i]
    BY <2>4, <2>5, Zenon DEF OneEnvelopePerSequence
  <2> HIDE DEF last
  <2>7. lastSequence(log, Account, d) = log[i].seq /\ lastHash(log, Account, d) = log[i].hash
    BY <2>1, <2>6, Zenon DEF lastSequence, lastHash, last
  <2> QED
    BY <1>2, <1>3, <2>1, <2>7, SMTT(30)
<1> QED
  BY <1>4, <1>5

\* An envelope that may be sent: the staged one or one the relay has.
Resent(e) == e = prepared[e.dev] \/ InLogRecord(e)

\* The relay accepts what may be sent: it knows it, or it is next.
LEMMA VerdictOnResent ==
    ASSUME TypeOK, StagedNext, OneEnvelopePerSequence, ChainInv, NEW e \in Envelope, Resent(e)
    PROVE  /\ InLogRecord(e) => Verdict(log, e) = "duplicate"
           /\ ~InLogRecord(e) => Verdict(log, e) = "append" /\ Unsent(e.dev) /\ e = prepared[e.dev]
<1>1. e.acct = Account /\ e.dev \in Device /\ e # None
  BY NoneAssumption DEF Envelope
<1>2. DeviceRecords(log, Account, e.dev) = {i \in DOMAIN log : log[i].dev = e.dev}
  BY DeviceRecordsOf
<1>3. InLogRecord(e) => Verdict(log, e) = "duplicate"
  BY <1>1, <1>2, Zenon DEF InLogRecord, Verdict
<1>4. ASSUME ~InLogRecord(e) PROVE Verdict(log, e) = "append" /\ Unsent(e.dev) /\ e = prepared[e.dev]
  <2>1. e = prepared[e.dev]
    BY <1>4 DEF Resent
  <2>2. Unsent(e.dev) /\ e.prev = prevHash[e.dev] /\ e.seq = nextSeq[e.dev]
    BY <1>1, <1>4, <2>1, Zenon DEF ChainInv, StagedNext
  <2>3. /\ lastSequence(log, Account, e.dev) + 1 = e.seq
        /\ lastHash(log, Account, e.dev) = e.prev
        /\ \A i \in DeviceRecords(log, Account, e.dev) : log[i].seq # e.seq
    BY <1>1, <2>2, ChainEnd
  <2> QED
    BY <1>1, <2>1, <2>2, <2>3, Zenon DEF Verdict
<1> QED
  BY <1>3, <1>4

\* Every upload in flight may be sent.
LEMMA InFlightResent ==
    ASSUME TypeOK, StagedNext, LateInv, \A w \in Worker : UploadInv(w), NEW r, InFlight(r), r.upload # None
    PROVE  Resent(r.upload)
<1>1. CASE r \in late
  BY <1>1 DEF LateInv, Resent
<1>2. ASSUME NEW w \in Worker, pc[w] = "sent", r = Request(w) PROVE Resent(r.upload)
  <2>1. r.upload = prepared[Home[w]] /\ Home[w] \in Device
    BY <1>2, RequestType DEF UploadInv
  <2>2. r.upload.dev = Home[w]
    BY <2>1 DEF StagedNext
  <2> QED
    BY <2>1, <2>2, Zenon DEF Resent
<1> QED
  BY <1>1, <1>2 DEF InFlight

\* A record stays in the log.
LEMMA InLogStays ==
    ASSUME TypeOK, RequestsBehind, Next, NEW e, InLogRecord(e)
    PROVE  \E i \in DOMAIN log' : log'[i] = e
<1>1. Len(log) <= Len(log') /\ \A i \in DOMAIN log : log'[i] = log[i]
  BY LogStep
<1>2. DOMAIN log \subseteq DOMAIN log'
  <2>1. CASE UNCHANGED <<log, ack>>
    BY <2>1, Zenon
  <2>2. ASSUME NEW r, InFlight(r), log' = LogAfter(r) PROVE DOMAIN log \subseteq DOMAIN log'
    BY <2>2, InFlightType, LogAfterGrows, Zenon
  <2> QED
    BY <2>1, <2>2, RelayMoves
<1> QED
  BY <1>1, <1>2, Zenon DEF InLogRecord

\* What a step does to the log and to the checkpoints.
LEMMA ChainMoves ==
    ASSUME TypeOK, Next
    PROVE  \/ UNCHANGED <<log, nextSeq, prevHash, prepared>>
           \/ \E r : InFlight(r) /\ log' = LogAfter(r) /\ UNCHANGED store
           \/ \E w \in Worker : SavePreparedUpload(w) \/ CommitPreparedUpload(w)
<1>1. ASSUME NEW w \in Worker, ServeSync(w)
      PROVE  \E r : InFlight(r) /\ log' = LogAfter(r) /\ UNCHANGED store
  BY <1>1, Zenon DEF ServeSync, InFlight
<1>2. ASSUME NEW w \in Worker, Step(w), ~ServeSync(w), ~SavePreparedUpload(w), ~CommitPreparedUpload(w)
      PROVE  UNCHANGED <<log, nextSeq, prevHash, prepared>>
  BY <1>2, Zenon
  DEF Step, Acquire, Load, Seal, StageRefused, Reload, ReceiveReply, ReceiveRejection,
     ReceiveUndecodable, MergeLoad, MergeStore, CommitRefused, AdvanceSyncCursor, AdvanceRefused,
     store, relay
<1>3. ASSUME NEW w \in Worker, Fail(w) \/ Crash(w) PROVE UNCHANGED <<log, nextSeq, prevHash, prepared>>
  BY <1>3 DEF Fail, Crash, store
<1>4. ASSUME NEW r \in late, ServeLate(r)
      PROVE  \E q : InFlight(q) /\ log' = LogAfter(q) /\ UNCHANGED store
  BY <1>4, Zenon DEF ServeLate, InFlight
<1>5. ASSUME NEW d \in Device, NEW o \in Object, NEW q \in BOOLEAN, Mutate(d, o, q)
      PROVE  UNCHANGED <<log, nextSeq, prevHash, prepared>>
  BY <1>5, Zenon DEF Mutate, relay
<1> QED
  BY <1>1, <1>2, <1>3, <1>4, <1>5 DEF Next

\* Serving an upload that may be sent: the log has it afterwards.
LEMMA ServedUpload ==
    ASSUME TypeOK, StagedNext, OneEnvelopePerSequence, ChainInv, NEW r, r.upload \in Envelope,
           Resent(r.upload), log' = LogAfter(r)
    PROVE  /\ Accepted(Verdict(log, r.upload))
           /\ \E i \in DOMAIN log' : log'[i] = r.upload
           /\ InLogRecord(r.upload) => log' = log
           /\ ~InLogRecord(r.upload) => log' = Append(log, r.upload)
<1>1. r.upload # None /\ log' = Upload(log, r.upload)
  BY NoneAssumption, Zenon DEF LogAfter
<1>2. CASE InLogRecord(r.upload)
  BY <1>1, <1>2, VerdictOnResent, Zenon DEF Upload, Accepted, InLogRecord
<1>3. CASE ~InLogRecord(r.upload)
  <2>1. Verdict(log, r.upload) = "append" /\ log' = Append(log, r.upload)
    BY <1>1, <1>3, VerdictOnResent DEF Upload
  <2>2. Len(log) + 1 \in DOMAIN log' /\ log'[Len(log) + 1] = r.upload
    BY <2>1, LogType
  <2> QED
    BY <1>3, <2>1, <2>2, Zenon DEF Accepted
<1> QED
  BY <1>2, <1>3

\* Serving a request, awaited or abandoned, keeps the checkpoint in step with
\* the device's chain in the log: it appends the staged envelope or nothing.
LEMMA ServeChain ==
    ASSUME TypeOK, StagedNext, OneEnvelopePerSequence, ChainInv, NEW r, r.upload \in Envelope \cup {None},
           r.upload # None => Resent(r.upload), log' = LogAfter(r), UNCHANGED store
    PROVE  ChainInv'
<1>a. UNCHANGED <<nextSeq, prevHash, prepared>>
  BY Zenon DEF store
<1>1. CASE log' = log
  BY <1>1, <1>a DEF ChainInv, Unsent, InLogRecord
<1>2. CASE r.upload # None /\ ~InLogRecord(r.upload)
  <2> DEFINE e == r.upload
  <2>1. e \in Envelope /\ e.dev \in Device /\ e.seq \in Nat
    BY <1>2, Zenon DEF Envelope
  <2>2. log' = Append(log, e) /\ Resent(e)
    BY <1>2, <2>1, ServedUpload, Zenon
  <2>3. Unsent(e.dev) /\ e = prepared[e.dev]
    BY <1>2, <2>1, <2>2, VerdictOnResent, Zenon
  <2>4. e.seq = nextSeq[e.dev] /\ e # None
    BY <1>2, <2>1, <2>3, Zenon DEF StagedNext
  <2> HIDE DEF e
  <2>5. /\ DOMAIN log' = 1 .. Len(log) + 1 /\ DOMAIN log \subseteq DOMAIN log'
        /\ \A i \in DOMAIN log : log'[i] = log[i]
        /\ Len(log) + 1 \in DOMAIN log' /\ log'[Len(log) + 1] = e
        /\ \A i \in DOMAIN log' : i \in DOMAIN log \/ i = Len(log) + 1
    BY <2>1, <2>2, LogType, SMTT(30)
  <2>6. \A i \in DOMAIN log' : log'[i].seq >= 1
    BY <2>1, <2>4, <2>5 DEF ChainInv
  <2>7. ASSUME NEW c \in Device
        PROVE  /\ nextSeq'[c] >= 1
               /\ prepared'[c] # None => prepared'[c].prev = prevHash'[c]
               /\ Unsent(c)' \/ (prepared'[c] # None /\ InLogRecord(prepared[c])')
    <3>1. nextSeq'[c] >= 1 /\ (prepared'[c] # None => prepared'[c].prev = prevHash'[c])
      BY <1>a, Zenon DEF ChainInv
    <3>2. CASE c = e.dev
      BY <2>3, <2>4, <2>5, <3>1, <3>2, <1>a, Zenon DEF InLogRecord
    <3>3. CASE c # e.dev /\ Unsent(c)
      <4>1. Unsent(c)'
        BY <2>5, <3>3, <1>a DEF Unsent
      <4> QED
        BY <3>1, <4>1, Zenon
    <3>4. CASE c # e.dev /\ ~Unsent(c)
      <4>1. prepared[c] # None /\ InLogRecord(prepared[c])
        BY <3>4, Zenon DEF ChainInv
      <4>2. InLogRecord(prepared[c])'
        BY <2>5, <4>1, <1>a DEF InLogRecord
      <4> QED
        BY <1>a, <3>1, <4>1, <4>2, Zenon
    <3> QED
      BY <3>2, <3>3, <3>4, Zenon
  <2> QED
    BY <2>6, <2>7, Zenon DEF ChainInv
<1>3. CASE r.upload = None
  BY <1>1, <1>3, Zenon DEF LogAfter
<1>4. CASE r.upload # None /\ InLogRecord(r.upload)
  BY <1>1, <1>4, ServedUpload, Zenon
<1> QED
  BY <1>2, <1>3, <1>4

\* SavePreparedUpload stages an envelope that extends the device's chain.
LEMMA SaveChain ==
    ASSUME TypeOK, SealedOwn, ChainInv, NEW w \in Worker, UploadInv(w), SavePreparedUpload(w)
    PROVE  ChainInv'
<1> DEFINE d == Home[w]
           e == mem[w].upload
<1>1. d \in Device /\ prepared[d] = None /\ e # None /\ e.prev = prevHash[d]
  BY HomeAssumption DEF SavePreparedUpload, CanStage, SealedOwn, UploadInv
<1>2. prepared' = [prepared EXCEPT ![d] = e] /\ UNCHANGED <<log, nextSeq, prevHash>>
  BY Zenon DEF SavePreparedUpload, relay
<1>3. prepared \in [Device -> Envelope \cup {None}]
  BY Zenon DEF TypeOK
<1> HIDE DEF d, e
<1>4. ASSUME NEW c \in Device
      PROVE  /\ nextSeq'[c] >= 1
             /\ prepared'[c] # None => prepared'[c].prev = prevHash'[c]
             /\ Unsent(c)' \/ (prepared'[c] # None /\ InLogRecord(prepared[c])')
  <2>1. Unsent(c) => Unsent(c)'
    BY <1>2 DEF Unsent
  <2>2. CASE c = d
    BY <1>1, <1>2, <1>3, <2>1, <2>2, Zenon DEF ChainInv
  <2>3. CASE c # d
    <3>1. prepared'[c] = prepared[c]
      BY <1>2, <1>3, <2>3, Zenon
    <3> QED
      BY <1>2, <2>1, <3>1, Zenon DEF ChainInv, InLogRecord
  <2> QED
    BY <2>2, <2>3, Zenon
<1> QED
  BY <1>2, <1>4, Zenon DEF ChainInv

\* CommitPreparedUpload moves the checkpoint to a record that the log has.
LEMMA CommitChain ==
    ASSUME TypeOK, StagedNext, ReleasedUpToStaged, ChainInv, NEW w \in Worker, UploadInv(w),
           CommitPreparedUpload(w)
    PROVE  ChainInv'
<1> DEFINE d == Home[w]
           e == prepared[d]
<1>1. d \in Device /\ e # None /\ InLogRecord(e)
  BY HomeAssumption, Zenon DEF CommitPreparedUpload, UploadInv
<1>2. /\ prepared' = [prepared EXCEPT ![d] = None]
      /\ nextSeq' = [nextSeq EXCEPT ![d] = e.seq + 1]
      /\ prevHash' = [prevHash EXCEPT ![d] = e.hash]
      /\ log' = log
  BY DEF CommitPreparedUpload, relay
<1>3. /\ prepared \in [Device -> Envelope \cup {None}] /\ nextSeq \in [Device -> Nat]
      /\ prevHash \in [Device -> Hash \cup {NoHash}]
  BY Zenon DEF TypeOK
<1>4. e.dev = d /\ e.seq = nextSeq[d] /\ nextSeq[d] \in Nat /\ nextSeq[d] >= 1
  BY <1>1, <1>3, Zenon DEF StagedNext, ChainInv
<1> HIDE DEF d, e
<1>5. nextSeq'[d] = nextSeq[d] + 1 /\ prevHash'[d] = e.hash /\ prepared'[d] = None
  BY <1>1, <1>2, <1>3, <1>4, Zenon
<1>6. \A i \in DOMAIN log : log[i].dev = d => log[i].seq \in Nat /\ log[i].seq <= nextSeq[d]
  BY ReleasedMember, ReleasedType, Zenon DEF ReleasedUpToStaged
<1>7. Unsent(d)'
  <2>1. \A i \in DOMAIN log' : log'[i].dev = d => log'[i].seq < nextSeq'[d]
    BY <1>2, <1>4, <1>5, <1>6, SMTT(30)
  <2>2. nextSeq'[d] # 1
    BY <1>4, <1>5, SMTT(30)
  <2>3. \E i \in DOMAIN log' : log'[i].dev = d /\ log'[i].seq = nextSeq'[d] - 1 /\ log'[i].hash = prevHash'[d]
    BY <1>1, <1>2, <1>4, <1>5, SMTT(30) DEF InLogRecord
  <2> QED
    BY <2>1, <2>2, <2>3, Zenon DEF Unsent
<1>8. ASSUME NEW c \in Device
      PROVE  /\ nextSeq'[c] >= 1
             /\ prepared'[c] # None => prepared'[c].prev = prevHash'[c]
             /\ Unsent(c)' \/ (prepared'[c] # None /\ InLogRecord(prepared[c])')
  <2>1. CASE c = d
    BY <1>4, <1>5, <1>7, <2>1, SMTT(30)
  <2>2. CASE c # d
    <3>1. prepared'[c] = prepared[c] /\ nextSeq'[c] = nextSeq[c] /\ prevHash'[c] = prevHash[c]
      BY <1>2, <1>3, <2>2, Zenon
    <3>2. Unsent(c) => Unsent(c)'
      BY <1>2, <3>1 DEF Unsent
    <3> QED
      BY <1>2, <3>1, <3>2 DEF ChainInv, InLogRecord
  <2> QED
    BY <2>1, <2>2, Zenon
<1> QED
  BY <1>2, <1>8, Zenon DEF ChainInv

\* Every step keeps the checkpoints in step with the log.
LEMMA ChainStep ==
    ASSUME ChainedInv, Next
    PROVE  ChainInv'
<1>a. /\ TypeOK /\ RequestsBehind /\ StagedNext /\ ReleasedUpToStaged /\ SealedOwn
      /\ OneEnvelopePerSequence /\ ChainInv /\ LateInv /\ \A w \in Worker : UploadInv(w)
  BY Zenon DEF ChainedInv, RetryInv, CursorInv, TypeInv
<1>1. CASE UNCHANGED <<log, nextSeq, prevHash, prepared>>
  BY <1>1, <1>a DEF ChainInv, Unsent, InLogRecord
<1>2. ASSUME NEW r, InFlight(r), log' = LogAfter(r), UNCHANGED store PROVE ChainInv'
  BY <1>2, <1>a, InFlightType, InFlightResent, ServeChain, Zenon
<1>3. ASSUME NEW w \in Worker, SavePreparedUpload(w) \/ CommitPreparedUpload(w) PROVE ChainInv'
  BY <1>3, <1>a, SaveChain, CommitChain
<1> QED
  BY <1>a, <1>1, <1>2, <1>3, ChainMoves, Zenon

\* Whatever may be sent may be sent again later.
LEMMA ResentStays ==
    ASSUME ChainedInv, Next, NEW e \in Envelope, Resent(e)
    PROVE  Resent(e)'
<1>a. TypeOK /\ RequestsBehind /\ StagedNext /\ \A w \in Worker : UploadInv(w)
  BY DEF ChainedInv, RetryInv, CursorInv, TypeInv
<1>b. e # None /\ e.dev \in Device
  BY NoneAssumption DEF Envelope
<1>1. CASE InLogRecord(e)
  BY <1>1, <1>a, InLogStays DEF Resent, InLogRecord
<1>2. CASE e = prepared[e.dev]
  <2>1. CASE UNCHANGED prepared
    BY <1>2, <2>1 DEF Resent
  <2>2. ASSUME NEW w \in Worker, SavePreparedUpload(w) PROVE Resent(e)'
    <3>1. prepared[Home[w]] = None /\ prepared' = [prepared EXCEPT ![Home[w]] = mem[w].upload]
      BY <2>2, Zenon DEF SavePreparedUpload, CanStage
    <3>2. prepared'[e.dev] = prepared[e.dev]
      BY <1>2, <1>b, <3>1, <1>a DEF TypeOK
    <3> QED
      BY <1>2, <3>2, Zenon DEF Resent
  <2>3. ASSUME NEW w \in Worker, CommitPreparedUpload(w) PROVE Resent(e)'
    <3>1. CASE e.dev = Home[w]
      <4>1. pc[w] = "merging" /\ mem[w].upload # None
        BY <2>3, Zenon DEF CommitPreparedUpload
      <4>2. mem[w].upload = prepared[Home[w]] /\ InLogRecord(mem[w].upload)
        BY <1>a, <4>1, Zenon DEF UploadInv
      <4>3. InLogRecord(e)
        BY <1>2, <3>1, <4>2
      <4> QED
        BY <1>1, <4>3
    <3>2. CASE e.dev # Home[w]
      <4>1. prepared'[e.dev] = prepared[e.dev]
        BY <2>3, <3>2, <1>a, <1>b, ZenonT(30) DEF CommitPreparedUpload, TypeOK
      <4> QED
        BY <1>2, <4>1 DEF Resent
    <3> QED
      BY <3>1, <3>2
  <2> QED
    BY <2>1, <2>2, <2>3, StageMoves
<1> QED
  BY <1>1, <1>2 DEF Resent

\* A request that outlives its sender keeps carrying a staged or stored envelope.
LEMMA LateStep ==
    ASSUME ChainedInv, Next
    PROVE  LateInv'
<1>a. TypeOK /\ RequestsBehind /\ StagedNext /\ LateInv /\ \A w \in Worker : UploadInv(w)
  BY DEF ChainedInv, RetryInv, CursorInv, TypeInv
<1> SUFFICES ASSUME NEW r \in late', r.upload # None PROVE Resent(r.upload)'
  BY DEF LateInv, Resent, InLogRecord
<1>1. InFlight(r)
  BY <1>a, RelayMoves
<1>2. r.upload \in Envelope /\ Resent(r.upload)
  BY <1>1, <1>a, InFlightType, InFlightResent, Zenon
<1> QED
  BY <1>2, ResentStays

\* A worker that does not move, and whose checkpoint does not, keeps what it
\* carries.
LEMMA UploadFrame ==
    ASSUME TypeOK, RequestsBehind, Next, NEW v \in Worker, UploadInv(v), pc'[v] = pc[v], mem'[v] = mem[v],
           pc[v] # "idle" => /\ nextSeq'[Home[v]] = nextSeq[Home[v]]
                             /\ prevHash'[Home[v]] = prevHash[Home[v]]
                             /\ prepared'[Home[v]] = prepared[Home[v]]
    PROVE  UploadInv(v)'
<1>1. CASE pc[v] = "idle"
  BY <1>1, Zenon DEF UploadInv
<1>2. CASE pc[v] # "idle"
  <2>1. InLogRecord(mem[v].upload) => InLogRecord(mem[v].upload)'
    BY InLogStays DEF InLogRecord
  <2> QED
    BY <1>2, <2>1, Zenon DEF UploadInv
<1> QED
  BY <1>1, <1>2, Zenon

\* What a worker carries after a step of its own.
LEMMA UploadOwnStep ==
    ASSUME ChainedInv, Next, NEW v \in Worker, Step(v)
    PROVE  UploadInv(v)'
<1>a. /\ TypeOK /\ RequestsBehind /\ StagedNext /\ SealedOwn
      /\ OneEnvelopePerSequence /\ ChainInv /\ LateInv /\ UploadInv(v)
  BY Zenon DEF ChainedInv, RetryInv, CursorInv, TypeInv
<1>b. pc \in [Worker -> Label] /\ mem \in [Worker -> Local] /\ Home[v] \in Device /\ mem[v] \in Local
  BY <1>a, HomeAssumption, Zenon DEF TypeOK, Label
<1>1. CASE Acquire(v)
  BY <1>1, <1>a, UploadFrame, Zenon DEF Acquire, store
<1>2. CASE EndRound(v)
  <2>1. pc'[v] = "idle"
    BY <1>2, <1>b, Zenon DEF EndRound, Goto
  <2> QED
    BY <2>1 DEF UploadInv
<1>3. CASE Load(v) \/ Reload(v)
  <2>1. mem'[v] = LoadSyncState(v) /\ UNCHANGED <<nextSeq, prevHash, prepared>>
    BY <1>3, <1>b, Zenon DEF Load, Reload, store
  <2>2. pc'[v] = "sent" \/ (pc'[v] = "loaded" /\ prepared[Home[v]] = None)
    BY <1>3, <1>b DEF Load, Reload, Goto
  <2>3. /\ LoadSyncState(v).upload = prepared[Home[v]]
        /\ LoadSyncState(v).seq = nextSeq[Home[v]]
        /\ LoadSyncState(v).prev = prevHash[Home[v]]
    BY DEF LoadSyncState, Idle
  <2> QED
    BY <2>1, <2>2, <2>3 DEF UploadInv
<1>4. CASE Seal(v)
  <2>1. /\ pc[v] = "loaded" /\ UNCHANGED <<nextSeq, prevHash, prepared>>
        /\ mem[v].upload = None /\ prepared[Home[v]] = None /\ mem[v].prev = prevHash[Home[v]]
    BY <1>4, <1>a DEF Seal, UploadInv, SealedOwn, store
  <2>2. CASE Goto(v, "sent") /\ UNCHANGED mem
    <3>1. pc'[v] = "sent"
      BY <2>2, <1>b DEF Goto
    <3> QED
      BY <2>1, <2>2, <3>1, Zenon DEF UploadInv
  <2>3. ASSUME NEW o \in FirstPending(Home[v]),
               mem' = [mem EXCEPT ![v].upload = SealEnvelope(v, o)], Goto(v, "sealed")
        PROVE  UploadInv(v)'
    <3>1. pc'[v] = "sealed" /\ mem'[v].upload = SealEnvelope(v, o)
      BY <2>3, <1>b DEF Goto, Local
    <3>2. SealEnvelope(v, o).prev = mem[v].prev
      BY Zenon DEF SealEnvelope
    <3> QED
      BY <2>1, <3>1, <3>2, Zenon DEF UploadInv
  <2> QED
    BY <1>4, <2>2, <2>3 DEF Seal
<1>5. CASE SavePreparedUpload(v)
  <2>1. pc'[v] = "staged"
    BY <1>5, <1>b DEF SavePreparedUpload, Goto
  <2> QED
    BY <2>1, Zenon DEF UploadInv
<1>6. CASE ServeSync(v)
  <2> DEFINE r == Request(v)
             ok == r.upload = None \/ Accepted(Verdict(log, r.upload))
  <2>1. r.upload = mem[v].upload /\ r.upload \in Envelope \cup {None}
    BY <1>a, RequestType, Zenon
  <2>2. pc[v] = "sent" /\ log' = LogAfter(r) /\ UNCHANGED store /\ pc'[v] = "replied" /\ InFlight(r)
    BY <1>6, <1>b DEF ServeSync, InFlight, Goto
  <2>3. r.upload # None => Resent(r.upload)
    <3>1. mem[v].upload = prepared[Home[v]]
      BY <2>2, <1>a, Zenon DEF UploadInv
    <3>2. prepared[Home[v]] # None => prepared[Home[v]].dev = Home[v]
      BY <1>a, <1>b, Zenon DEF StagedNext
    <3> HIDE DEF r
    <3> QED
      BY <2>1, <3>1, <3>2, Zenon DEF Resent
  <2>4. r.upload # None => Accepted(Verdict(log, r.upload)) /\ \E i \in DOMAIN log' : log'[i] = r.upload
    BY <2>1, <2>2, <2>3, <1>a, ServedUpload
  <2>5. mem'[v].accepted = ok /\ mem'[v].upload = mem[v].upload
    <3>1. PICK end \in PageEnds(LogAfter(r), Account, r.cursor, PageLimit) :
            mem' = [mem EXCEPT
                      ![v].accepted = ok,
                      ![v].todo = PageRecords(LogAfter(r), Account, r.cursor, end),
                      ![v].next = nextCursor(LogAfter(r), Account, end)]
      BY <1>6, Zenon DEF ServeSync
    <3> HIDE DEF r, ok
    <3> QED
      BY <3>1, <1>b DEF Local
  <2>6. mem[v].upload = prepared[Home[v]]
    BY <2>2, <1>a, Zenon DEF UploadInv
  <2>7. ok
    BY <2>4, Zenon
  <2> HIDE DEF ok, r
  <2> QED
    BY <2>1, <2>2, <2>4, <2>5, <2>6, <2>7, ZenonT(30) DEF UploadInv, InLogRecord, store
<1>7. CASE ReceiveReply(v)
  <2>1. /\ pc[v] = "replied" /\ pc'[v] = "merging" /\ mem' = mem
        /\ UNCHANGED <<prepared, log>>
    BY <1>7, <1>b, Zenon DEF ReceiveReply, Goto, store, relay
  <2> QED
    BY <2>1, <1>a, Zenon DEF UploadInv, InLogRecord
<1>8. CASE MergeLoad(v)
  <2>1. /\ pc[v] = "merging" /\ pc'[v] = "store"
        /\ mem'[v].upload = mem[v].upload /\ mem'[v].accepted = mem[v].accepted
        /\ UNCHANGED <<prepared, log>>
    BY <1>8, <1>b, Zenon DEF MergeLoad, Goto, store, relay, Local
  <2> QED
    BY <2>1, <1>a, Zenon DEF UploadInv, InLogRecord
<1>9. CASE MergeStore(v)
  <2>1. /\ pc[v] = "store" /\ pc'[v] = "merging"
        /\ mem'[v].upload = mem[v].upload /\ mem'[v].accepted = mem[v].accepted
        /\ UNCHANGED <<prepared, log>>
    BY <1>9, <1>b, Zenon DEF MergeStore, Goto, relay, Local
  <2> QED
    BY <2>1, <1>a, Zenon DEF UploadInv, InLogRecord
<1>10. CASE CommitPreparedUpload(v)
  <2>1. pc'[v] = "committed"
    BY <1>10, <1>b DEF CommitPreparedUpload, Goto
  <2> QED
    BY <2>1, Zenon DEF UploadInv
<1> QED
  BY <1>1, <1>2, <1>3, <1>4, <1>5, <1>6, <1>7, <1>8, <1>9, <1>10, ZenonT(30)
 
  DEF Step, StageRefused, ReceiveRejection, ReceiveUndecodable, CommitRefused, AdvanceSyncCursor, AdvanceRefused

\* What a worker holds between two steps of SyncOnce stays what is staged.
LEMMA UploadStep ==
    ASSUME ChainedInv, Next, NEW v \in Worker
    PROVE  UploadInv(v)'
<1>a. TypeOK /\ RequestsBehind /\ Alone /\ UploadInv(v)
  BY DEF ChainedInv, RetryInv, CursorInv, TypeInv
<1>b. pc \in [Worker -> Label]
  BY <1>a, Zenon DEF TypeOK, Label
<1>1. CASE Step(v)
  BY <1>1, UploadOwnStep, Zenon
<1>2. CASE Fail(v) \/ Crash(v)
  <2>1. pc'[v] = "idle"
    BY <1>2, <1>b, Zenon DEF Fail, Crash, Abandon, EndRound, Goto
  <2> QED
    BY <2>1, Zenon DEF UploadInv
<1>3. ASSUME NEW w \in Worker, w # v, Step(w) \/ Fail(w) \/ Crash(w) PROVE UploadInv(v)'
  <2>1. pc'[v] = pc[v] /\ mem'[v] = mem[v]
    BY <1>3, <1>a, WorkerFrame, Zenon
  <2>2. pc[v] # "idle" => /\ nextSeq'[Home[v]] = nextSeq[Home[v]]
                          /\ prevHash'[Home[v]] = prevHash[Home[v]]
                          /\ prepared'[Home[v]] = prepared[Home[v]]
    BY <1>3, <1>a, OtherStore, ZenonT(30)
  <2> QED
    BY <1>a, <2>1, <2>2, UploadFrame, Zenon
<1>4. ASSUME NEW r \in late, ServeLate(r) PROVE UploadInv(v)'
  BY <1>4, <1>a, UploadFrame, Zenon DEF ServeLate, store, process
<1>5. ASSUME NEW d \in Device, NEW o \in Object, NEW q \in BOOLEAN, Mutate(d, o, q) PROVE UploadInv(v)'
  BY <1>5, <1>a, UploadFrame DEF Mutate, process
<1> QED
  BY <1>1, <1>2, <1>3, <1>4, <1>5, Zenon DEF Next

\* ChainedInv is kept by every step when no store has a sync-once process.
LEMMA ChainedStep ==
    ASSUME ChainedInv, OneShot = {}, Next
    PROVE  ChainedInv'
<1>1. RetryInv' /\ Alone'
  BY RetryStep, AloneStep DEF ChainedInv, RetryInv
<1>2. ChainInv' /\ LateInv'
  BY ChainStep, LateStep
<1>3. \A w \in Worker : UploadInv(w)'
  BY UploadStep
<1> QED
  BY <1>1, <1>2, <1>3 DEF ChainedInv

\* ChainedInv holds with empty stores and an empty log.
LEMMA InitChained == Init => ChainedInv
<1> SUFFICES ASSUME Init PROVE ChainedInv
  OBVIOUS
<1>1. DOMAIN log = {} /\ late = {} /\ \A w \in Worker : pc[w] = "idle"
  BY SMTT(30) DEF Init
<1>2. \A d \in Device : nextSeq[d] = 1 /\ prevHash[d] = NoHash /\ prepared[d] = None
  BY Zenon DEF Init
<1>u. \A d \in Device : Unsent(d)
  BY <1>1, <1>2, Zenon DEF Unsent
<1>c. ChainInv
  <2>1. \A d \in Device : nextSeq[d] >= 1
    BY <1>2
  <2>2. \A i \in DOMAIN log : log[i].seq >= 1
    BY <1>1, Zenon
  <2> QED
    BY <1>2, <1>u, <2>1, <2>2, Zenon DEF ChainInv
<1>3. Alone /\ ChainInv /\ LateInv
  BY <1>1, <1>c, Zenon DEF Alone, LateInv
<1>4. \A w \in Worker : UploadInv(w)
  BY <1>1 DEF UploadInv
<1> QED
  BY <1>3, <1>4, InitRetry DEF ChainedInv

\* ChainedInv speaks of nothing but the variables.
LEMMA StutterChained == ChainedInv /\ UNCHANGED vars => ChainedInv'
<1> SUFFICES ASSUME ChainedInv, UNCHANGED vars PROVE ChainedInv'
  OBVIOUS
<1>1. RetryInv'
  BY StutterRetry DEF ChainedInv
<1>2. UNCHANGED <<phrases, outbox, lastEvent, cursor, nextSeq, prevHash, prepared, lock, pc, mem, log, late>>
  BY Zenon DEF vars, store, process, relay
<1>3. Alone' /\ LateInv'
  BY <1>2 DEF ChainedInv, Alone, LateInv, InLogRecord
<1>4. ChainInv'
  BY <1>2, Zenon DEF ChainedInv, ChainInv, Unsent, InLogRecord
<1>5. \A w \in Worker : UploadInv(w)'
  BY <1>2 DEF ChainedInv, UploadInv, InLogRecord
<1> QED
  BY <1>1, <1>3, <1>4, <1>5 DEF ChainedInv

\* The relay never answers a worker with sequence_conflict, sequence_gap or
\* previous_hash_mismatch when each store has one writer: SyncOnce never stops
\* at "prepared upload rejected", which no retry would get past.
THEOREM NoUploadRejected ==
    ASSUME OneShot = {}
    PROVE  Spec => []UploadsAccepted
<1>1. ChainedInv /\ [Next]_vars => ChainedInv'
  BY ChainedStep, StutterChained, Zenon
<1>2. ChainedInv => UploadsAccepted
  BY DEF ChainedInv, UploadInv, UploadsAccepted
<1> QED
  BY InitChained, <1>1, <1>2, PTL DEF Spec
=============================================================================
