------------------------- MODULE SyncDeliveryProofs -------------------------
(***************************************************************************)
(* Nothing is lost and nothing is skipped when every store has one writer, *)
(* and the system then implements ReplicatedPhrases: the invariants of     *)
(* SyncUploadProofs extended to the contents of rows, events and records.  *)
(* What is staged is still the event it was sealed from or an older        *)
(* version of it (CurrentInv), so that no acknowledgement drops a newer    *)
(* one; the records between the cursor and the page's end are merged or    *)
(* still to merge (Page), so that no record is skipped.                    *)
(***************************************************************************)
EXTENDS SyncUploadProofs

\* An outbox event is the row as it was at some time.
OutboxInv ==
    \A d \in Device, o \in Object : outbox[d][o] # None =>
        outbox[d][o].id <= lastEvent[d] /\ outbox[d][o].payload \subseteq phrases[d][o]

\* An envelope still stands for the event it was sealed from, for an older
\* version of it, or for an event that is gone.
Current(d, e) ==
    /\ e.hash.event <= lastEvent[d]
    /\ e.payload \subseteq phrases[d][e.obj]
    /\ outbox[d][e.obj] # None /\ outbox[d][e.obj].id = e.hash.event =>
          /\ e.hash.version <= outbox[d][e.obj].version
          /\ e.hash.version = outbox[d][e.obj].version => e.payload = outbox[d][e.obj].payload

\* Every staged or held envelope stands in that relation to the outbox.
CurrentInv ==
    /\ \A d \in Device : prepared[d] # None => Current(d, prepared[d])
    /\ \A w \in Worker : pc[w] = "sealed" => Current(Home[w], mem[w].upload)

\* Whoever wrote a record knows what it says.
AuthorKnows == \A i \in DOMAIN log : log[i].payload \subseteq phrases[log[i].dev][log[i].obj]

\* The records of a worker's page are merged or still to merge.
Page(w) ==
    \A i \in DOMAIN log : mem[w].cursor < i /\ i <= mem[w].next =>
        i \in mem[w].todo \/ log[i].payload \subseteq phrases[Home[w]][log[i].obj]

\* The row a worker is about to write was read from the row as it still is.
PageInv(w) ==
    /\ pc[w] \in Answered => Page(w)
    /\ pc[w] = "store" => mem[w].row = phrases[Home[w]][log[FirstTodo(w)].obj]
    /\ pc[w] = "committed" => mem[w].todo = {}

\* The inductive invariant behind NothingLost and NothingSkipped.
DeliveryInv ==
    /\ ChainedInv /\ OutboxInv /\ CurrentInv /\ AuthorKnows
    /\ \A w \in Worker : PageInv(w)
    /\ NoSkippedPage /\ NoLostMutation

-----------------------------------------------------------------------------
(* Rows only grow. *)

\* The steps that write rows and events.
LEMMA RowMoves ==
    ASSUME Next
    PROVE  \/ UNCHANGED <<phrases, outbox, lastEvent, queued>>
           \/ \E d \in Device, o \in Object, q \in BOOLEAN : Mutate(d, o, q)
           \/ \E w \in Worker : MergeStore(w) \/ CommitPreparedUpload(w)
<1>1. ASSUME NEW w \in Worker, Step(w), ~MergeStore(w), ~CommitPreparedUpload(w)
      PROVE  UNCHANGED <<phrases, outbox, lastEvent, queued>>
  BY <1>1, Zenon
  DEF Step, Acquire, Load, Seal, SavePreparedUpload, StageRefused, Reload, ServeSync, ReceiveReply,
     ReceiveRejection, ReceiveUndecodable, MergeLoad, CommitRefused, AdvanceSyncCursor,
     AdvanceRefused,
     store, history
<1>2. ASSUME NEW w \in Worker, Fail(w) \/ Crash(w) PROVE UNCHANGED <<phrases, outbox, lastEvent, queued>>
  BY <1>2 DEF Fail, Crash, store
<1>3. ASSUME NEW r \in late, ServeLate(r) PROVE UNCHANGED <<phrases, outbox, lastEvent, queued>>
  BY <1>3 DEF ServeLate, store, history
<1> QED
  BY <1>1, <1>2, <1>3 DEF Next

\* MergeStore writes the row it read together with the record's payload.
LEMMA MergeStoreRow ==
    ASSUME TypeInv, NEW w \in Worker, PageInv(w), MergeStore(w), NEW f, f = FirstTodo(w),
           NEW p, p = log[f].obj
    PROVE  /\ f \in mem[w].todo /\ f \in DOMAIN log /\ p \in Object /\ Home[w] \in Device
           /\ phrases' = [phrases EXCEPT ![Home[w]][p] = phrases[Home[w]][p] \cup log[f].payload]
<1>1. mem[w].todo # {} /\ TypeOK /\ mem[w].row = phrases[Home[w]][p]
  BY DEF TypeInv, MergeStore, PageInv
<1>2. f \in mem[w].todo /\ f \in DOMAIN log /\ log[f] \in Envelope
  BY <1>1, FirstTodoIn
<1>3. p \in Object /\ Home[w] \in Device
  BY <1>2, HomeAssumption DEF Envelope
<1>4. phrases' = [phrases EXCEPT ![Home[w]][p] = phrases[Home[w]][p] \cup log[f].payload]
  BY <1>1 DEF MergeStore, MergedRow
<1> QED
  BY <1>2, <1>3, <1>4

\* No step takes a mutation out of a row.
LEMMA PhrasesGrow ==
    ASSUME TypeInv, \A w \in Worker : PageInv(w), Next, NEW c \in Device, NEW p \in Object
    PROVE  phrases[c][p] \subseteq phrases'[c][p]
<1>a. phrases \in [Device -> [Object -> Phrase]]
  BY DEF TypeInv, TypeOK
<1>1. CASE UNCHANGED phrases
  BY <1>1
<1>2. ASSUME NEW d \in Device, NEW o \in Object, NEW q \in BOOLEAN, Mutate(d, o, q)
      PROVE  phrases[c][p] \subseteq phrases'[c][p]
  <2>1. phrases' = [phrases EXCEPT ![d][o] = phrases[d][o] \cup {<<d, mutations[d] + 1>>}]
    BY <1>2 DEF Mutate
  <2>2. CASE c = d /\ p = o
    BY <1>a, <2>1, <2>2
  <2>3. CASE ~(c = d /\ p = o)
    BY <1>a, <2>1, <2>3
  <2> QED
    BY <2>2, <2>3
<1>3. ASSUME NEW w \in Worker, MergeStore(w) PROVE phrases[c][p] \subseteq phrases'[c][p]
  <2> DEFINE f == FirstTodo(w)
             b == log[f].obj
  <2>1. /\ phrases' = [phrases EXCEPT ![Home[w]][b] = phrases[Home[w]][b] \cup log[f].payload]
        /\ b \in Object /\ Home[w] \in Device
    BY <1>3, MergeStoreRow
  <2> HIDE DEF f, b
  <2>2. CASE c = Home[w] /\ p = b
    BY <1>a, <2>1, <2>2
  <2>3. CASE ~(c = Home[w] /\ p = b)
    BY <1>a, <2>1, <2>3
  <2> QED
    BY <2>2, <2>3
<1>4. ASSUME NEW w \in Worker, CommitPreparedUpload(w) PROVE UNCHANGED phrases
  BY <1>4, Zenon DEF CommitPreparedUpload
<1> QED
  BY <1>1, <1>2, <1>3, <1>4, RowMoves

-----------------------------------------------------------------------------
(* Events. *)

\* What a step does to the outbox row of an object: remove it, leave it, or
\* replace it by a new event or by a new version with the row as it is now.
LEMMA EventMoves ==
    ASSUME TypeOK, OutboxInv, Next, NEW c \in Device, NEW p \in Object
    PROVE  /\ lastEvent[c] <= lastEvent'[c]
           /\ \/ outbox'[c][p] = None
              \/ outbox'[c][p] = outbox[c][p]
              \/ /\ outbox'[c][p].payload \subseteq phrases'[c][p]
                 /\ outbox'[c][p].id <= lastEvent'[c]
                 /\ \/ outbox'[c][p].id > lastEvent[c]
                    \/ /\ outbox[c][p] # None
                       /\ outbox'[c][p].id = outbox[c][p].id
                       /\ outbox'[c][p].version > outbox[c][p].version
<1>a. /\ phrases \in [Device -> [Object -> Phrase]]
      /\ outbox \in [Device -> [Object -> Event \cup {None}]]
      /\ lastEvent \in [Device -> Nat]
  BY DEF TypeOK
<1>1. CASE UNCHANGED <<outbox, lastEvent>>
  BY <1>1, <1>a
<1>2. ASSUME NEW w \in Worker, MergeStore(w) PROVE UNCHANGED <<outbox, lastEvent>>
  BY <1>2 DEF MergeStore
<1>3. ASSUME NEW w \in Worker, CommitPreparedUpload(w)
      PROVE  lastEvent' = lastEvent /\ (outbox'[c][p] = None \/ outbox'[c][p] = outbox[c][p])
  <2>1. lastEvent' = lastEvent /\ outbox' = Acknowledged(Home[w], prepared[Home[w]])
    BY <1>3 DEF CommitPreparedUpload
  <2> DEFINE d == Home[w]
             o == prepared[d].obj
  <2>2. outbox' = outbox \/ outbox' = [outbox EXCEPT ![d][o] = None]
    BY <2>1 DEF Acknowledged
  <2> HIDE DEF d, o
  <2>3. CASE outbox' = [outbox EXCEPT ![d][o] = None]
    <3>1. CASE c # d
      BY <2>1, <2>3, <3>1, <1>a
    <3>2. CASE c = d
      <4>1. outbox'[c] = [outbox[c] EXCEPT ![o] = None]
        BY <2>3, <3>2, <1>a
      <4>2. outbox[c] \in [Object -> Event \cup {None}]
        BY <1>a
      <4> QED
        BY <2>1, <4>1, <4>2
    <3> QED
      BY <3>1, <3>2
  <2> QED
    BY <2>1, <2>2, <2>3
<1>4. ASSUME NEW d \in Device, NEW o \in Object, Mutate(d, o, TRUE), c = d, p = o
      PROVE  /\ lastEvent[c] <= lastEvent'[c]
             /\ outbox'[c][p].payload \subseteq phrases'[c][p]
             /\ outbox'[c][p].id <= lastEvent'[c]
             /\ \/ outbox'[c][p].id > lastEvent[c]
                \/ /\ outbox[c][p] # None
                   /\ outbox'[c][p].id = outbox[c][p].id
                   /\ outbox'[c][p].version > outbox[c][p].version
  <2> DEFINE row == phrases[d][o] \cup {<<d, mutations[d] + 1>>}
  <2>1. /\ phrases' = [phrases EXCEPT ![d][o] = row]
        /\ outbox' = [outbox EXCEPT ![d][o] = Enqueued(d, o, row)]
        /\ lastEvent' = [lastEvent EXCEPT ![d] = IF outbox[d][o] = None THEN @ + 1 ELSE @]
    BY <1>4 DEF Mutate
  <2> HIDE DEF row
  <2>2. phrases'[d][o] = row /\ outbox'[d][o] = Enqueued(d, o, row)
    BY <2>1, <1>a
  <2>3. CASE outbox[d][o] = None
    <3>1. outbox'[d][o] = [id |-> lastEvent[d] + 1, version |-> 1, payload |-> row]
      BY <2>2, <2>3 DEF Enqueued
    <3>2. lastEvent'[d] = lastEvent[d] + 1 /\ lastEvent[d] \in Nat
      BY <2>1, <2>3, <1>a
    <3> QED
      BY <1>4, <2>2, <3>1, <3>2
  <2>4. CASE outbox[d][o] # None
    <3>1. outbox'[d][o] = [id |-> outbox[d][o].id, version |-> outbox[d][o].version + 1, payload |-> row]
      BY <2>2, <2>4 DEF Enqueued
    <3>2. lastEvent'[d] = lastEvent[d] /\ lastEvent[d] \in Nat
      BY <2>1, <2>4, <1>a
    <3>3. outbox[d][o] \in Event
      BY <2>4, <1>a
    <3>4. outbox[d][o].version \in Nat /\ outbox[d][o].id \in Nat
      BY <3>3 DEF Event
    <3>5. outbox[d][o].id <= lastEvent[d]
      BY <2>4 DEF OutboxInv
    <3> QED
      BY <1>4, <2>2, <2>4, <3>1, <3>2, <3>4, <3>5
  <2> QED
    BY <2>3, <2>4
<1>5. ASSUME NEW d \in Device, NEW o \in Object, NEW q \in BOOLEAN, Mutate(d, o, q), ~(q /\ c = d /\ p = o)
      PROVE  lastEvent[c] <= lastEvent'[c] /\ outbox'[c][p] = outbox[c][p]
  <2>1. CASE q = FALSE
    <3>1. UNCHANGED <<outbox, lastEvent>>
      BY <1>5, <2>1 DEF Mutate
    <3> QED
      BY <3>1, <1>a
  <2>2. CASE q = TRUE
    <3>1. /\ outbox' = [outbox EXCEPT ![d][o] = Enqueued(d, o, phrases[d][o] \cup {<<d, mutations[d] + 1>>})]
          /\ lastEvent' = [lastEvent EXCEPT ![d] = IF outbox[d][o] = None THEN @ + 1 ELSE @]
      BY <1>5, <2>2 DEF Mutate
    <3>2. outbox'[c][p] = outbox[c][p]
      BY <3>1, <1>a, <1>5, <2>2
    <3>3. lastEvent[c] <= lastEvent'[c]
      BY <3>1, <1>a
    <3> QED
      BY <3>2, <3>3
  <2> QED
    BY <2>1, <2>2, Zenon
<1>6. lastEvent[c] \in Nat
  BY <1>a, Zenon
<1>7. CASE \E d \in Device, o \in Object, q \in BOOLEAN : Mutate(d, o, q)
  <2>1. PICK d \in Device, o \in Object, q \in BOOLEAN : Mutate(d, o, q)
    BY <1>7
  <2>2. CASE q = TRUE /\ c = d /\ p = o
    BY <2>1, <2>2, <1>4, Zenon
  <2>3. CASE ~(q = TRUE /\ c = d /\ p = o)
    BY <2>1, <2>3, <1>5
  <2> QED
    BY <2>2, <2>3, Zenon
<1>8. CASE \E w \in Worker : MergeStore(w)
  BY <1>1, <1>2, <1>8
<1>9. CASE \E w \in Worker : CommitPreparedUpload(w)
  BY <1>3, <1>6, <1>9, SMTT(30)
<1> QED
  BY <1>1, <1>7, <1>8, <1>9, RowMoves

\* What an envelope stands for stays as Current says.
LEMMA CurrentStays ==
    ASSUME TypeInv, OutboxInv, \A w \in Worker : PageInv(w), Next,
           NEW c \in Device, NEW e \in Envelope, Current(c, e)
    PROVE  Current(c, e)'
<1>a. TypeOK /\ TypeOK'
  BY NextType DEF TypeInv
<1>1. e.obj \in Object /\ e.hash \in Hash
  BY DEF Envelope
<1>2. e.hash.event \in Nat /\ e.hash.version \in Nat
  BY <1>1 DEF Hash
<1> DEFINE old == outbox[c][e.obj]
           new == outbox'[c][e.obj]
<1>3. /\ lastEvent[c] \in Nat /\ lastEvent'[c] \in Nat
      /\ old \in Event \cup {None} /\ new \in Event \cup {None}
  <2>1. outbox \in [Device -> [Object -> Event \cup {None}]] /\ lastEvent \in [Device -> Nat]
    BY <1>a, Zenon DEF TypeOK
  <2>2. outbox' \in [Device -> [Object -> Event \cup {None}]] /\ lastEvent' \in [Device -> Nat]
    BY <1>a, Zenon DEF TypeOK
  <2> QED
    BY <1>1, <2>1, <2>2, Zenon
<1>4. /\ old # None => old.id \in Nat /\ old.version \in Nat
      /\ new # None => new.id \in Nat /\ new.version \in Nat
  BY <1>3, Zenon DEF Event
<1>5. /\ lastEvent[c] <= lastEvent'[c]
      /\ \/ new = None
         \/ new = old
         \/ new.id > lastEvent[c]
         \/ old # None /\ new.id = old.id /\ new.version > old.version
  BY <1>a, <1>1, EventMoves
<1>6. phrases[c][e.obj] \subseteq phrases'[c][e.obj]
  BY <1>1, PhrasesGrow, Zenon
<1>7. /\ e.hash.event <= lastEvent[c] /\ e.payload \subseteq phrases[c][e.obj]
      /\ old # None /\ old.id = e.hash.event =>
            e.hash.version <= old.version /\ (e.hash.version = old.version => e.payload = old.payload)
  BY DEF Current
<1> HIDE DEF old, new
<1>8. e.hash.event <= lastEvent'[c] /\ e.payload \subseteq phrases'[c][e.obj]
  BY <1>2, <1>3, <1>5, <1>6, <1>7
<1>9. ASSUME new # None, new.id = e.hash.event
      PROVE  e.hash.version <= new.version /\ (e.hash.version = new.version => e.payload = new.payload)
  BY <1>2, <1>3, <1>4, <1>5, <1>7, <1>9
<1> QED
  BY <1>8, <1>9 DEF Current, new

\* upsert coalesces an event with the row it writes, so events stay rows of
\* the past.
LEMMA OutboxStep ==
    ASSUME TypeInv, OutboxInv, \A w \in Worker : PageInv(w), Next
    PROVE  OutboxInv'
<1>a. TypeOK /\ TypeOK'
  BY NextType DEF TypeInv
<1> SUFFICES ASSUME NEW c \in Device, NEW p \in Object, outbox'[c][p] # None
             PROVE  outbox'[c][p].id <= lastEvent'[c] /\ outbox'[c][p].payload \subseteq phrases'[c][p]
  BY Zenon DEF OutboxInv
<1>b. outbox \in [Device -> [Object -> Event \cup {None}]] /\ lastEvent \in [Device -> Nat] /\ lastEvent' \in [Device -> Nat]
  BY <1>a DEF TypeOK
<1>1. lastEvent[c] \in Nat /\ lastEvent'[c] \in Nat /\ lastEvent[c] <= lastEvent'[c]
  <2>1. lastEvent[c] <= lastEvent'[c]
    BY <1>a, EventMoves
  <2> QED
    BY <1>b, <2>1
<1>2. phrases[c][p] \subseteq phrases'[c][p]
  BY PhrasesGrow
<1>3. CASE outbox'[c][p] = outbox[c][p]
  <2>1. outbox[c][p] \in Event
    BY <1>b, <1>3
  <2>2. outbox[c][p].id \in Nat
    BY <2>1 DEF Event
  <2> QED
    BY <1>1, <1>2, <1>3, <2>2 DEF OutboxInv
<1> QED
  BY <1>a, <1>3, EventMoves

\* A sealed envelope is the event as it is.
LEMMA SealCurrent ==
    ASSUME TypeOK, OutboxInv, NEW v \in Worker, NEW o \in FirstPending(Home[v])
    PROVE  Current(Home[v], SealEnvelope(v, o))
<1> DEFINE d == Home[v]
           ev == outbox[d][o]
           e == SealEnvelope(v, o)
<1>1. d \in Device /\ o \in Object /\ ev # None
  BY HomeAssumption, Zenon DEF FirstPending
<1>t. outbox \in [Device -> [Object -> Event \cup {None}]]
  BY DEF TypeOK
<1>2. ev \in Event
  BY <1>1, <1>t
<1>3. ev.version \in Nat
  BY <1>2, Zenon DEF Event
<1>4. e.obj = o /\ e.payload = ev.payload /\ e.hash.event = ev.id /\ e.hash.version = ev.version
  BY DEF SealEnvelope
<1>5. ev.id <= lastEvent[d] /\ ev.payload \subseteq phrases[d][o]
  BY <1>1, Zenon DEF OutboxInv
<1> HIDE DEF e, ev
<1>6. Current(d, e)
  BY <1>3, <1>4, <1>5 DEF Current, ev
<1> QED
  BY <1>6 DEF e

\* Sealing reads the event it names; later mutations only raise its version.
LEMMA CurrentStep ==
    ASSUME ChainedInv, OutboxInv, CurrentInv, \A w \in Worker : PageInv(w), Next
    PROVE  CurrentInv'
<1>a. TypeInv /\ TypeOK /\ SealedOwn
  BY Zenon DEF ChainedInv, RetryInv, CursorInv, TypeInv
<1>b. /\ pc \in [Worker -> Label] /\ mem \in [Worker -> Local]
      /\ prepared \in [Device -> Envelope \cup {None}]
  BY <1>a DEF TypeOK, Label
<1>c. \A w \in Worker : pc[w] = "sealed" => mem[w].upload \in Envelope
  <2> TAKE w \in Worker
  <2>1. mem[w].upload \in Envelope \cup {None}
    BY <1>b DEF Local
  <2> QED
    BY <2>1, <1>a DEF SealedOwn
<1>d. \A w \in Worker : Home[w] \in Device
  BY HomeAssumption
<1>1. ASSUME NEW d \in Device, prepared'[d] # None PROVE Current(d, prepared[d])'
  <2>1. CASE prepared'[d] = prepared[d]
    <3>1. prepared[d] \in Envelope /\ Current(d, prepared[d])
      BY <1>1, <2>1, <1>b DEF CurrentInv
    <3>2. \A e \in Envelope : Current(d, e) => Current(d, e)'
      BY <1>a, CurrentStays
    <3> QED
      BY <2>1, <3>1, <3>2 DEF Current
  <2>2. ASSUME NEW w \in Worker, SavePreparedUpload(w), d = Home[w] PROVE Current(d, prepared[d])'
    <3>1. pc[w] = "sealed" /\ prepared' = [prepared EXCEPT ![d] = mem[w].upload]
      BY <2>2 DEF SavePreparedUpload
    <3>2. mem[w].upload \in Envelope /\ Current(d, mem[w].upload) /\ prepared'[d] = mem[w].upload
      BY <2>2, <3>1, <1>b, <1>c DEF CurrentInv
    <3>3. \A e \in Envelope : Current(d, e) => Current(d, e)'
      BY <1>a, CurrentStays
    <3> QED
      BY <3>2, <3>3, Zenon DEF Current
  <2>3. ASSUME NEW w \in Worker, SavePreparedUpload(w), d # Home[w] PROVE prepared'[d] = prepared[d]
    BY <2>3, <1>b DEF SavePreparedUpload
  <2>4. ASSUME NEW w \in Worker, CommitPreparedUpload(w) PROVE prepared'[d] = prepared[d]
    <3>1. prepared' = [prepared EXCEPT ![Home[w]] = None]
      BY <2>4, Zenon DEF CommitPreparedUpload
    <3> QED
      BY <1>1, <3>1, <1>b, Zenon
  <2> QED
    BY <2>1, <2>2, <2>3, <2>4, StageMoves, Zenon
<1>2. ASSUME NEW v \in Worker, pc'[v] = "sealed" PROVE Current(Home[v], mem[v].upload)'
  <2>1. CASE pc'[v] = pc[v] /\ mem'[v] = mem[v]
    <3>1. mem[v].upload \in Envelope /\ Current(Home[v], mem[v].upload)
      BY <1>2, <2>1, <1>c DEF CurrentInv
    <3>2. \A e \in Envelope : Current(Home[v], e) => Current(Home[v], e)'
      BY <1>a, <1>d, CurrentStays, Zenon
    <3> QED
      BY <2>1, <3>1, <3>2, Zenon DEF Current
  <2>2. CASE Seal(v)
    <3>1. PICK o \in FirstPending(Home[v]) : mem' = [mem EXCEPT ![v].upload = SealEnvelope(v, o)]
      BY <1>2, <1>b, <2>2 DEF Seal, Goto
    <3>2. mem'[v].upload = SealEnvelope(v, o)
      BY <3>1, <1>b DEF Local
    <3>3. UNCHANGED <<phrases, outbox, lastEvent>>
      BY <2>2 DEF Seal, store
    <3>4. Current(Home[v], SealEnvelope(v, o))
      BY <1>a, SealCurrent
    <3> DEFINE e == SealEnvelope(v, o)
    <3> HIDE DEF e
    <3>5. mem'[v].upload = e /\ Current(Home[v], e)
      BY <3>2, <3>4 DEF e
    <3> QED
      BY <3>3, <3>5 DEF Current
  <2>3. CASE Acquire(v)
    BY <2>1, <2>3 DEF Acquire
  <2>4. ASSUME NEW l \in Label \ {"sealed"}, Goto(v, l) PROVE FALSE
    BY <1>2, <1>b, <2>4 DEF Goto
  <2>5. CASE Step(v) \/ Fail(v) \/ Crash(v)
    BY <2>2, <2>3, <2>4, <2>5, ZenonT(30)
   
    DEF Step, Fail, Crash, Abandon, EndRound, StageRefused, ReceiveRejection, ReceiveUndecodable, CommitRefused,
        AdvanceSyncCursor, AdvanceRefused, SavePreparedUpload, ServeSync, ReceiveReply, MergeLoad,
       MergeStore,
        CommitPreparedUpload, Load, Reload, Label
  <2>6. ASSUME NEW w \in Worker, w # v, Step(w) \/ Fail(w) \/ Crash(w) PROVE pc'[v] = pc[v] /\ mem'[v] = mem[v]
    BY <2>6, <1>a, WorkerFrame
  <2>7. ASSUME NEW r \in late, ServeLate(r) PROVE pc'[v] = pc[v] /\ mem'[v] = mem[v]
    BY <2>7, Zenon DEF ServeLate, process
  <2>8. ASSUME NEW d \in Device, NEW o \in Object, NEW q \in BOOLEAN, Mutate(d, o, q)
        PROVE  pc'[v] = pc[v] /\ mem'[v] = mem[v]
    BY <2>8, Zenon DEF Mutate, process
  <2> QED
    BY <2>1, <2>5, <2>6, <2>7, <2>8 DEF Next
<1> QED
  BY <1>1, <1>2 DEF CurrentInv

\* A record that enters the log is the staged envelope of its author.
LEMMA AuthorStep ==
    ASSUME DeliveryInv, Next
    PROVE  AuthorKnows'
<1>a. /\ TypeInv /\ TypeOK /\ RequestsBehind /\ StagedNext /\ OneEnvelopePerSequence
      /\ ChainInv /\ LateInv /\ CurrentInv /\ AuthorKnows
      /\ \A w \in Worker : UploadInv(w) /\ PageInv(w)
  BY DEF DeliveryInv, ChainedInv, RetryInv, CursorInv, TypeInv
<1> SUFFICES ASSUME NEW i \in DOMAIN log' PROVE log'[i].payload \subseteq phrases'[log'[i].dev][log'[i].obj]
  BY Zenon DEF AuthorKnows
<1>1. ASSUME i \in DOMAIN log, log'[i] = log[i]
      PROVE  log'[i].payload \subseteq phrases'[log'[i].dev][log'[i].obj]
  <2>1. log[i] \in Envelope
    BY <1>1, <1>a, LogType
  <2>2. log[i].dev \in Device /\ log[i].obj \in Object
    BY <2>1, Zenon DEF Envelope
  <2>3. phrases[log[i].dev][log[i].obj] \subseteq phrases'[log[i].dev][log[i].obj]
    BY <2>2, <1>a, PhrasesGrow
  <2> QED
    BY <1>1, <1>a, <2>3 DEF AuthorKnows
<1>2. CASE UNCHANGED log
  BY <1>1, <1>2
<1>3. ASSUME NEW r, InFlight(r), log' = LogAfter(r)
      PROVE  log'[i].payload \subseteq phrases'[log'[i].dev][log'[i].obj]
  <2>1. r.upload \in Envelope \cup {None} /\ (r.upload # None => Resent(r.upload))
    BY <1>3, <1>a, InFlightType, InFlightResent
  <2>2. CASE r.upload = None \/ InLogRecord(r.upload)
    BY <1>2, <1>3, <1>a, <2>1, <2>2, ServedUpload, ZenonT(30) DEF LogAfter
  <2>3. CASE r.upload # None /\ ~InLogRecord(r.upload)
    <3> DEFINE e == r.upload
    <3>1. log' = Append(log, e) /\ e = prepared[e.dev] /\ e \in Envelope
      BY <1>3, <1>a, <2>1, <2>3, ServedUpload, VerdictOnResent, ZenonT(30)
    <3> HIDE DEF e
    <3>2. e.dev \in Device /\ e.obj \in Object /\ e # None
      BY <3>1, NoneAssumption DEF Envelope
    <3>3. e.payload \subseteq phrases[e.dev][e.obj]
      BY <3>1, <3>2, <1>a, Zenon DEF CurrentInv, Current
    <3>4. phrases[e.dev][e.obj] \subseteq phrases'[e.dev][e.obj]
      BY <3>2, <1>a, PhrasesGrow
    <3>5. CASE i \in DOMAIN log
      <4>1. log'[i] = log[i]
        BY <3>1, <3>5, <1>a, LogType
      <4> QED
        BY <1>1, <3>5, <4>1
    <3>6. CASE i \notin DOMAIN log
      <4>1. log'[i] = e
        BY <3>1, <3>6, <1>a, LogType
      <4> QED
        BY <3>3, <3>4, <4>1
    <3> QED
      BY <3>5, <3>6, Zenon
  <2> QED
    BY <2>2, <2>3
<1> QED
  BY <1>2, <1>3, <1>a, RelayMoves

-----------------------------------------------------------------------------
(* Pages. *)

\* A record that is merged stays merged, and records do not move.
LEMMA MergedStays ==
    ASSUME TypeInv, RequestsBehind, \A w \in Worker : PageInv(w), Next, NEW i \in DOMAIN log, NEW d \in Device,
           log[i].payload \subseteq phrases[d][log[i].obj]
    PROVE  log'[i].payload \subseteq phrases'[d][log'[i].obj]
<1>1. TypeOK
  BY DEF TypeInv
<1>2. log[i] \in Envelope /\ log'[i] = log[i]
  BY <1>1, LogType, LogStep
<1>3. log[i].obj \in Object
  BY <1>2 DEF Envelope
<1>4. phrases[d][log[i].obj] \subseteq phrases'[d][log[i].obj]
  BY <1>3, PhrasesGrow, Zenon
<1> QED
  BY <1>2, <1>4

\* The page of a worker whose todo set and cursors stay as they are.
LEMMA PageStays ==
    ASSUME TypeInv, RequestsBehind, \A w \in Worker : PageInv(w), Next, NEW v \in Worker, Page(v),
           mem'[v].cursor = mem[v].cursor, mem'[v].next = mem[v].next, mem'[v].todo = mem[v].todo
    PROVE  Page(v)'
<1>a. TypeOK /\ Home[v] \in Device /\ mem[v].next \in Nat /\ mem[v].next <= Len(log)
  BY HomeAssumption, Zenon DEF TypeInv, TypeOK, Local
<1> SUFFICES ASSUME NEW i \in DOMAIN log', mem[v].cursor < i, i <= mem[v].next, i \notin mem[v].todo
             PROVE  log'[i].payload \subseteq phrases'[Home[v]][log'[i].obj]
  BY DEF Page
<1>1. i \in DOMAIN log
  <2>1. TypeOK'
    BY NextType, Zenon DEF TypeInv
  <2>2. log' \in Seq(Envelope)
    BY <2>1, Zenon DEF TypeOK
  <2>3. DOMAIN log' = 1 .. Len(log') /\ Len(log') \in Nat
    BY <2>2, SMTT(30)
  <2>4. DOMAIN log = 1 .. Len(log) /\ Len(log) \in Nat
    BY <1>a, LogType
  <2>5. i \in Nat /\ i >= 1 /\ i <= Len(log)
    BY <1>a, <2>3, <2>4, SMTT(30)
  <2> QED
    BY <2>4, <2>5
<1>2. log[i].payload \subseteq phrases[Home[v]][log[i].obj]
  BY <1>1, Zenon DEF Page
<1> QED
  BY <1>a, <1>1, <1>2, MergedStays, Zenon

\* A worker that does not move keeps its page, if its rows are not written
\* while it merges one.
LEMMA PageFrame ==
    ASSUME TypeInv, RequestsBehind, \A w \in Worker : PageInv(w), Next, NEW v \in Worker,
           pc'[v] = pc[v], mem'[v] = mem[v], pc[v] = "store" => phrases'[Home[v]] = phrases[Home[v]]
    PROVE  PageInv(v)'
<1>a. PageInv(v) /\ TypeOK
  BY Zenon DEF TypeInv
<1>1. pc[v] \in Answered => Page(v)'
  BY <1>a, PageStays, Zenon DEF PageInv
<1>2. ASSUME pc[v] = "store" PROVE mem[v].row = phrases'[Home[v]][log'[FirstTodo(v)].obj]
  <2>1. FirstTodo(v) \in DOMAIN log
    BY <1>2, <1>a, FirstTodoIn DEF TypeInv
  <2>2. log'[FirstTodo(v)] = log[FirstTodo(v)]
    BY <2>1, <1>a, LogStep
  <2> QED
    BY <1>2, <1>a, <2>2, Zenon DEF PageInv
<1>3. FirstTodo(v)' = FirstTodo(v)
  BY Zenon DEF FirstTodo
<1> QED
  BY <1>a, <1>1, <1>2, <1>3 DEF PageInv

\* What a step of its own does to the page of a worker.
LEMMA PageOwnStep ==
    ASSUME TypeInv, RequestsBehind, \A w \in Worker : PageInv(w), Next, NEW v \in Worker, Step(v)
    PROVE  PageInv(v)'
<1>a. PageInv(v) /\ TypeOK /\ Home[v] \in Device
  BY HomeAssumption, Zenon DEF TypeInv
<1>b. pc \in [Worker -> Label] /\ mem \in [Worker -> Local] /\ mem[v] \in Local
  BY <1>a, Zenon DEF TypeOK, Label
<1>1. CASE Acquire(v)
  BY <1>1, PageFrame, Zenon DEF Acquire, store
<1>2. ASSUME NEW l \in Label \ Answered, Goto(v, l) PROVE PageInv(v)'
  <2>1. pc'[v] \notin Answered
    BY <1>2, <1>b, Zenon DEF Goto
  <2> QED
    BY <2>1 DEF PageInv, Answered
<1>3. CASE ServeSync(v)
  <2> DEFINE r == Request(v)
  <2>1. r.cursor = mem[v].cursor /\ r.cursor \in Nat /\ r.upload \in Envelope \cup {None}
    BY <1>a, RequestType
  <2>2. log' = LogAfter(r) /\ pc'[v] = "replied"
    BY <1>3, <1>b DEF ServeSync, Goto
  <2>3. PICK end \in PageEnds(LogAfter(r), Account, r.cursor, PageLimit) :
          mem' = [mem EXCEPT
                    ![v].accepted = r.upload = None \/ Accepted(Verdict(log, r.upload)),
                    ![v].todo = PageRecords(LogAfter(r), Account, r.cursor, end),
                    ![v].next = nextCursor(LogAfter(r), Account, end)]
    BY <1>3, Zenon DEF ServeSync
  <2>4. log' \in Seq(Envelope) /\ Len(log) <= Len(log')
    BY <1>a, <2>1, <2>2, LogAfterGrows, Zenon
  <2>n. Len(log) \in Nat /\ Len(log') \in Nat /\ mem[v].cursor \in Nat
    BY <1>a, <2>1, <2>4, LogType, SMTT(30)
  <2>m. mem[v].cursor <= Len(log)
    BY <1>a, Zenon DEF TypeOK
  <2>5. r.cursor <= Len(log')
    <3>1. mem[v].cursor <= Len(log')
      BY <2>4, <2>n, <2>m
    <3> QED
      BY <2>1, <3>1, Zenon
  <2>6. \A i \in DOMAIN log' : r.cursor < i /\ i <= end => i \in PageRecords(log', Account, r.cursor, end)
    BY <2>1, <2>2, <2>3, <2>4, <2>5, PageLemma
  <2> DEFINE todo == PageRecords(LogAfter(r), Account, r.cursor, end)
             ok == r.upload = None \/ Accepted(Verdict(log, r.upload))
  <2>7. mem'[v].cursor = mem[v].cursor /\ mem'[v].next = end /\ mem'[v].todo = todo
    <3>1. mem' = [mem EXCEPT ![v].accepted = ok, ![v].todo = todo, ![v].next = end]
      BY <2>3, Zenon DEF nextCursor
    <3> HIDE DEF ok, todo
    <3> QED
      BY <3>1, <1>b DEF Local
  <2>8. Page(v)'
    BY <2>1, <2>2, <2>6, <2>7, Zenon DEF Page
  <2> QED
    BY <2>2, <2>8, Zenon DEF PageInv
<1>4. CASE ReceiveReply(v)
  <2>1. pc[v] = "replied" /\ pc'[v] = "merging" /\ mem' = mem
    BY <1>4, <1>b, Zenon DEF ReceiveReply, Goto
  <2>2. Page(v)'
    BY <1>a, <2>1, PageStays, Zenon DEF PageInv, Answered
  <2> QED
    BY <2>1, <2>2 DEF PageInv
<1>5. CASE MergeLoad(v)
  <2>1. /\ pc[v] = "merging" /\ pc'[v] = "store" /\ UNCHANGED <<phrases, log>>
        /\ mem'[v].cursor = mem[v].cursor /\ mem'[v].next = mem[v].next /\ mem'[v].todo = mem[v].todo
        /\ mem'[v].row = phrases[Home[v]][log[FirstTodo(v)].obj]
    BY <1>5, <1>b DEF MergeLoad, Goto, store, relay, Local
  <2>2. Page(v)'
    BY <1>a, <2>1, PageStays, Zenon DEF PageInv, Answered
  <2>3. FirstTodo(v)' = FirstTodo(v)
    BY <2>1, Zenon DEF FirstTodo
  <2> QED
    BY <2>1, <2>2, <2>3 DEF PageInv
<1>6. CASE MergeStore(v)
  <2> DEFINE f == FirstTodo(v)
             p == log[f].obj
  <2>1. /\ pc[v] = "store" /\ pc'[v] = "merging" /\ log' = log
        /\ mem'[v].cursor = mem[v].cursor /\ mem'[v].next = mem[v].next
        /\ mem'[v].todo = mem[v].todo \ {f}
    BY <1>6, <1>b, Zenon DEF MergeStore, Goto, relay, Local
  <2>2. /\ f \in DOMAIN log /\ p \in Object
        /\ phrases' = [phrases EXCEPT ![Home[v]][p] = phrases[Home[v]][p] \cup log[f].payload]
    BY <1>6, <1>a, MergeStoreRow
  <2>3. log[f].payload \subseteq phrases'[Home[v]][p]
    <3> HIDE DEF p, f
    <3>1. phrases \in [Device -> [Object -> Phrase]]
      BY <1>a, Zenon DEF TypeOK
    <3>2. phrases'[Home[v]][p] = phrases[Home[v]][p] \cup log[f].payload
      BY <1>a, <2>2, <3>1
    <3> QED
      BY <3>2, Zenon
  <2>4. ASSUME NEW i \in DOMAIN log', mem'[v].cursor < i, i <= mem'[v].next, i \notin mem'[v].todo
        PROVE  log'[i].payload \subseteq phrases'[Home[v]][log'[i].obj]
    <3>1. CASE i = f
      BY <2>1, <2>3, <3>1, Zenon
    <3>2. CASE i # f
      <4>1. log[i].payload \subseteq phrases[Home[v]][log[i].obj]
        BY <1>a, <2>1, <2>4, <3>2, Zenon DEF PageInv, Page, Answered
      <4> QED
        BY <1>a, <2>1, <2>4, <4>1, MergedStays, Zenon
    <3> QED
      BY <3>1, <3>2, Zenon
  <2>5. Page(v)'
    BY <2>4, Zenon DEF Page
  <2> QED
    BY <2>1, <2>5, Zenon DEF PageInv
<1>7. CASE CommitPreparedUpload(v)
  <2>1. pc[v] = "merging" /\ pc'[v] = "committed" /\ mem' = mem /\ mem[v].todo = {}
    BY <1>7, <1>b DEF CommitPreparedUpload, Goto
  <2>2. Page(v)'
    BY <1>a, <2>1, PageStays, Zenon DEF PageInv, Answered
  <2> QED
    BY <2>1, <2>2, Zenon DEF PageInv
<1> QED
  BY <1>1, <1>2, <1>3, <1>4, <1>5, <1>6, <1>7
  DEF Step, StageRefused, ReceiveRejection, ReceiveUndecodable, CommitRefused, AdvanceSyncCursor, AdvanceRefused,
      EndRound, Load, Seal, SavePreparedUpload, Reload, Label, Answered

\* The part of a page that a worker no longer has to merge is in its store.
LEMMA PageStep ==
    ASSUME TypeInv, RequestsBehind, Alone, OneShot = {}, \A w \in Worker : PageInv(w), Next, NEW v \in Worker
    PROVE  PageInv(v)'
<1>a. TypeOK
  BY Zenon DEF TypeInv
<1>b. pc \in [Worker -> Label]
  BY <1>a DEF TypeOK, Label
<1>1. CASE Step(v)
  BY <1>1, PageOwnStep, Zenon
<1>2. CASE Fail(v) \/ Crash(v)
  <2>1. pc'[v] = "idle"
    BY <1>2, <1>b DEF Fail, Crash, Abandon, EndRound, Goto
  <2> QED
    BY <2>1, Zenon DEF PageInv, Answered
<1>3. ASSUME NEW w \in Worker, w # v, Step(w) \/ Fail(w) \/ Crash(w) PROVE PageInv(v)'
  <2>1. pc'[v] = pc[v] /\ mem'[v] = mem[v]
    BY <1>3, <1>a, WorkerFrame, Zenon
  <2>2. pc[v] = "store" => phrases'[Home[v]] = phrases[Home[v]]
    BY <1>3, <1>a, OtherStore, Zenon
  <2> QED
    BY <2>1, <2>2, PageFrame, Zenon
<1>4. ASSUME NEW r \in late, ServeLate(r) PROVE PageInv(v)'
  BY <1>4, PageFrame, Zenon DEF ServeLate, store, process
<1>5. ASSUME NEW d \in Device, NEW o \in Object, NEW q \in BOOLEAN, Mutate(d, o, q) PROVE PageInv(v)'
  <2>1. pc'[v] = pc[v] /\ mem'[v] = mem[v]
    BY <1>5, Zenon DEF Mutate, process
  <2>2. pc[v] = "store" => Home[v] # d
    BY <1>5 DEF Mutate, MutexFree, Worker
  <2>3. d # Home[v] => phrases'[Home[v]] = phrases[Home[v]]
    BY <1>5, <1>a, HomeAssumption, ZenonT(30) DEF Mutate, TypeOK
  <2> QED
    BY <2>1, <2>2, <2>3, PageFrame, Zenon
<1> QED
  BY <1>1, <1>2, <1>3, <1>4, <1>5 DEF Next

\* The cursor moves to the end of a page that is merged.
LEMMA SkipStep ==
    ASSUME DeliveryInv, Next
    PROVE  NoSkippedPage'
<1>a. TypeInv /\ TypeOK /\ RequestsBehind /\ Alone /\ NoSkippedPage /\ \A w \in Worker : PageInv(w)
  BY DEF DeliveryInv, ChainedInv, RetryInv, CursorInv, TypeInv
<1>b. TypeOK'
  BY NextType, <1>a DEF TypeInv
<1> SUFFICES ASSUME NEW d \in Device, NEW i \in DOMAIN log', i <= cursor'[d]
             PROVE  log'[i].payload \subseteq phrases'[d][log'[i].obj]
  BY DEF NoSkippedPage
<1>1. /\ i \in Nat /\ i >= 1 /\ cursor[d] \in Nat /\ cursor[d] <= Len(log)
      /\ Len(log) \in Nat /\ DOMAIN log = 1 .. Len(log)
  <2>1. log' \in Seq(Envelope) /\ cursor[d] \in 0 .. Len(log) /\ Len(log) \in Nat /\ DOMAIN log = 1 .. Len(log)
    BY <1>a, <1>b, LogType, ZenonT(30) DEF TypeOK
  <2> QED
    BY <2>1, SMTT(30)
<1>2. ASSUME i \in DOMAIN log, log[i].payload \subseteq phrases[d][log[i].obj]
      PROVE  log'[i].payload \subseteq phrases'[d][log'[i].obj]
  BY <1>2, <1>a, MergedStays, Zenon
<1>3. CASE i <= cursor[d]
  <2>1. i \in DOMAIN log
    BY <1>1, <1>3
  <2>2. log[i].payload \subseteq phrases[d][log[i].obj]
    BY <1>3, <1>a, <2>1, Zenon DEF NoSkippedPage
  <2> QED
    BY <1>2, <2>1, <2>2, Zenon
<1>4. CASE cursor[d] < i
  <2>1. PICK w \in Worker : AdvanceSyncCursor(w)
    <3>1. cursor' # cursor
      BY <1>1, <1>4
    <3>2. ASSUME NEW w \in Worker, Step(w), ~AdvanceSyncCursor(w) PROVE cursor' = cursor
      BY <3>2, Zenon
      DEF Step, Acquire, Load, Seal, SavePreparedUpload, StageRefused, Reload, ServeSync, ReceiveReply,
         ReceiveRejection, ReceiveUndecodable, MergeLoad, MergeStore, CommitPreparedUpload,
         CommitRefused,
         AdvanceRefused, store
    <3>3. ASSUME NEW w \in Worker, Fail(w) \/ Crash(w) PROVE cursor' = cursor
      BY <3>3 DEF Fail, Crash, store
    <3>4. ASSUME NEW r \in late, ServeLate(r) PROVE cursor' = cursor
      BY <3>4, Zenon DEF ServeLate, store
    <3>5. ASSUME NEW c \in Device, NEW o \in Object, NEW q \in BOOLEAN, Mutate(c, o, q) PROVE cursor' = cursor
      BY <3>5, Zenon DEF Mutate
    <3> QED
      BY <3>1, <3>2, <3>3, <3>4, <3>5 DEF Next
  <2>2. cursor' = [cursor EXCEPT ![Home[w]] = mem[w].next] /\ log' = log
    BY <2>1, Zenon DEF AdvanceSyncCursor, relay
  <2>c. cursor \in [Device -> 0 .. Len(log)]
    BY <1>a, Zenon DEF TypeOK
  <2>d. d # Home[w] => cursor'[d] = cursor[d]
    BY <2>2, <2>c, Zenon
  <2>e. d = Home[w]
    BY <1>1, <1>4, <2>d, SMTT(30)
  <2>3. d = Home[w] /\ cursor'[d] = mem[w].next
    BY <2>2, <2>c, <2>e
  <2>4. Page(w) /\ mem[w].todo = {} /\ mem[w].cursor = cursor[d]
    BY <2>1, <2>3, <1>a, Zenon DEF AdvanceSyncCursor, PageDone, PageInv, Answered
  <2>5. log[i].payload \subseteq phrases[d][log[i].obj]
    BY <1>4, <2>2, <2>3, <2>4 DEF Page
  <2> QED
    BY <1>2, <2>2, <2>5
<1>5. i <= cursor[d] \/ cursor[d] < i
  BY <1>1
<1> QED
  BY <1>3, <1>4, <1>5, Zenon

\* Published mutations stay published.
LEMMA InLogGrows ==
    ASSUME TypeOK, RequestsBehind, Next, NEW o
    PROVE  InLog(o) \subseteq InLog(o)'
<1>1. \A i \in DOMAIN log : log'[i] = log[i]
  BY LogStep
<1>2. \A i \in DOMAIN log : i \in DOMAIN log'
  <2>1. CASE UNCHANGED <<log, ack>>
    BY <2>1, Zenon
  <2>2. ASSUME NEW r, InFlight(r), log' = LogAfter(r) PROVE \A i \in DOMAIN log : i \in DOMAIN log'
    BY <2>2, InFlightType, LogAfterGrows, Zenon
  <2> QED
    BY <2>1, <2>2, RelayMoves
<1>3. ASSUME NEW m \in InLog(o) PROVE m \in InLog(o)'
  <2>1. PICK i \in DOMAIN log : log[i].obj = o /\ m \in log[i].payload
    BY <1>3 DEF InLog
  <2>2. i \in DOMAIN log' /\ log'[i].obj = o /\ m \in log'[i].payload
    BY <1>1, <1>2, <2>1, Zenon
  <2> QED
    BY <2>2 DEF InLog
<1> QED
  BY <1>3

\* What was enqueued waits or is published.
LEMMA LostStep ==
    ASSUME DeliveryInv, Next
    PROVE  NoLostMutation'
<1>a. /\ TypeInv /\ TypeOK /\ RequestsBehind /\ StagedNext /\ OutboxInv /\ CurrentInv /\ NoLostMutation
      /\ \A w \in Worker : UploadInv(w) /\ PageInv(w)
  BY Zenon DEF DeliveryInv, ChainedInv, RetryInv, CursorInv, TypeInv
<1>b. /\ phrases \in [Device -> [Object -> Phrase]]
      /\ outbox \in [Device -> [Object -> Event \cup {None}]]
      /\ queued \in [Device -> [Object -> Phrase]]
      /\ prepared \in [Device -> Envelope \cup {None}]
  BY <1>a DEF TypeOK
<1> SUFFICES ASSUME NEW c \in Device, NEW p \in Object
             PROVE  queued'[c][p] \subseteq Waits(c, p)' \cup InLog(p)'
  BY Zenon DEF NoLostMutation
<1>1. queued[c][p] \subseteq Waits(c, p) \cup InLog(p)
  BY <1>a DEF NoLostMutation
<1>2. InLog(p) \subseteq InLog(p)'
  BY <1>a, InLogGrows, Zenon
<1>3. ASSUME queued'[c][p] = queued[c][p], outbox'[c][p] = outbox[c][p]
      PROVE  queued'[c][p] \subseteq Waits(c, p)' \cup InLog(p)'
  BY <1>1, <1>2, <1>3, Zenon DEF Waits
<1>4. CASE UNCHANGED <<outbox, queued>>
  BY <1>3, <1>4
<1>5. ASSUME NEW w \in Worker, MergeStore(w) PROVE UNCHANGED <<outbox, queued>>
  BY <1>5, Zenon DEF MergeStore, history
<1>6. ASSUME NEW w \in Worker, CommitPreparedUpload(w)
      PROVE  queued'[c][p] \subseteq Waits(c, p)' \cup InLog(p)'
  <2> DEFINE d == Home[w]
             e == prepared[d]
  <2>1. d \in Device /\ e # None /\ InLogRecord(e) /\ outbox' = Acknowledged(d, e) /\ queued' = queued
    BY <1>6, <1>a, HomeAssumption, Zenon DEF CommitPreparedUpload, UploadInv, history
  <2>2. e \in Envelope /\ Current(d, e)
    BY <2>1, <1>a, <1>b, Zenon DEF CurrentInv
  <2> HIDE DEF d, e
  <2>3. e.obj \in Object
    BY <2>2, Zenon DEF Envelope
  <2>4. CASE ~InOutbox(d, e)
    <3>1. outbox' = outbox
      BY <2>1, <2>4, Zenon DEF Acknowledged
    <3> QED
      BY <1>4, <2>1, <3>1
  <2>5. CASE InOutbox(d, e)
    <3>1. outbox' = [outbox EXCEPT ![d][e.obj] = None]
      BY <2>1, <2>5, Zenon DEF Acknowledged
    <3>2. CASE c = d /\ p = e.obj
      <4>1. outbox[c][p] # None /\ outbox[c][p].payload = e.payload
        BY <2>2, <2>5, <3>2, Zenon DEF InOutbox, Current
      <4>2. e.payload \subseteq InLog(p)
        BY <2>1, <3>2, Zenon DEF InLogRecord, InLog
      <4>3. queued[c][p] \subseteq InLog(p)
        BY <1>1, <4>1, <4>2, Zenon DEF Waits
      <4> QED
        BY <1>2, <2>1, <4>3, Zenon
    <3>3. CASE c # d
      <4>1. outbox'[c] = outbox[c]
        BY <3>1, <3>3, <1>b, Zenon
      <4> QED
        BY <1>3, <2>1, <4>1
    <3>4. CASE c = d /\ p # e.obj
      <4>1. outbox'[c] = [outbox[c] EXCEPT ![e.obj] = None] /\ outbox[c] \in [Object -> Event \cup {None}]
        BY <3>1, <3>4, <1>b
      <4>2. outbox'[c][p] = outbox[c][p]
        BY <4>1, <3>4, Zenon
      <4> QED
        BY <1>3, <2>1, <4>2
    <3> QED
      BY <3>2, <3>3, <3>4
  <2> QED
    BY <2>4, <2>5
<1>7. ASSUME NEW d \in Device, NEW o \in Object, Mutate(d, o, TRUE), c = d, p = o
      PROVE  queued'[c][p] \subseteq Waits(c, p)' \cup InLog(p)'
  <2> DEFINE row == phrases[d][o] \cup {<<d, mutations[d] + 1>>}
  <2>1. /\ outbox' = [outbox EXCEPT ![d][o] = Enqueued(d, o, row)]
        /\ queued' = [queued EXCEPT ![d][o] = @ \cup row]
    BY <1>7, Zenon DEF Mutate
  <2>b. phrases' = [phrases EXCEPT ![d][o] = row]
    BY <1>7 DEF Mutate
  <2>2. phrases[d][o] \subseteq row
    BY Zenon
  <2> HIDE DEF row
  <2>3. queued'[d][o] = queued[d][o] \cup row /\ outbox'[d][o] = Enqueued(d, o, row)
    BY <2>1, <1>b, Zenon
  <2>4. Enqueued(d, o, row).payload = row
    BY DEF Enqueued
  <2>a. phrases'[d][o] = row
    BY <2>b, <1>b
  <2>c. row \in Phrase /\ lastEvent[d] \in Nat
    <3>1. phrases' \in [Device -> [Object -> Phrase]] /\ lastEvent[d] \in Nat
      BY NextType, <1>a, ZenonT(30) DEF TypeInv, TypeOK
    <3> QED
      BY <2>a, <3>1, Zenon
  <2>d. Enqueued(d, o, row) \in Event
    <3>1. CASE outbox[d][o] = None
      <4>1. lastEvent[d] + 1 \in Nat
        BY <2>c, SMTT(30)
      <4> QED
        BY <2>c, <3>1, <4>1 DEF Enqueued, Event
    <3>2. CASE outbox[d][o] # None
      <4>1. outbox[d][o] \in Event
        BY <3>2, <1>b, Zenon
      <4>2. outbox[d][o].id \in Nat /\ outbox[d][o].version + 1 \in Nat
        BY <4>1, SMTT(30) DEF Event
      <4> QED
        BY <2>c, <3>2, <4>2 DEF Enqueued, Event
    <3> QED
      BY <3>1, <3>2, Zenon
  <2>5. outbox'[d][o] # None
    BY <2>3, <2>d, NoneAssumption, Zenon
  <2>6. Waits(c, p)' = row
    BY <1>7, <2>3, <2>4, <2>5, Zenon DEF Waits
  <2>7. Waits(c, p) \subseteq row
    BY <1>7, <1>a, <2>2, Zenon DEF Waits, OutboxInv
  <2> QED
    BY <1>1, <1>2, <1>7, <2>3, <2>6, <2>7, ZenonT(30)
<1>8. ASSUME NEW d \in Device, NEW o \in Object, NEW q \in BOOLEAN, Mutate(d, o, q),
             ~(q = TRUE /\ c = d /\ p = o)
      PROVE  queued'[c][p] = queued[c][p] /\ outbox'[c][p] = outbox[c][p]
  <2>1. CASE q = FALSE
    BY <1>8, <2>1 DEF Mutate
  <2>2. CASE q = TRUE
    <3> DEFINE row == phrases[d][o] \cup {<<d, mutations[d] + 1>>}
    <3>1. /\ outbox' = [outbox EXCEPT ![d][o] = Enqueued(d, o, row)]
          /\ queued' = [queued EXCEPT ![d][o] = @ \cup row]
      BY <1>8, <2>2 DEF Mutate
    <3> HIDE DEF row
    <3>2. outbox'[c][p] = outbox[c][p]
      BY <3>1, <1>b, <1>8, <2>2, Zenon
    <3>3. queued'[c][p] = queued[c][p]
      BY <3>1, <1>b, <1>8, <2>2, Zenon
    <3> QED
      BY <3>2, <3>3, Zenon
  <2> QED
    BY <2>1, <2>2, Zenon
<1>9. CASE \E d \in Device, o \in Object, q \in BOOLEAN : Mutate(d, o, q)
  <2>1. PICK d \in Device, o \in Object, q \in BOOLEAN : Mutate(d, o, q)
    BY <1>9
  <2>2. CASE q = TRUE /\ c = d /\ p = o
    BY <2>1, <2>2, <1>7, Zenon
  <2>3. CASE ~(q = TRUE /\ c = d /\ p = o)
    BY <2>1, <2>3, <1>3, <1>8, Zenon
  <2> QED
    BY <2>2, <2>3, Zenon
<1>10. CASE \E w \in Worker : MergeStore(w)
  BY <1>4, <1>5, <1>10, Zenon
<1>11. CASE \E w \in Worker : CommitPreparedUpload(w)
  BY <1>6, <1>11
<1> QED
  BY <1>4, <1>9, <1>10, <1>11, RowMoves, ZenonT(30)

-----------------------------------------------------------------------------
(* Theorems. *)

\* DeliveryInv is kept by every step when no store has a sync-once process.
LEMMA DeliveryStep ==
    ASSUME DeliveryInv, OneShot = {}, Next
    PROVE  DeliveryInv'
<1>a. /\ ChainedInv /\ TypeInv /\ RequestsBehind /\ Alone /\ OutboxInv /\ CurrentInv
      /\ \A w \in Worker : PageInv(w)
  BY DEF DeliveryInv, ChainedInv, RetryInv, CursorInv
<1>1. ChainedInv'
  BY <1>a, ChainedStep
<1>2. OutboxInv' /\ CurrentInv'
  BY <1>a, OutboxStep, CurrentStep
<1>3. \A w \in Worker : PageInv(w)'
  BY <1>a, PageStep
<1>4. AuthorKnows' /\ NoSkippedPage' /\ NoLostMutation'
  BY AuthorStep, SkipStep, LostStep
<1> QED
  BY <1>1, <1>2, <1>3, <1>4 DEF DeliveryInv

\* DeliveryInv holds with empty stores and an empty log.
LEMMA InitDelivery == Init => DeliveryInv
<1> SUFFICES ASSUME Init PROVE DeliveryInv
  OBVIOUS
<1>1. DOMAIN log = {} /\ \A w \in Worker : pc[w] = "idle"
  BY SMTT(30) DEF Init
<1>2. \A d \in Device : prepared[d] = None /\ \A o \in Object : outbox[d][o] = None /\ queued[d][o] = {}
  BY DEF Init
<1>3. OutboxInv /\ CurrentInv /\ AuthorKnows
  BY <1>1, <1>2, Zenon DEF OutboxInv, CurrentInv, AuthorKnows
<1>4. \A w \in Worker : PageInv(w)
  BY <1>1, Zenon DEF PageInv, Answered
<1>5. NoSkippedPage /\ NoLostMutation
  BY <1>1, <1>2 DEF NoSkippedPage, NoLostMutation
<1> QED
  BY <1>3, <1>4, <1>5, InitChained DEF DeliveryInv

\* DeliveryInv speaks of nothing but the variables.
LEMMA StutterDelivery == DeliveryInv /\ UNCHANGED vars => DeliveryInv'
<1> SUFFICES ASSUME DeliveryInv, UNCHANGED vars PROVE DeliveryInv'
  OBVIOUS
<1>1. ChainedInv'
  BY StutterChained DEF DeliveryInv
<1>2. UNCHANGED <<phrases, outbox, lastEvent, cursor, nextSeq, prevHash, prepared, lock, pc, mem, log, queued>>
  BY Zenon DEF vars, store, process, relay, history
<1>3. OutboxInv' /\ AuthorKnows' /\ NoSkippedPage'
  BY <1>2 DEF DeliveryInv, OutboxInv, AuthorKnows, NoSkippedPage
<1>4. CurrentInv'
  BY <1>2, Zenon DEF DeliveryInv, CurrentInv, Current
<1>5. \A w \in Worker : PageInv(w)'
  <2> TAKE w \in Worker
  <2>1. PageInv(w)
    BY DEF DeliveryInv
  <2>2. Page(w)' <=> Page(w)
    BY <1>2, Zenon DEF Page
  <2>3. FirstTodo(w)' = FirstTodo(w)
    BY <1>2, Zenon DEF FirstTodo
  <2> QED
    BY <1>2, <2>1, <2>2, <2>3, Zenon DEF PageInv
<1>6. NoLostMutation'
  <2>1. NoLostMutation
    BY DEF DeliveryInv
  <2>2. \A o \in Object : InLog(o)' = InLog(o)
    BY <1>2, Zenon DEF InLog
  <2>3. \A d \in Device, o \in Object : Waits(d, o)' = Waits(d, o)
    BY <1>2 DEF Waits
  <2> QED
    BY <1>2, <2>1, <2>2, <2>3 DEF NoLostMutation
<1> QED
  BY <1>1, <1>3, <1>4, <1>5, <1>6 DEF DeliveryInv

\* A mutation that was enqueued (upsert) waits in the outbox until the relay
\* has it, and an acknowledgement (CommitPreparedUpload) never drops a newer
\* version of an event, when each store has one writer.
THEOREM NothingLost ==
    ASSUME OneShot = {}
    PROVE  Spec => []NoLostMutation
<1>1. DeliveryInv /\ [Next]_vars => DeliveryInv'
  BY DeliveryStep, StutterDelivery
<1>2. DeliveryInv => NoLostMutation
  BY DEF DeliveryInv
<1> QED
  BY InitDelivery, <1>1, <1>2, PTL DEF Spec

\* The cursor of a store (AdvanceSyncCursor) never passes a record that
\* MergeRemotePayload has not merged into it, when each store has one writer.
THEOREM NothingSkipped ==
    ASSUME OneShot = {}
    PROVE  Spec => []NoSkippedPage
<1>1. DeliveryInv /\ [Next]_vars => DeliveryInv'
  BY DeliveryStep, StutterDelivery
<1>2. DeliveryInv => NoSkippedPage
  BY DEF DeliveryInv
<1> QED
  BY InitDelivery, <1>1, <1>2, PTL DEF Spec

-----------------------------------------------------------------------------
\* The mutations in a row have happened.
KnownHappened ==
    \A e \in Device, p \in Object : \A c \in Device, n \in Nat :
        <<c, n>> \in phrases[e][p] => n <= mutations[c]

\* The inductive invariant behind the refinement.
ReplicatedInv == DeliveryInv /\ KnownHappened

\* What the log says of every phrase: the variable shared of ReplicatedPhrases.
Shared == [o \in Object |-> InLog(o)]

\* A local mutation is one that no row has yet.
LEMMA MutateReplicated ==
    ASSUME ReplicatedInv, NEW d \in Device, NEW o \in Object, NEW q \in BOOLEAN, Mutate(d, o, q)
    PROVE  Replicated!Next
<1> DEFINE m == <<d, mutations[d] + 1>>
<1>1. TypeOK
  BY DEF ReplicatedInv, DeliveryInv, ChainedInv, RetryInv, CursorInv, TypeInv
<1>2. mutations[d] \in Nat /\ mutations[d] < MaxMutations[d] /\ MaxMutations[d] \in Nat
  BY <1>1, BoundAssumption, ZenonT(30) DEF TypeOK, Mutate
<1>3. mutations[d] + 1 \in 1 .. MaxMutations[d]
  BY <1>2
<1>4. m \in Mutation
  BY <1>3, SMTT(30) DEF Mutation
<1>5. \A e \in Device, p \in Object : m \notin phrases[e][p]
  BY <1>2, SMTT(30) DEF ReplicatedInv, KnownHappened
<1>6. phrases' = [phrases EXCEPT ![d][o] = @ \cup {m}]
  BY Zenon DEF Mutate
<1>7. log' = log
  BY Zenon DEF Mutate, relay
<1>8. Shared' = Shared
  BY <1>7 DEF Shared, InLog
<1> HIDE DEF m
<1>9. Replicated!Mutate(d, o, m)
  BY <1>5, <1>6, <1>8 DEF Replicated!Mutate, Shared
<1> QED
  BY <1>4, <1>9, Zenon DEF Replicated!Next

\* A merge adds what some record says.
LEMMA MergeReplicated ==
    ASSUME ReplicatedInv, NEW w \in Worker, MergeStore(w)
    PROVE  Replicated!Next
<1> DEFINE f == FirstTodo(w)
           p == log[f].obj
           S == log[f].payload
<1>1. TypeInv /\ PageInv(w)
  BY Zenon DEF ReplicatedInv, DeliveryInv, ChainedInv, RetryInv, CursorInv
<1>2. /\ f \in DOMAIN log /\ p \in Object /\ Home[w] \in Device
      /\ phrases' = [phrases EXCEPT ![Home[w]][p] = phrases[Home[w]][p] \cup S]
  BY <1>1, MergeStoreRow
<1>3. S \subseteq InLog(p)
  BY <1>2 DEF InLog
<1>4. log' = log
  BY DEF MergeStore, relay
<1>5. Shared' = Shared
  BY <1>4 DEF Shared, InLog
<1> HIDE DEF f, p, S
<1>6. S \in SUBSET Shared[p]
  BY <1>2, <1>3 DEF Shared
<1>7. phrases' = [phrases EXCEPT ![Home[w]][p] = @ \cup S]
  BY <1>2, Zenon
<1>8. Replicated!Merge(Home[w], p)
  BY <1>5, <1>6, <1>7, Zenon DEF Replicated!Merge, Shared
<1> QED
  BY <1>2, <1>8 DEF Replicated!Next

\* The records of a log after an append.
LEMMA AppendRecords ==
    ASSUME NEW S, NEW s \in Seq(S), NEW e \in S, NEW t, t = Append(s, e)
    PROVE  /\ \A i \in DOMAIN s : i \in DOMAIN t /\ t[i] = s[i]
           /\ Len(s) + 1 \in DOMAIN t /\ t[Len(s) + 1] = e
           /\ \A i \in DOMAIN t : i \in DOMAIN s \/ i = Len(s) + 1
<1>1. Len(s) \in Nat /\ DOMAIN s = 1 .. Len(s) /\ DOMAIN t = 1 .. Len(s) + 1 /\ t[Len(s) + 1] = e
  OBVIOUS
<1>2. \A i \in 1 .. Len(s) : t[i] = s[i]
  OBVIOUS
<1>3. \A i \in DOMAIN s : i \in DOMAIN t /\ t[i] = s[i]
  BY <1>1, <1>2
<1>4. Len(s) + 1 \in DOMAIN t
  BY <1>1
<1>5. \A i \in DOMAIN t : i \in DOMAIN s \/ i = Len(s) + 1
  BY <1>1
<1> QED
  BY <1>1, <1>3, <1>4, <1>5

\* An upload publishes what its author knows, or nothing new.
LEMMA ServeReplicated ==
    ASSUME ReplicatedInv, NEW r, InFlight(r), log' = LogAfter(r), UNCHANGED store
    PROVE  Replicated!Next \/ UNCHANGED <<phrases, Shared>>
<1>a. /\ TypeOK /\ RequestsBehind /\ StagedNext /\ OneEnvelopePerSequence
      /\ ChainInv /\ LateInv /\ CurrentInv
      /\ \A w \in Worker : UploadInv(w)
  BY DEF ReplicatedInv, DeliveryInv, ChainedInv, RetryInv, CursorInv, TypeInv
<1>b. phrases' = phrases
  BY Zenon DEF store
<1>1. r.upload \in Envelope \cup {None} /\ (r.upload # None => Resent(r.upload))
  BY <1>a, InFlightType, InFlightResent, Zenon
<1>2. CASE log' = log
  BY <1>2, <1>b, Zenon DEF Shared, InLog
<1>3. CASE r.upload = None \/ InLogRecord(r.upload)
  BY <1>a, <1>1, <1>2, <1>3, ServedUpload DEF LogAfter
<1>4. CASE r.upload # None /\ ~InLogRecord(r.upload)
  <2> DEFINE e == r.upload
  <2>1. log' = Append(log, e) /\ e = prepared[e.dev] /\ e \in Envelope
    BY <1>a, <1>1, <1>4, ServedUpload, VerdictOnResent, ZenonT(30)
  <2> HIDE DEF e
  <2>2. e.dev \in Device /\ e.obj \in Object /\ e # None
    BY <2>1, NoneAssumption DEF Envelope
  <2>3. e.payload \in SUBSET phrases[e.dev][e.obj]
    BY <2>1, <2>2, <1>a, Zenon DEF CurrentInv, Current
  <2>4. /\ \A i \in DOMAIN log : i \in DOMAIN log' /\ log'[i] = log[i]
        /\ Len(log) + 1 \in DOMAIN log' /\ log'[Len(log) + 1] = e
        /\ \A i \in DOMAIN log' : i \in DOMAIN log \/ i = Len(log) + 1
    <3>1. log \in Seq(Envelope)
      BY <1>a, LogType, Zenon
    <3> QED
      BY <2>1, <3>1, AppendRecords
  <2>5. ASSUME NEW o \in Object
        PROVE  InLog(o)' = IF o = e.obj THEN InLog(o) \cup e.payload ELSE InLog(o)
    <3>1. \A x : x \in InLog(o) <=> \E i \in DOMAIN log : log[i].obj = o /\ x \in log[i].payload
      BY Zenon DEF InLog
    <3>2. \A x : x \in InLog(o)' <=> \E i \in DOMAIN log' : log'[i].obj = o /\ x \in log'[i].payload
      BY Zenon DEF InLog
    <3>3. \A x : x \in InLog(o)' <=> (x \in InLog(o) \/ (o = e.obj /\ x \in e.payload))
      <4> TAKE x
      <4>1. x \in InLog(o)' => x \in InLog(o) \/ (o = e.obj /\ x \in e.payload)
        BY <2>4, <3>1, <3>2, SMTT(30)
      <4>2. x \in InLog(o) => x \in InLog(o)'
        BY <2>4, <3>1, <3>2, Zenon
      <4>3. o = e.obj /\ x \in e.payload => x \in InLog(o)'
        BY <2>4, <3>2, Zenon
      <4> QED
        BY <4>1, <4>2, <4>3, Zenon
    <3> QED
      BY <3>3
  <2>6. Shared' = [Shared EXCEPT ![e.obj] = @ \cup e.payload]
    BY <2>2, <2>5, Zenon DEF Shared
  <2>7. Replicated!Publish(e.dev, e.obj)
    BY <1>b, <2>3, <2>6, Zenon DEF Replicated!Publish, Shared
  <2> QED
    BY <2>2, <2>7, Zenon DEF Replicated!Next
<1> QED
  BY <1>3, <1>4, Zenon

\* Rows only get mutations that have happened.
LEMMA KnownStep ==
    ASSUME ReplicatedInv, Next
    PROVE  KnownHappened'
<1>a. TypeInv /\ TypeOK /\ AuthorKnows /\ KnownHappened /\ \A w \in Worker : PageInv(w)
  BY Zenon DEF ReplicatedInv, DeliveryInv, ChainedInv, RetryInv, CursorInv, TypeInv
<1>b. phrases \in [Device -> [Object -> Phrase]] /\ mutations \in [Device -> Nat]
  BY <1>a DEF TypeOK
<1>c. UNCHANGED mutations \/ \E d \in Device, o \in Object, q \in BOOLEAN : Mutate(d, o, q)
  <2>1. ASSUME NEW w \in Worker, Step(w) PROVE UNCHANGED mutations
    BY <2>1, Zenon
    DEF Step, Acquire, Load, Seal, SavePreparedUpload, StageRefused, Reload, ServeSync, ReceiveReply,
       ReceiveRejection, ReceiveUndecodable, MergeLoad, MergeStore, CommitPreparedUpload,
       CommitRefused,
       AdvanceSyncCursor, AdvanceRefused, history
  <2>2. ASSUME NEW w \in Worker, Fail(w) \/ Crash(w) PROVE UNCHANGED mutations
    BY <2>2 DEF Fail, Crash
  <2>3. ASSUME NEW r \in late, ServeLate(r) PROVE UNCHANGED mutations
    BY <2>3 DEF ServeLate, history
  <2> QED
    BY <2>1, <2>2, <2>3 DEF Next
<1> SUFFICES ASSUME NEW e \in Device, NEW p \in Object, NEW c \in Device, NEW n \in Nat,
                    <<c, n>> \in phrases'[e][p]
             PROVE  n <= mutations'[c]
  BY Zenon DEF KnownHappened
<1>1. ASSUME NEW d \in Device, NEW o \in Object, NEW q \in BOOLEAN, Mutate(d, o, q) PROVE n <= mutations'[c]
  <2>1. /\ phrases' = [phrases EXCEPT ![d][o] = phrases[d][o] \cup {<<d, mutations[d] + 1>>}]
        /\ mutations' = [mutations EXCEPT ![d] = mutations[d] + 1]
    BY <1>1, Zenon DEF Mutate
  <2>2. mutations[c] \in Nat /\ mutations'[c] >= mutations[c] /\ mutations'[d] = mutations[d] + 1
        /\ mutations'[c] \in Nat
    BY <1>b, <2>1, SMTT(30)
  <2>3. <<c, n>> \in phrases[e][p] \/ <<c, n>> = <<d, mutations[d] + 1>>
    BY <1>b, <2>1, Zenon
  <2>4. CASE <<c, n>> \in phrases[e][p]
    <3>1. n <= mutations[c]
      BY <1>a, <2>4, Zenon DEF KnownHappened
    <3> QED
      BY <2>2, <3>1, SMTT(30)
  <2>5. CASE <<c, n>> = <<d, mutations[d] + 1>>
    BY <2>2, <2>5, SMTT(30)
  <2> QED
    BY <2>3, <2>4, <2>5, Zenon
<1>2. CASE UNCHANGED <<phrases, mutations>>
  BY <1>2, <1>a, Zenon DEF KnownHappened
<1>3. ASSUME NEW w \in Worker, MergeStore(w) PROVE n <= mutations'[c]
  <2> DEFINE f == FirstTodo(w)
             b == log[f].obj
  <2>1. /\ f \in DOMAIN log /\ b \in Object /\ Home[w] \in Device
        /\ phrases' = [phrases EXCEPT ![Home[w]][b] = phrases[Home[w]][b] \cup log[f].payload]
        /\ mutations' = mutations
    BY <1>3, <1>a, MergeStoreRow, ZenonT(30) DEF MergeStore, history
  <2>2. log[f].dev \in Device /\ log[f].payload \subseteq phrases[log[f].dev][b]
    <3>1. log[f] \in Envelope
      BY <1>a, <2>1, LogType, Zenon
    <3> QED
      BY <1>a, <2>1, <3>1 DEF AuthorKnows, Envelope
  <2>3. <<c, n>> \in phrases[e][p] \/ <<c, n>> \in log[f].payload
    <3> HIDE DEF f, b
    <3> QED
      BY <1>b, <2>1, Zenon
  <2> QED
    BY <1>a, <2>1, <2>2, <2>3, Zenon DEF KnownHappened
<1>4. ASSUME NEW w \in Worker, CommitPreparedUpload(w) PROVE UNCHANGED <<phrases, mutations>>
  BY <1>4 DEF CommitPreparedUpload, history
<1> QED
  BY <1>1, <1>2, <1>3, <1>4, <1>c, RowMoves

\* Every step is a step of ReplicatedPhrases or changes nothing it speaks of.
LEMMA StepReplicated ==
    ASSUME ReplicatedInv, Next
    PROVE  Replicated!Next \/ UNCHANGED <<phrases, Shared>>
<1>a. TypeOK
  BY DEF ReplicatedInv, DeliveryInv, ChainedInv, RetryInv, CursorInv, TypeInv
<1>1. CASE \E d \in Device, o \in Object, q \in BOOLEAN : Mutate(d, o, q)
  BY <1>1, MutateReplicated
<1>2. CASE \E w \in Worker : MergeStore(w)
  BY <1>2, MergeReplicated
<1>3. CASE \E r : InFlight(r) /\ log' = LogAfter(r) /\ UNCHANGED store
  BY <1>3, ServeReplicated
<1>4. UNCHANGED log => UNCHANGED Shared
  BY Zenon DEF Shared, InLog
<1>5. ASSUME NEW w \in Worker, SavePreparedUpload(w) \/ CommitPreparedUpload(w) PROVE UNCHANGED <<phrases, log>>
  BY <1>5 DEF SavePreparedUpload, CommitPreparedUpload, relay
<1>6. CASE UNCHANGED <<log, nextSeq, prevHash, prepared>>
  <2>1. CASE UNCHANGED phrases
    BY <1>4, <1>6, <2>1
  <2>2. CASE \E w \in Worker : CommitPreparedUpload(w)
    BY <1>4, <1>5, <2>2
  <2> QED
    BY <1>1, <1>2, <2>1, <2>2, RowMoves
<1> QED
  BY <1>a, <1>3, <1>4, <1>5, <1>6, ChainMoves

\* Empty stores and an empty log are where ReplicatedPhrases starts.
LEMMA InitReplicated == Init => ReplicatedInv /\ Replicated!Init
<1> SUFFICES ASSUME Init PROVE ReplicatedInv /\ Replicated!Init
  BY Zenon
<1>1. log = <<>> /\ phrases = [d \in Device |-> [o \in Object |-> {}]]
  BY DEF Init
<1>2. KnownHappened
  BY <1>1 DEF KnownHappened
<1>3. \A o \in Object : InLog(o) = {}
  BY <1>1 DEF InLog
<1>4. Shared = [o \in Object |-> {}]
  BY <1>3 DEF Shared
<1>5. Replicated!Init
  BY <1>1, <1>4 DEF Replicated!Init, Shared
<1> QED
  BY <1>2, <1>5, InitDelivery DEF ReplicatedInv

\* With one writer per store, the stores, the workers and the relay implement
\* ReplicatedPhrases: rows change by fresh local mutations and by merging what
\* was published, and a device publishes only what its own row has.
THEOREM SyncImplementsReplicated ==
    ASSUME OneShot = {}
    PROVE  Spec => ImplementsReplicated
<1>1. ReplicatedInv /\ [Next]_vars => ReplicatedInv'
  <2>1. ReplicatedInv /\ Next => ReplicatedInv'
    BY DeliveryStep, KnownStep DEF ReplicatedInv
  <2>2. ReplicatedInv /\ UNCHANGED vars => ReplicatedInv'
    <3> SUFFICES ASSUME ReplicatedInv, UNCHANGED vars PROVE ReplicatedInv'
      BY Zenon
    <3>1. KnownHappened'
      BY DEF ReplicatedInv, KnownHappened, vars, store, history
    <3> QED
      BY <3>1, StutterDelivery DEF ReplicatedInv
  <2> QED
    BY <2>1, <2>2
<1>2. ReplicatedInv /\ [Next]_vars => [Replicated!Next]_<<phrases, Shared>>
  <2>1. UNCHANGED vars => UNCHANGED <<phrases, Shared>>
    BY DEF vars, store, relay, Shared, InLog
  <2> QED
    BY <2>1, StepReplicated, Zenon
<1>3. Init => ReplicatedInv /\ Replicated!Init
  BY InitReplicated
<1> QED
  BY <1>1, <1>2, <1>3, PTL DEF Spec, ImplementsReplicated, Replicated!Spec, Shared
=============================================================================
