-------------------------- MODULE SyncSystemProofs --------------------------
(***************************************************************************)
(* Theorems about SyncSystem that hold for every set of devices, objects   *)
(* and workers, with or without the process lock: the types, what the      *)
(* cursors and the log may never do, and that only verified records are    *)
(* merged.  One lemma per action shows that it keeps the types; CursorInv, *)
(* which bounds the cursor of every request on its way by the stored one,  *)
(* carries the theorems about cursors, and VerifiedInv, which says what a  *)
(* worker holds between verification and merge, the last one.              *)
(***************************************************************************)
EXTENDS SyncSystem, TLAPS, WellFoundedInduction, NaturalsInduction

\* The places a worker can be in its round.
Label == {"idle", "loaded", "sealed", "staged", "sent", "replied",
          "merging", "store", "committed"}

\* The local variables of a worker are typed and point into the log.
Fits(m) ==
    /\ m \in Local
    /\ m.cursor <= Len(log)
    /\ m.next <= Len(log)
    /\ m.todo \subseteq DOMAIN log

\* The log is a sequence of envelopes.
LEMMA LogType ==
    ASSUME TypeOK
    PROVE  /\ log \in Seq(Envelope)
           /\ Len(log) \in Nat
           /\ DOMAIN log = 1 .. Len(log)
           /\ \A i \in DOMAIN log : log[i] \in Envelope
  BY DEF TypeOK

\* The local variables of a worker between rounds.
LEMMA IdleFits ==
    ASSUME TypeOK
    PROVE  Fits(Idle)
<1>1. Idle \in Local
  BY DEF Idle, Local, Phrase
<1> QED
  BY <1>1, LogType DEF Fits, Idle

\* LoadSyncState reads a typed checkpoint.
LEMMA LoadFits ==
    ASSUME TypeOK, NEW w \in Worker
    PROVE  Fits(LoadSyncState(w))
<1> DEFINE d == Home[w]
<1>1. d \in Device
  BY HomeAssumption
<1>0. cursor[d] \in 0 .. Len(log)
  BY <1>1 DEF TypeOK
<1>2. cursor[d] \in Nat /\ cursor[d] <= Len(log)
  BY <1>0, LogType
<1>3. /\ nextSeq[d] \in Nat
      /\ prevHash[d] \in Hash \cup {NoHash}
      /\ prepared[d] \in Envelope \cup {None}
  BY <1>1 DEF TypeOK
<1>4. Idle \in Local /\ Idle.todo = {} /\ Idle.next = 0
  BY IdleFits DEF Fits, Idle
<1>5. LoadSyncState(w) = [Idle EXCEPT !.cursor = cursor[d], !.seq = nextSeq[d], !.prev = prevHash[d],
                                      !.upload = prepared[d]]
  BY DEF LoadSyncState
<1> HIDE DEF d
<1>6. LoadSyncState(w) \in Local
  BY <1>2, <1>3, <1>4, <1>5, Zenon DEF Local
<1>7. /\ LoadSyncState(w).cursor = cursor[d]
      /\ LoadSyncState(w).next = 0
      /\ LoadSyncState(w).todo = {}
  BY <1>4, <1>5 DEF Local
<1> QED
  BY <1>2, <1>6, <1>7, LogType DEF Fits

\* A step that leaves the store, the relay and the bounds alone.
LEMMA ProcessStep ==
    ASSUME TypeOK, NEW w \in Worker, NEW label \in Label, NEW m, Fits(m),
           Goto(w, label), mem' = [mem EXCEPT ![w] = m],
           UNCHANGED <<store, relay, history>>, lock' \in [Device -> Runner \cup {None}]
    PROVE  TypeOK'
<1>1. mem' \in [Worker -> Local]
  BY DEF TypeOK, Fits
<1>2. pc' \in [Worker -> Label]
  BY DEF TypeOK, Goto, Label
<1>3. \A v \in Worker : /\ mem'[v].cursor <= Len(log)
                        /\ mem'[v].next <= Len(log)
                        /\ mem'[v].todo \subseteq DOMAIN log
  BY DEF TypeOK, Fits
<1> QED
  BY <1>1, <1>2, <1>3 DEF TypeOK, Label, store, relay, history

\* A set of numbers that is not empty has a least one.
LEMMA MinExists ==
    ASSUME NEW S, S \subseteq Nat, S # {}
    PROVE  \E i \in S : \A j \in S : i <= j
<1> DEFINE R == OpToRel(<, Nat)
<1>1. IsWellFoundedOn(R, Nat)
  BY NatLessThanWellFounded, Zenon
<1> HIDE DEF R
<1>2. PICK i \in S : \A j \in S : ~(<<j, i>> \in R)
  BY <1>1, WFMin, Zenon
<1>3. \A j \in S : ~(j < i)
  BY <1>2, Zenon DEF R, OpToRel
<1> QED
  BY <1>3

\* The record that is merged next is a record of the log still to merge.
LEMMA FirstTodoIn ==
    ASSUME TypeOK, NEW w \in Worker, mem[w].todo # {}
    PROVE  /\ FirstTodo(w) \in mem[w].todo
           /\ FirstTodo(w) \in DOMAIN log
           /\ log[FirstTodo(w)] \in Envelope
<1>1. mem[w].todo \subseteq DOMAIN log
  BY DEF TypeOK
<1>2. mem[w].todo \subseteq Nat
  BY <1>1, LogType
<1>3. FirstTodo(w) \in mem[w].todo
  BY <1>2, MinExists DEF FirstTodo
<1> QED
  BY <1>1, <1>3, LogType

\* The steps that change only the local variables of a worker, and the lock.
LEMMA TypeSimple ==
    ASSUME TypeOK, NEW w \in Worker
    PROVE  /\ Acquire(w) => TypeOK'
           /\ Load(w) => TypeOK'
           /\ Reload(w) => TypeOK'
           /\ StageRefused(w) => TypeOK'
           /\ ReceiveReply(w) => TypeOK'
           /\ ReceiveRejection(w) => TypeOK'
           /\ ReceiveUndecodable(w) => TypeOK'
           /\ CommitRefused(w) => TypeOK'
           /\ AdvanceRefused(w) => TypeOK'
<1>a. lock \in [Device -> Runner \cup {None}]
  BY DEF TypeOK
<1>b. Fits(mem[w]) /\ mem = [mem EXCEPT ![w] = mem[w]]
  BY DEF TypeOK, Fits
<1>c. Fits(Idle)
  BY IdleFits
<1>d. ASSUME EndRound(w), UNCHANGED <<store, lock, relay, history>> PROVE TypeOK'
  BY <1>a, <1>c, <1>d, ProcessStep, Zenon DEF EndRound, Label
<1>1. Acquire(w) => TypeOK'
  BY HomeAssumption, SMTT(30) DEF TypeOK, Acquire, store, relay, history, Worker
<1>2. Load(w) => TypeOK'
  BY <1>a, LoadFits, ProcessStep, ZenonT(30) DEF Load, Label
<1>3. Reload(w) => TypeOK'
  BY <1>a, LoadFits, ProcessStep, Zenon DEF Reload, Label
<1>4. ReceiveReply(w) => TypeOK'
  BY <1>a, <1>b, ProcessStep DEF ReceiveReply, Label
<1> QED
  BY <1>d, <1>1, <1>2, <1>3, <1>4
  DEF StageRefused, ReceiveRejection, ReceiveUndecodable, CommitRefused, AdvanceRefused

\* prepare seals a typed envelope.
LEMMA SealType ==
    ASSUME TypeOK, NEW w \in Worker, Seal(w)
    PROVE  TypeOK'
<1> DEFINE d == Home[w]
<1>a. lock \in [Device -> Runner \cup {None}]
  BY DEF TypeOK
<1>b. Fits(mem[w]) /\ mem = [mem EXCEPT ![w] = mem[w]]
  BY DEF TypeOK, Fits
<1>c. d \in Device
  BY HomeAssumption
<1>1. CASE FirstPending(d) = {} /\ Goto(w, "sent") /\ UNCHANGED mem
  BY <1>1, <1>a, <1>b, ProcessStep DEF Seal, Label
<1>2. ASSUME NEW o \in FirstPending(d),
             mem' = [mem EXCEPT ![w].upload = SealEnvelope(w, o)], Goto(w, "sealed")
      PROVE  TypeOK'
  <2> DEFINE e == SealEnvelope(w, o)
             m == [mem[w] EXCEPT !.upload = e]
  <2>1. o \in Object /\ outbox[d][o] \in Event
    BY <1>c DEF FirstPending, TypeOK
  <2>2. /\ outbox[d][o].payload \in Phrase
        /\ outbox[d][o].id \in Nat
        /\ outbox[d][o].version \in Nat
    BY <2>1 DEF Event
  <2>3. mem[w].seq \in Nat /\ mem[w].prev \in Hash \cup {NoHash}
    BY <1>b DEF Fits, Local
  <2>4. e.hash \in Hash
    BY <2>2, <2>3 DEF SealEnvelope, Hash
  <2>5. e \in Envelope
    BY <2>1, <2>2, <2>3, <2>4, <1>c DEF SealEnvelope, Envelope
  <2> HIDE DEF e
  <2>6. Fits(m)
    BY <2>5, <1>b DEF Fits, Local
  <2>7. mem' = [mem EXCEPT ![w] = m]
    BY <1>2 DEF e
  <2> QED
    BY <1>2, <1>a, <2>6, <2>7, ProcessStep, Zenon DEF Seal, Label
<1> QED
  BY <1>1, <1>2 DEF Seal

\* An upload leaves the log alone or appends the envelope.
LEMMA UploadGrows ==
    ASSUME NEW lg \in Seq(Envelope), NEW e \in Envelope
    PROVE  /\ Upload(lg, e) = lg \/ Upload(lg, e) = Append(lg, e)
           /\ Upload(lg, e) \in Seq(Envelope)
           /\ Len(lg) <= Len(Upload(lg, e))
           /\ DOMAIN lg \subseteq DOMAIN Upload(lg, e)
           /\ \A i \in DOMAIN lg : Upload(lg, e)[i] = lg[i]
<1>1. CASE Verdict(lg, e) = "append"
  <2>1. Upload(lg, e) = Append(lg, e)
    BY <1>1 DEF Upload
  <2> QED
    BY <2>1
<1>2. CASE Verdict(lg, e) # "append"
  BY <1>2 DEF Upload
<1> QED
  BY <1>1, <1>2

\* The page of syncEnvelopes: it starts after the cursor, ends inside the log
\* and leaves out no record in between.
LEMMA PageLemma ==
    ASSUME NEW lg \in Seq(Envelope), NEW c \in Nat, c <= Len(lg),
           NEW end \in PageEnds(lg, Account, c, PageLimit)
    PROVE  /\ end \in Nat /\ c <= end /\ end <= Len(lg)
           /\ PageRecords(lg, Account, c, end) \subseteq DOMAIN lg
           /\ \A i \in DOMAIN lg : c < i /\ i <= end => i \in PageRecords(lg, Account, c, end)
<1>a. \A i \in DOMAIN lg : lg[i] \in Envelope
  OBVIOUS
<1>b. \A e \in Envelope : e.acct = Account
  BY DEF Envelope
<1>1. \A i \in DOMAIN lg : lg[i].acct = Account
  BY <1>a, <1>b
<1>2. Waiting(lg, Account, c) = {i \in DOMAIN lg : i > c}
  BY <1>1 DEF Waiting, AccountRecords
<1>3. end \in Waiting(lg, Account, c) \/ end = c
  BY DEF PageEnds
<1> QED
  BY <1>2, <1>3 DEF PageRecords

\* A served request leaves the records that are in the log where they are.
LEMMA LogAfterGrows ==
    ASSUME TypeOK, NEW r, r.upload \in Envelope \cup {None}
    PROVE  /\ LogAfter(r) \in Seq(Envelope)
           /\ Len(log) <= Len(LogAfter(r))
           /\ DOMAIN log \subseteq DOMAIN LogAfter(r)
           /\ \A i \in DOMAIN log : LogAfter(r)[i] = log[i]
<1>1. log \in Seq(Envelope)
  BY LogType
<1>2. CASE r.upload = None
  BY <1>1, <1>2 DEF LogAfter
<1>3. CASE r.upload # None
  <2>1. LogAfter(r) = Upload(log, r.upload) /\ r.upload \in Envelope
    BY <1>3 DEF LogAfter
  <2> QED
    BY <1>1, <2>1, UploadGrows, ZenonT(30)
<1> QED
  BY <1>2, <1>3

\* What serving a request does to the relay keeps the types.
LEMMA RelayStep ==
    ASSUME TypeOK, NEW r, r.upload \in Envelope \cup {None}, r.dev \in Device, r.cursor \in Nat,
           log' = LogAfter(r), ack' = AckAfter(r), UNCHANGED <<store, history>>
    PROVE  /\ log' \in Seq(Envelope)
           /\ Len(log) <= Len(log')
           /\ DOMAIN log \subseteq DOMAIN log'
           /\ ack' \in [Device -> Nat]
           /\ cursor' \in [Device -> 0 .. Len(log')]
<1>1. /\ log' \in Seq(Envelope)
      /\ Len(log) <= Len(log')
      /\ DOMAIN log \subseteq DOMAIN log'
  BY LogAfterGrows
<1>2. ack' \in [Device -> Nat]
  BY DEF AckAfter, TypeOK
<1>3. cursor \in [Device -> 0 .. Len(log)] /\ cursor' = cursor
  BY DEF TypeOK, store
<1>4. \A n \in 0 .. Len(log) : n \in 0 .. Len(log')
  BY <1>1, LogType
<1>5. cursor' \in [Device -> 0 .. Len(log')]
  BY <1>3, <1>4
<1> QED
  BY <1>1, <1>2, <1>5

\* The request of a worker carries its checkpoint and its upload.
LEMMA RequestType ==
    ASSUME TypeOK, NEW w \in Worker
    PROVE  /\ Request(w).dev = Home[w] /\ Home[w] \in Device
           /\ Request(w).cursor = mem[w].cursor /\ mem[w].cursor \in Nat
           /\ Request(w).upload = mem[w].upload /\ mem[w].upload \in Envelope \cup {None}
<1>1. mem[w] \in Local
  BY Zenon DEF TypeOK
<1> QED
  BY <1>1, HomeAssumption DEF Request, Local

\* The relay answers with a page inside the log.
LEMMA ServeSyncType ==
    ASSUME TypeOK, NEW w \in Worker, ServeSync(w)
    PROVE  TypeOK'
<1> DEFINE r == Request(w)
<1>1. /\ r.dev \in Device /\ r.cursor = mem[w].cursor /\ r.cursor \in Nat
      /\ r.upload \in Envelope \cup {None}
  BY RequestType
<1>2. /\ log' = LogAfter(r) /\ ack' = AckAfter(r)
      /\ UNCHANGED <<store, lock, late, history>> /\ Goto(w, "replied")
  BY DEF ServeSync
<1>3. PICK end \in PageEnds(LogAfter(r), Account, r.cursor, PageLimit) :
        mem' = [mem EXCEPT
                  ![w].accepted = r.upload = None \/ Accepted(Verdict(log, r.upload)),
                  ![w].todo = PageRecords(LogAfter(r), Account, r.cursor, end),
                  ![w].next = nextCursor(LogAfter(r), Account, end)]
  BY Zenon DEF ServeSync
<1> DEFINE todo == PageRecords(LogAfter(r), Account, r.cursor, end)
           ok == r.upload = None \/ Accepted(Verdict(log, r.upload))
           m == [mem[w] EXCEPT !.accepted = ok, !.todo = todo, !.next = end]
<1> HIDE DEF r
<1>4. /\ log' \in Seq(Envelope)
      /\ Len(log) <= Len(log')
      /\ DOMAIN log \subseteq DOMAIN log'
      /\ ack' \in [Device -> Nat]
      /\ cursor' \in [Device -> 0 .. Len(log')]
  BY <1>1, <1>2, RelayStep, Zenon
<1>5. Fits(mem[w])
  BY DEF TypeOK, Fits
<1>6. /\ end \in Nat /\ end <= Len(log')
      /\ todo \subseteq DOMAIN log'
  <2>1. r.cursor <= Len(log')
    BY <1>1, <1>4, <1>5, LogType DEF Fits
  <2> QED
    BY <1>1, <1>2, <1>3, <1>4, <2>1, PageLemma
<1>7. todo \in SUBSET Nat
  BY <1>4, <1>6
<1>8. ok \in BOOLEAN
  BY DEF Accepted
<1>9. mem' = [mem EXCEPT ![w] = m]
  BY <1>3, Zenon DEF nextCursor
<1> HIDE DEF todo, ok
<1>10. m \in Local
  BY <1>5, <1>6, <1>7, <1>8, Zenon DEF Local, Fits
<1>11. m.cursor = mem[w].cursor /\ m.next = end /\ m.todo = todo
  BY <1>5, Zenon DEF Fits, Local
<1> HIDE DEF m
<1>12. mem' \in [Worker -> Local]
  BY <1>9, <1>10 DEF TypeOK
<1>13. \A v \in Worker : /\ mem'[v].cursor <= Len(log')
                         /\ mem'[v].next <= Len(log')
                         /\ mem'[v].todo \subseteq DOMAIN log'
  <2> TAKE v \in Worker
  <2>1. CASE v = w
    <3>1. mem'[w] = m
      BY <1>9 DEF TypeOK
    <3>2. mem[w].cursor <= Len(log')
      BY <1>4, <1>5, LogType DEF Fits, Local
    <3> QED
      BY <2>1, <3>1, <3>2, <1>6, <1>11
  <2>2. CASE v # w
    <3>1. mem'[v] = mem[v] /\ mem[v] \in Local
      BY <1>9, <2>2 DEF TypeOK
    <3>2. /\ mem[v].cursor <= Len(log) /\ mem[v].next <= Len(log)
          /\ mem[v].todo \subseteq DOMAIN log
      BY DEF TypeOK
    <3>3. mem[v].cursor \in Nat /\ mem[v].next \in Nat
      BY <3>1 DEF Local
    <3> QED
      BY <3>1, <3>2, <3>3, <1>4, LogType
  <2> QED
    BY <2>1, <2>2
<1>14. pc' \in [Worker -> Label]
  BY <1>2, Zenon DEF TypeOK, Goto, Label
<1> QED
  BY <1>2, <1>4, <1>12, <1>13, <1>14 DEF TypeOK, Label, store, history

\* The relay serves an abandoned request.
LEMMA ServeLateType ==
    ASSUME TypeOK, NEW r, ServeLate(r)
    PROVE  TypeOK'
<1>1. r.dev \in Device /\ r.cursor \in Nat /\ r.upload \in Envelope \cup {None}
  BY Zenon DEF ServeLate, TypeOK
<1>2. /\ log' = LogAfter(r) /\ ack' = AckAfter(r) /\ late' = late \ {r}
      /\ UNCHANGED <<store, process, history>>
  BY DEF ServeLate
<1>3. /\ log' \in Seq(Envelope)
      /\ Len(log) <= Len(log')
      /\ DOMAIN log \subseteq DOMAIN log'
      /\ ack' \in [Device -> Nat]
      /\ cursor' \in [Device -> 0 .. Len(log')]
  BY <1>1, <1>2, RelayStep
<1>4. \A v \in Worker : /\ mem'[v].cursor <= Len(log')
                        /\ mem'[v].next <= Len(log')
                        /\ mem'[v].todo \subseteq DOMAIN log'
  <2> TAKE v \in Worker
  <2>1. mem' = mem /\ mem[v] \in Local
    BY <1>2, Zenon DEF process, TypeOK
  <2>2. /\ mem[v].cursor <= Len(log) /\ mem[v].next <= Len(log)
        /\ mem[v].todo \subseteq DOMAIN log
    BY DEF TypeOK
  <2>3. mem[v].cursor \in Nat /\ mem[v].next \in Nat
    BY <2>1, Zenon DEF Local
  <2> QED
    BY <2>1, <2>2, <2>3, <1>3, LogType
<1> QED
  BY <1>2, <1>3, <1>4 DEF TypeOK, store, process, history

\* MergeRemotePayload reads the row.
LEMMA MergeLoadType ==
    ASSUME TypeOK, NEW w \in Worker, MergeLoad(w)
    PROVE  TypeOK'
<1> DEFINE p == phrases[Home[w]][log[FirstTodo(w)].obj]
           m == [mem[w] EXCEPT !.row = p]
<1>1. log[FirstTodo(w)] \in Envelope
  BY FirstTodoIn DEF MergeLoad
<1>2. log[FirstTodo(w)].obj \in Object
  BY <1>1, Zenon DEF Envelope
<1>3. p \in Phrase
  BY <1>2, HomeAssumption DEF TypeOK
<1>4. mem' = [mem EXCEPT ![w] = m]
  BY DEF MergeLoad
<1> HIDE DEF p
<1>5. Fits(mem[w])
  BY DEF TypeOK, Fits
<1>6. Fits(m)
  BY <1>3, <1>5 DEF Fits, Local
<1>7. lock \in [Device -> Runner \cup {None}]
  BY Zenon DEF TypeOK
<1> QED
  BY <1>4, <1>6, <1>7, ProcessStep, Zenon DEF MergeLoad, Label

\* MergeRemotePayload writes the merged row.
LEMMA MergeStoreType ==
    ASSUME TypeOK, NEW w \in Worker, MergeStore(w), mem[w].todo # {}
    PROVE  TypeOK'
<1> DEFINE f == FirstTodo(w)
           m == [mem[w] EXCEPT !.todo = @ \ {f}, !.row = {}]
<1>1. log[f] \in Envelope
  BY FirstTodoIn
<1>2. log[f].obj \in Object /\ log[f].payload \in Phrase
  BY <1>1 DEF Envelope
<1>3. Fits(mem[w])
  BY DEF TypeOK, Fits
<1>4. mem[w].row \in Phrase
  BY <1>3 DEF Fits, Local
<1>5. MergedRow(w) \in Phrase
  BY <1>2, <1>4 DEF MergedRow, Phrase
<1>6. phrases' \in [Device -> [Object -> Phrase]]
  BY <1>2, <1>5, HomeAssumption, Zenon DEF MergeStore, TypeOK
<1>7. mem' = [mem EXCEPT ![w] = m]
  BY Zenon DEF MergeStore
<1>8. {} \in Phrase
  BY DEF Phrase
<1> HIDE DEF f
<1>9. Fits(m)
  BY <1>3, <1>8, Zenon DEF Fits, Local
<1> HIDE DEF m
<1>10. mem' \in [Worker -> Local]
  BY <1>7, <1>9, Zenon DEF TypeOK, Fits
<1>11. \A v \in Worker : /\ mem'[v].cursor <= Len(log)
                         /\ mem'[v].next <= Len(log)
                         /\ mem'[v].todo \subseteq DOMAIN log
  BY <1>7, <1>9 DEF TypeOK, Fits
<1>12. pc' \in [Worker -> Label]
  BY Zenon DEF MergeStore, TypeOK, Goto, Label
<1> QED
  BY <1>6, <1>10, <1>11, <1>12, Zenon DEF MergeStore, TypeOK, Label, relay, history

\* The round ends and the memory of the worker is reset.
LEMMA EndRoundType ==
    ASSUME TypeOK, NEW w \in Worker, EndRound(w), log' = log
    PROVE  /\ pc' \in [Worker -> Label]
           /\ mem' \in [Worker -> Local]
           /\ \A v \in Worker : /\ mem'[v].cursor <= Len(log')
                                /\ mem'[v].next <= Len(log')
                                /\ mem'[v].todo \subseteq DOMAIN log'
<1>1. Fits(Idle)
  BY IdleFits
<1>2. pc' \in [Worker -> Label]
  BY DEF EndRound, Goto, TypeOK, Label
<1>3. mem' \in [Worker -> Local]
  BY <1>1 DEF EndRound, TypeOK, Fits
<1> QED
  BY <1>1, <1>2, <1>3 DEF EndRound, TypeOK, Fits

\* The steps of a round that write the checkpoint.
LEMMA StoreStepTypes ==
    ASSUME TypeOK, NEW w \in Worker
    PROVE  /\ SavePreparedUpload(w) => TypeOK'
           /\ CommitPreparedUpload(w) => TypeOK'
           /\ AdvanceSyncCursor(w) => TypeOK'
<1> DEFINE d == Home[w]
<1>a. d \in Device
  BY HomeAssumption
<1>b. mem[w] \in Local
  BY Zenon DEF TypeOK
<1>1. ASSUME SavePreparedUpload(w) PROVE TypeOK'
  <2>1. mem[w].upload \in Envelope \cup {None}
    BY <1>b DEF Local
  <2>2. prepared' \in [Device -> Envelope \cup {None}]
    BY <1>1, <1>a, <2>1, Zenon DEF SavePreparedUpload, TypeOK
  <2>3. pc' \in [Worker -> Label]
    BY <1>1, Zenon DEF SavePreparedUpload, TypeOK, Goto, Label
  <2> QED
    BY <1>1, <2>2, <2>3, Zenon DEF SavePreparedUpload, TypeOK, Label, relay, history
<1>2. ASSUME CommitPreparedUpload(w) PROVE TypeOK'
  <2> DEFINE e == prepared[d]
  <2>1. e \in Envelope
    BY <1>2, <1>a DEF CommitPreparedUpload, TypeOK
  <2>2. e.seq \in Nat /\ e.hash \in Hash /\ e.obj \in Object
    BY <2>1, Zenon DEF Envelope
  <2>3. /\ outbox' = Acknowledged(d, e)
        /\ nextSeq' = [nextSeq EXCEPT ![d] = e.seq + 1]
        /\ prevHash' = [prevHash EXCEPT ![d] = e.hash]
        /\ prepared' = [prepared EXCEPT ![d] = None]
        /\ Goto(w, "committed")
        /\ UNCHANGED <<phrases, lastEvent, cursor, lock, mem, relay, history>>
    BY <1>2, Zenon DEF CommitPreparedUpload
  <2> HIDE DEF e
  <2>t. /\ outbox \in [Device -> [Object -> Event \cup {None}]]
        /\ nextSeq \in [Device -> Nat]
        /\ prevHash \in [Device -> Hash \cup {NoHash}]
        /\ prepared \in [Device -> Envelope \cup {None}]
    BY DEF TypeOK
  <2>4. outbox' \in [Device -> [Object -> Event \cup {None}]]
    BY <1>a, <2>t, <2>2, <2>3 DEF Acknowledged
  <2>5. nextSeq' \in [Device -> Nat]
    BY <1>a, <2>t, <2>2, <2>3
  <2>6. prevHash' \in [Device -> Hash \cup {NoHash}]
    BY <1>a, <2>t, <2>2, <2>3
  <2>7. prepared' \in [Device -> Envelope \cup {None}]
    BY <1>a, <2>t, <2>3, Zenon
  <2>8. pc' \in [Worker -> Label]
    BY <2>3 DEF TypeOK, Goto, Label
  <2> QED
    BY <2>3, <2>4, <2>5, <2>6, <2>7, <2>8, ZenonT(30) DEF TypeOK, Label, relay, history
<1>3. ASSUME AdvanceSyncCursor(w) PROVE TypeOK'
  <2>1. mem[w].next \in Nat /\ mem[w].next <= Len(log)
    BY <1>b DEF Local, TypeOK
  <2>n. Len(log) \in Nat
    BY LogType
  <2>2. mem[w].next \in 0 .. Len(log)
    BY <2>1, <2>n, SMTT(30)
  <2>3. cursor' \in [Device -> 0 .. Len(log)]
    BY <1>3, <1>a, <2>2 DEF AdvanceSyncCursor, TypeOK
  <2>4. EndRound(w) /\ log' = log
    BY <1>3 DEF AdvanceSyncCursor, relay
  <2> QED
    BY <1>3, <2>3, <2>4, EndRoundType, Zenon DEF AdvanceSyncCursor, TypeOK, Label, relay, history
<1> QED
  BY <1>1, <1>2, <1>3

\* A failed round and a crash.
LEMMA FaultTypes ==
    ASSUME TypeOK, NEW w \in Worker
    PROVE  /\ Fail(w) => TypeOK'
           /\ Crash(w) => TypeOK'
<1>1. ASSUME Abandon(w), UNCHANGED <<store, log, ack, mutations, queued>>,
             lock' \in [Device -> Runner \cup {None}]
      PROVE  TypeOK'
  <2>1. EndRound(w) /\ log' = log
    BY <1>1, Zenon DEF Abandon
  <2>2. Request(w) \in [dev : Device, cursor : Nat, upload : Envelope \cup {None}]
    BY RequestType, Zenon DEF Request
  <2>3. late' \subseteq [dev : Device, cursor : Nat, upload : Envelope \cup {None}]
    BY <1>1, <2>2, Zenon DEF Abandon, TypeOK
  <2>f. faults \in 0 .. MaxFaults /\ faults < MaxFaults /\ faults' = faults + 1
    BY <1>1 DEF Abandon, TypeOK
  <2>4. faults' \in 0 .. MaxFaults
    BY <2>f, BoundAssumption, SMTT(30)
  <2> QED
    BY <1>1, <2>1, <2>3, <2>4, EndRoundType, ZenonT(30) DEF TypeOK, Label, store
<1>2. lock \in [Device -> Runner \cup {None}]
  BY DEF TypeOK
<1>3. Fail(w) => TypeOK'
  BY <1>1, <1>2 DEF Fail
<1>4. Crash(w) => TypeOK'
  BY <1>1, <1>2, Zenon DEF Crash
<1> QED
  BY <1>3, <1>4

\* A local mutation writes the row and the outbox.
LEMMA MutateType ==
    ASSUME TypeOK, NEW d \in Device, NEW o \in Object, NEW enqueue \in BOOLEAN, Mutate(d, o, enqueue)
    PROVE  TypeOK'
<1> DEFINE row == phrases[d][o] \cup {<<d, mutations[d] + 1>>}
<1>1. mutations[d] \in Nat /\ MaxMutations[d] \in Nat /\ mutations[d] < MaxMutations[d]
  BY BoundAssumption, Zenon DEF TypeOK, Mutate
<1>2. mutations[d] + 1 \in 1 .. MaxMutations[d]
  BY <1>1
<1>3. <<d, mutations[d] + 1>> \in Mutation
  BY <1>2, SMTT(30) DEF Mutation
<1>t. /\ phrases \in [Device -> [Object -> Phrase]]
      /\ outbox \in [Device -> [Object -> Event \cup {None}]]
      /\ lastEvent \in [Device -> Nat]
      /\ mutations \in [Device -> Nat]
      /\ \A c \in Device : mutations[c] <= MaxMutations[c]
  BY DEF TypeOK
<1>4. phrases[d][o] \in Phrase
  BY <1>t, Zenon
<1>5. row \in Phrase
  BY <1>3, <1>4, Zenon DEF Phrase
<1>6. /\ mutations' = [mutations EXCEPT ![d] = @ + 1]
      /\ phrases' = [phrases EXCEPT ![d][o] = row]
      /\ \/ /\ outbox' = [outbox EXCEPT ![d][o] = Enqueued(d, o, row)]
            /\ lastEvent' = [lastEvent EXCEPT ![d] = IF outbox[d][o] = None THEN @ + 1 ELSE @]
            /\ queued' = [queued EXCEPT ![d][o] = @ \cup row]
         \/ UNCHANGED <<outbox, lastEvent, queued>>
      /\ UNCHANGED <<cursor, nextSeq, prevHash, prepared, process, relay, faults>>
  BY DEF Mutate
<1> HIDE DEF row
<1>7. phrases' \in [Device -> [Object -> Phrase]]
  BY <1>t, <1>5, <1>6
<1>8. mutations' \in [Device -> Nat] /\ \A c \in Device : mutations'[c] <= MaxMutations[c]
  <2>1. mutations' = [mutations EXCEPT ![d] = mutations[d] + 1]
    BY <1>6
  <2> QED
    BY <1>t, <1>1, <2>1
<1>9. Enqueued(d, o, row) \in Event
  <2>1. lastEvent[d] \in Nat /\ (outbox[d][o] \in Event \/ outbox[d][o] = None)
    BY <1>t, Zenon
  <2>2. CASE outbox[d][o] = None
    BY <2>1, <2>2, <1>5 DEF Enqueued, Event
  <2>3. CASE outbox[d][o] # None
    <3>1. outbox[d][o].id \in Nat /\ outbox[d][o].version \in Nat
      BY <2>1, <2>3, Zenon DEF Event
    <3> QED
      BY <3>1, <2>3, <1>5 DEF Enqueued, Event
  <2> QED
    BY <2>2, <2>3
<1>a. /\ outbox \in [Device -> [Object -> Event \cup {None}]]
      /\ lastEvent \in [Device -> Nat]
      /\ queued \in [Device -> [Object -> Phrase]]
  BY DEF TypeOK
<1>10. outbox' \in [Device -> [Object -> Event \cup {None}]]
  <2>1. CASE outbox' = [outbox EXCEPT ![d][o] = Enqueued(d, o, row)]
    BY <2>1, <1>9, <1>a
  <2> QED
    BY <2>1, <1>6, <1>a
<1>11. lastEvent' \in [Device -> Nat]
  <2>1. CASE lastEvent' = [lastEvent EXCEPT ![d] = IF outbox[d][o] = None THEN @ + 1 ELSE @]
    BY <2>1, <1>a
  <2> QED
    BY <2>1, <1>6, <1>a
<1>12. queued' \in [Device -> [Object -> Phrase]]
  <2>1. queued[d][o] \cup row \in Phrase
    BY <1>5, <1>a DEF Phrase
  <2>2. CASE queued' = [queued EXCEPT ![d][o] = @ \cup row]
    BY <2>1, <2>2, <1>a, Zenon
  <2> QED
    BY <2>2, <1>6, <1>a
<1> QED
  BY <1>6, <1>7, <1>8, <1>10, <1>11, <1>12, ZenonT(30) DEF TypeOK, process, relay

\* A worker about to write a merged row still has that record to merge.
TypeInv == TypeOK /\ \A w \in Worker : pc[w] = "store" => mem[w].todo # {}

\* A fresh store and an empty relay are typed.
LEMMA InitType == Init => TypeInv
<1> SUFFICES ASSUME Init PROVE TypeInv
  OBVIOUS
<1>1. log = <<>> /\ Len(log) = 0 /\ log \in Seq(Envelope) /\ 0 \in 0 .. Len(log)
  BY SMTT(30) DEF Init
<1>2. Idle \in Local
  BY DEF Idle, Local, Phrase
<1>3. mem \in [Worker -> Local] /\ pc \in [Worker -> Label]
  BY <1>2, Zenon DEF Init, Label
<1>4. \A w \in Worker : mem[w].cursor = 0 /\ mem[w].next = 0 /\ mem[w].todo = {}
  BY DEF Init, Idle
<1>5. {} \in Phrase
  BY DEF Phrase
<1>6. /\ phrases \in [Device -> [Object -> Phrase]]
      /\ queued \in [Device -> [Object -> Phrase]]
      /\ outbox \in [Device -> [Object -> Event \cup {None}]]
      /\ cursor \in [Device -> 0 .. Len(log)]
  BY <1>1, <1>5, Zenon DEF Init
<1>7. /\ \A w \in Worker : /\ mem[w].cursor <= Len(log)
                           /\ mem[w].next <= Len(log)
                           /\ mem[w].todo \subseteq DOMAIN log
      /\ \A d \in Device : mutations[d] <= MaxMutations[d]
      /\ faults \in 0 .. MaxFaults
  BY <1>1, <1>4, BoundAssumption DEF Init
<1>8. \A w \in Worker : pc[w] # "store"
  BY DEF Init
<1>9. /\ lastEvent \in [Device -> Nat] /\ nextSeq \in [Device -> Nat]
      /\ prevHash \in [Device -> Hash \cup {NoHash}]
      /\ prepared \in [Device -> Envelope \cup {None}]
      /\ lock \in [Device -> Runner \cup {None}]
      /\ ack \in [Device -> Nat] /\ mutations \in [Device -> Nat] /\ late = {}
  BY Zenon DEF Init
<1> QED
  BY <1>1, <1>3, <1>6, <1>7, <1>8, <1>9 DEF TypeInv, TypeOK, Label

\* A step that changes nothing keeps the types.
LEMMA StutterType == TypeInv /\ UNCHANGED vars => TypeInv'
  BY Zenon DEF TypeInv, TypeOK, vars, store, process, relay, history

\* Only MergeLoad leads to the label store, and it finds a record to merge.
LEMMA StoreHasTodo ==
    ASSUME TypeInv, Next
    PROVE  \A v \in Worker : pc'[v] = "store" => mem'[v].todo # {}
<1> SUFFICES ASSUME NEW v \in Worker, pc'[v] = "store" PROVE mem'[v].todo # {}
  BY Zenon
<1>a. pc \in [Worker -> Label] /\ mem \in [Worker -> Local]
  BY DEF TypeInv, TypeOK, Label
<1>b. ASSUME UNCHANGED <<pc, mem>> PROVE mem'[v].todo # {}
  BY <1>b DEF TypeInv
<1>c. ASSUME NEW w \in Worker, NEW l \in Label, Goto(w, l), l # "store",
             UNCHANGED mem \/ \E m : mem' = [mem EXCEPT ![w] = m]
      PROVE  mem'[v].todo # {}
  <2>1. v # w /\ pc[v] = "store"
    BY <1>a, <1>c DEF Goto
  <2>2. mem'[v] = mem[v]
    BY <1>a, <1>c, <2>1
  <2> QED
    BY <2>1, <2>2 DEF TypeInv
<1>2. ASSUME NEW w \in Worker, Step(w) PROVE mem'[v].todo # {}
  <2>1. CASE MergeLoad(w)
    <3>1. CASE v = w
      BY <1>a, <2>1, <3>1 DEF MergeLoad, Local
    <3>2. CASE v # w
      BY <1>a, <2>1, <3>2 DEF MergeLoad, Goto, TypeInv
    <3> QED
      BY <3>1, <3>2
  <2>2. CASE Acquire(w)
    BY <2>2, <1>b, Zenon DEF Acquire
  <2>3. CASE Load(w) \/ Reload(w) \/ SavePreparedUpload(w)
    BY <2>3, <1>c DEF Load, Reload, SavePreparedUpload, Label
  <2>4. CASE Seal(w)
    BY <2>4, <1>c DEF Seal, Label
  <2>5. CASE ServeSync(w)
    BY <2>5, <1>c, ZenonT(30) DEF ServeSync, Label
  <2>6. CASE EndRound(w)
    BY <2>6, <1>c, Zenon DEF EndRound, Label
  <2>7. CASE ReceiveReply(w) \/ MergeStore(w) \/ CommitPreparedUpload(w)
    BY <2>7, <1>c, Zenon DEF ReceiveReply, MergeStore, CommitPreparedUpload, Label
  <2> QED
    BY <1>2, <2>1, <2>2, <2>3, <2>4, <2>5, <2>6, <2>7, Zenon
   
    DEF Step, StageRefused, ReceiveRejection, ReceiveUndecodable, CommitRefused, AdvanceSyncCursor, AdvanceRefused
<1>3. ASSUME NEW w \in Worker, Fail(w) \/ Crash(w) PROVE mem'[v].todo # {}
  BY <1>3, <1>c DEF Fail, Crash, Abandon, EndRound, Label
<1>4. ASSUME NEW r \in late, ServeLate(r) PROVE mem'[v].todo # {}
  BY <1>4, <1>b DEF ServeLate, process
<1>5. ASSUME NEW d \in Device, NEW o \in Object, NEW q \in BOOLEAN, Mutate(d, o, q) PROVE mem'[v].todo # {}
  BY <1>5, <1>b DEF Mutate, process
<1> QED
  BY <1>2, <1>3, <1>4, <1>5, Zenon DEF Next

\* Every step keeps the types.
LEMMA NextType ==
    ASSUME TypeInv, Next
    PROVE  TypeInv'
<1>1. ASSUME NEW w \in Worker, Step(w) PROVE TypeOK'
  <2>1. TypeOK /\ (MergeStore(w) => mem[w].todo # {})
    BY Zenon DEF TypeInv, MergeStore
  <2> QED
    BY <1>1, <2>1, TypeSimple, SealType, StoreStepTypes, ServeSyncType, MergeLoadType, MergeStoreType
    DEF Step
<1>2. ASSUME NEW w \in Worker, Fail(w) \/ Crash(w) PROVE TypeOK'
  BY <1>2, FaultTypes, Zenon DEF TypeInv
<1>3. ASSUME NEW r \in late, ServeLate(r) PROVE TypeOK'
  BY <1>3, ServeLateType DEF TypeInv
<1>4. ASSUME NEW d \in Device, NEW o \in Object, NEW q \in BOOLEAN, Mutate(d, o, q) PROVE TypeOK'
  BY <1>4, MutateType DEF TypeInv
<1>5. TypeOK'
  BY <1>1, <1>2, <1>3, <1>4 DEF Next
<1> QED
  BY <1>5, StoreHasTodo, Zenon DEF TypeInv

\* Type correctness of the stores, workers and relay. In particular the cursor
\* a device has stored (AdvanceSyncCursor) and the page a worker merges always
\* lie inside the log, so that the relay never refuses a request as ahead.
THEOREM SyncTypeCorrect == Spec => []TypeOK
<1>1. Init => TypeInv
  BY InitType
<1>2. TypeInv /\ [Next]_vars => TypeInv'
  BY NextType, StutterType
<1>3. TypeInv => TypeOK
  BY DEF TypeInv
<1> QED
  BY <1>1, <1>2, <1>3, PTL DEF Spec

-----------------------------------------------------------------------------
(* Cursors. *)

\* A worker that has the answer to its request.
Answered == {"replied", "merging", "store", "committed"}

\* No request, waiting or abandoned, carries a cursor its device has not
\* stored, and no page ends before it starts.
RequestsBehind ==
    /\ \A w \in Worker : /\ pc[w] # "idle" => mem[w].cursor <= cursor[Home[w]]
                         /\ pc[w] \in Answered => mem[w].cursor <= mem[w].next
    /\ \A r \in late : r.cursor <= cursor[r.dev]

CursorInv == TypeInv /\ RequestsBehind /\ AckBehindCursor

\* A step of a worker leaves the other workers alone.
LEMMA WorkerFrame ==
    ASSUME TypeOK, NEW w \in Worker, Step(w) \/ Fail(w) \/ Crash(w), NEW v \in Worker, v # w
    PROVE  pc'[v] = pc[v] /\ mem'[v] = mem[v]
<1>a. pc \in [Worker -> Label] /\ mem \in [Worker -> Local]
  BY Zenon DEF TypeOK, Label
<1>1. CASE Acquire(w)
  BY <1>1 DEF Acquire
<1>2. CASE EndRound(w)
  BY <1>2, <1>a DEF EndRound, Goto
<1>3. CASE Load(w) \/ Seal(w) \/ Reload(w)
  BY <1>3, <1>a DEF Load, Seal, Reload, Goto
<1>4. CASE SavePreparedUpload(w) \/ ReceiveReply(w) \/ CommitPreparedUpload(w)
  BY <1>4, <1>a, Zenon DEF SavePreparedUpload, ReceiveReply, CommitPreparedUpload, Goto
<1>5. CASE ServeSync(w)
  BY <1>5, <1>a DEF ServeSync, Goto
<1>6. CASE MergeLoad(w) \/ MergeStore(w)
  BY <1>6, <1>a DEF MergeLoad, MergeStore, Goto
<1> QED
  BY <1>1, <1>2, <1>3, <1>4, <1>5, <1>6, Zenon
  DEF Step, Fail, Crash, Abandon, StageRefused, ReceiveRejection, ReceiveUndecodable, CommitRefused,
      AdvanceSyncCursor, AdvanceRefused

\* The checkpoint cursor of a worker through its round.
LEMMA WorkerCursor ==
    ASSUME TypeOK, RequestsBehind, NEW w \in Worker, Step(w) \/ Fail(w) \/ Crash(w)
    PROVE  \/ UNCHANGED <<pc, mem>>
           \/ pc'[w] = "idle"
           \/ pc'[w] \notin Answered /\ mem'[w].cursor = cursor[Home[w]]
           \/ /\ pc[w] # "idle"
              /\ mem'[w].cursor = mem[w].cursor
              /\ pc'[w] \in Answered => mem'[w].cursor <= mem'[w].next
<1>a. pc \in [Worker -> Label] /\ mem \in [Worker -> Local] /\ mem[w] \in Local
  BY Zenon DEF TypeOK, Label
<1>b. pc[w] \in Answered => mem[w].cursor <= mem[w].next
  BY DEF RequestsBehind
<1>1. CASE Acquire(w)
  BY <1>1, Zenon DEF Acquire
<1>2. CASE EndRound(w)
  BY <1>2, <1>a DEF EndRound, Goto
<1>3. CASE Load(w) \/ Reload(w)
  <2>1. mem'[w] = LoadSyncState(w) /\ pc'[w] \notin Answered
    BY <1>3, <1>a DEF Load, Reload, Goto, Answered
  <2>2. LoadSyncState(w).cursor = cursor[Home[w]]
    BY DEF LoadSyncState, Idle
  <2> QED
    BY <2>1, <2>2, Zenon
<1>4. CASE Seal(w)
  <2>1. pc[w] = "loaded" /\ pc'[w] \notin Answered
    BY <1>4, <1>a DEF Seal, Goto, Answered
  <2>2. mem'[w].cursor = mem[w].cursor
    BY <1>4, <1>a, Zenon DEF Seal, Local
  <2> QED
    BY <2>1, <2>2
<1>5. CASE SavePreparedUpload(w)
  BY <1>5, <1>a DEF SavePreparedUpload, Goto, Answered
<1>6. CASE ReceiveReply(w) \/ CommitPreparedUpload(w)
  BY <1>6, <1>a, <1>b, Zenon DEF ReceiveReply, CommitPreparedUpload, Answered
<1>7. CASE ServeSync(w)
  <2> DEFINE r == Request(w)
  <2>1. PICK end \in PageEnds(LogAfter(r), Account, r.cursor, PageLimit) :
          mem' = [mem EXCEPT
                    ![w].accepted = r.upload = None \/ Accepted(Verdict(log, r.upload)),
                    ![w].todo = PageRecords(LogAfter(r), Account, r.cursor, end),
                    ![w].next = nextCursor(LogAfter(r), Account, end)]
    BY <1>7, Zenon DEF ServeSync
  <2>2. r.cursor = mem[w].cursor /\ r.cursor \in Nat /\ r.upload \in Envelope \cup {None}
    BY RequestType
  <2>3. r.cursor <= Len(log)
    BY <2>2, Zenon DEF TypeOK
  <2>4. LogAfter(r) \in Seq(Envelope) /\ Len(log) <= Len(LogAfter(r))
    BY <2>2, LogAfterGrows, Zenon
  <2>n. Len(log) \in Nat /\ Len(LogAfter(r)) \in Nat
    BY <2>4, LogType
  <2>5. r.cursor <= Len(LogAfter(r))
    <3> HIDE DEF r
    <3> QED
      BY <2>2, <2>3, <2>4, <2>n
  <2>6. r.cursor <= end
    BY <2>1, <2>2, <2>4, <2>5, PageLemma
  <2> HIDE DEF r
  <2>7. mem'[w].cursor = mem[w].cursor /\ mem'[w].next = end
    BY <2>1, <1>a DEF nextCursor, Local
  <2>8. pc[w] # "idle"
    BY <1>7 DEF ServeSync
  <2> QED
    BY <2>2, <2>6, <2>7, <2>8
<1>8. CASE MergeLoad(w)
  <2>1. pc[w] = "merging"
    BY <1>8 DEF MergeLoad
  <2>2. mem'[w].cursor = mem[w].cursor /\ mem'[w].next = mem[w].next
    BY <1>8, <1>a, Zenon DEF MergeLoad, Local
  <2> QED
    BY <2>1, <2>2, <1>b DEF Answered
<1>9. CASE MergeStore(w)
  <2>1. pc[w] = "store"
    BY <1>9 DEF MergeStore
  <2>2. mem'[w].cursor = mem[w].cursor /\ mem'[w].next = mem[w].next
    BY <1>9, <1>a DEF MergeStore, Local
  <2> QED
    BY <2>1, <2>2, <1>b DEF Answered
<1> QED
  BY <1>1, <1>2, <1>3, <1>4, <1>5, <1>6, <1>7, <1>8, <1>9, ZenonT(30)
  DEF Step, Fail, Crash, Abandon, StageRefused, ReceiveRejection, ReceiveUndecodable, CommitRefused,
      AdvanceSyncCursor, AdvanceRefused

\* Cursors are numbers.
LEMMA CursorType ==
    ASSUME TypeOK
    PROVE  \A d \in Device : cursor[d] \in Nat /\ ack[d] \in Nat
<1>1. \A d \in Device : cursor[d] \in 0 .. Len(log) /\ ack[d] \in Nat
  BY DEF TypeOK
<1> QED
  BY <1>1, LogType, SMTT(30)

\* The same after a step.
LEMMA CursorTypeAfter ==
    ASSUME TypeOK'
    PROVE  \A d \in Device : cursor'[d] \in Nat
<1>1. cursor' \in [Device -> 0 .. Len(log')] /\ log' \in Seq(Envelope)
  BY DEF TypeOK
<1>2. Len(log') \in Nat
  BY <1>1
<1> QED
  BY <1>1, <1>2, SMTT(30)

\* No step takes the stored cursor of a device back.
LEMMA CursorGrows ==
    ASSUME TypeOK, RequestsBehind, Next
    PROVE  \A d \in Device : cursor[d] <= cursor'[d]
<1>a. \A d \in Device : cursor[d] \in Nat
  BY CursorType
<1>b. cursor' = cursor => \A d \in Device : cursor[d] <= cursor'[d]
  BY <1>a
<1>1. ASSUME NEW w \in Worker, AdvanceSyncCursor(w) PROVE \A d \in Device : cursor[d] <= cursor'[d]
  <2>1. pc[w] \in Answered /\ cursor[Home[w]] = mem[w].cursor
    BY <1>1 DEF AdvanceSyncCursor, PageDone, Answered
  <2>2. cursor[Home[w]] <= mem[w].next
    BY <2>1, Zenon DEF RequestsBehind
  <2>3. cursor' = [cursor EXCEPT ![Home[w]] = mem[w].next] /\ DOMAIN cursor = Device
    BY <1>1 DEF AdvanceSyncCursor, TypeOK
  <2>4. \A d \in Device : cursor'[d] = IF d = Home[w] THEN mem[w].next ELSE cursor[d]
    BY <2>3
  <2> QED
    BY <2>2, <2>4, <1>a
<1>2. ASSUME NEW w \in Worker, Step(w), ~AdvanceSyncCursor(w) PROVE cursor' = cursor
  BY <1>2, Zenon
  DEF Step, Acquire, Load, Seal, SavePreparedUpload, StageRefused, Reload, ServeSync, ReceiveReply,
     ReceiveRejection, ReceiveUndecodable, MergeLoad, MergeStore, CommitPreparedUpload,
     CommitRefused,
     AdvanceRefused, store
<1>3. ASSUME NEW w \in Worker, Fail(w) \/ Crash(w) PROVE cursor' = cursor
  BY <1>3 DEF Fail, Crash, store
<1>4. ASSUME NEW r \in late, ServeLate(r) PROVE cursor' = cursor
  BY <1>4 DEF ServeLate, store
<1>5. ASSUME NEW d \in Device, NEW o \in Object, NEW q \in BOOLEAN, Mutate(d, o, q) PROVE cursor' = cursor
  BY <1>5 DEF Mutate
<1> QED
  BY <1>b, <1>1, <1>2, <1>3, <1>4, <1>5, Zenon DEF Next

\* A request the relay may get: one that is waited for or an abandoned one.
InFlight(r) == r \in late \/ \E w \in Worker : pc[w] = "sent" /\ r = Request(w)

\* The relay changes only by serving one request in flight, and the abandoned
\* requests are requests that were in flight.
LEMMA RelayMoves ==
    ASSUME TypeOK, Next
    PROVE  /\ \/ UNCHANGED <<log, ack>>
              \/ \E r : InFlight(r) /\ log' = LogAfter(r) /\ ack' = AckAfter(r)
           /\ \A r \in late' : InFlight(r)
<1>1. ASSUME NEW w \in Worker, ServeSync(w)
      PROVE  /\ \E r : InFlight(r) /\ log' = LogAfter(r) /\ ack' = AckAfter(r)
             /\ late' = late
  BY <1>1, Zenon DEF ServeSync, InFlight
<1>2. ASSUME NEW w \in Worker, Step(w), ~ServeSync(w) PROVE UNCHANGED relay
  BY <1>2, Zenon
  DEF Step, Acquire, Load, Seal, SavePreparedUpload, StageRefused, Reload, ReceiveReply,
     ReceiveRejection, ReceiveUndecodable, MergeLoad, MergeStore, CommitPreparedUpload,
     CommitRefused,
     AdvanceSyncCursor, AdvanceRefused
<1>3. ASSUME NEW w \in Worker, Fail(w) \/ Crash(w)
      PROVE  UNCHANGED <<log, ack>> /\ \A r \in late' : InFlight(r)
  BY <1>3 DEF Fail, Crash, Abandon, InFlight
<1>4. ASSUME NEW r \in late, ServeLate(r)
      PROVE  /\ \E q : InFlight(q) /\ log' = LogAfter(q) /\ ack' = AckAfter(q)
             /\ late' \subseteq late
  BY <1>4, Zenon DEF ServeLate, InFlight
<1>5. ASSUME NEW d \in Device, NEW o \in Object, NEW q \in BOOLEAN, Mutate(d, o, q) PROVE UNCHANGED relay
  BY <1>5 DEF Mutate
<1>6. \A r \in late : InFlight(r)
  BY DEF InFlight
<1> QED
  BY <1>1, <1>2, <1>3, <1>4, <1>5, <1>6 DEF Next, relay

\* The types and the cursor of a request in flight.
LEMMA InFlightType ==
    ASSUME TypeOK, RequestsBehind, NEW r, InFlight(r)
    PROVE  /\ r.dev \in Device /\ r.cursor \in Nat /\ r.upload \in Envelope \cup {None}
           /\ r.cursor <= cursor[r.dev]
<1>1. CASE r \in late
  BY <1>1, Zenon DEF TypeOK, RequestsBehind
<1>2. ASSUME NEW w \in Worker, pc[w] = "sent", r = Request(w)
      PROVE  /\ r.dev \in Device /\ r.cursor \in Nat /\ r.upload \in Envelope \cup {None}
             /\ r.cursor <= cursor[r.dev]
  BY <1>2, RequestType DEF RequestsBehind
<1> QED
  BY <1>1, <1>2, Zenon DEF InFlight

\* The relay's cursor of a device grows, and stays behind the device's own.
LEMMA AckStep ==
    ASSUME CursorInv, Next
    PROVE  \A d \in Device : ack[d] <= ack'[d] /\ ack'[d] <= cursor'[d]
<1>0. TypeOK /\ RequestsBehind /\ AckBehindCursor /\ TypeOK'
  BY NextType DEF CursorInv, TypeInv
<1>a. \A d \in Device : cursor[d] \in Nat /\ ack[d] \in Nat /\ ack[d] <= cursor[d]
  BY <1>0, CursorType DEF AckBehindCursor
<1>b. \A d \in Device : cursor[d] <= cursor'[d] /\ cursor'[d] \in Nat
  BY <1>0, CursorGrows, CursorTypeAfter, Zenon
<1>1. \A d \in Device : ack[d] <= ack'[d] /\ ack'[d] <= cursor[d] /\ ack'[d] \in Nat
  <2>1. CASE UNCHANGED <<log, ack>>
    BY <2>1, <1>a
  <2>2. ASSUME NEW r, InFlight(r), ack' = AckAfter(r)
        PROVE  \A d \in Device : ack[d] <= ack'[d] /\ ack'[d] <= cursor[d] /\ ack'[d] \in Nat
    <3>1. r.dev \in Device /\ r.cursor \in Nat /\ r.cursor <= cursor[r.dev]
      BY <2>2, <1>0, InFlightType, Zenon
    <3>2. ack' = [ack EXCEPT ![r.dev] = IF @ < r.cursor THEN r.cursor ELSE @] /\ ack \in [Device -> Nat]
      BY <2>2, <1>0 DEF AckAfter, TypeOK
    <3> QED
      BY <3>1, <3>2, <1>a
  <2> QED
    BY <2>1, <2>2, <1>0, RelayMoves, Zenon
<1> QED
  BY <1>a, <1>b, <1>1

\* Every step keeps the cursors of requests behind the stored ones.
LEMMA CursorStep ==
    ASSUME CursorInv, Next
    PROVE  CursorInv'
<1>a. TypeOK /\ RequestsBehind /\ AckBehindCursor /\ TypeInv'
  BY NextType DEF CursorInv, TypeInv
<1>b. TypeOK'
  BY <1>a DEF TypeInv
<1>c. \A d \in Device : cursor[d] \in Nat /\ cursor'[d] \in Nat /\ cursor[d] <= cursor'[d]
  BY <1>a, <1>b, CursorType, CursorTypeAfter, CursorGrows, Zenon
<1>1. AckBehindCursor'
  BY AckStep DEF AckBehindCursor
<1>2. \A r \in late' : r.cursor <= cursor'[r.dev]
  <2> TAKE r \in late'
  <2>1. r.dev \in Device /\ r.cursor \in Nat /\ r.cursor <= cursor[r.dev]
    BY <1>a, RelayMoves, InFlightType, Zenon
  <2> QED
    BY <2>1, <1>c
<1>3. ASSUME NEW v \in Worker
      PROVE  /\ pc'[v] # "idle" => mem'[v].cursor <= cursor'[Home[v]]
             /\ pc'[v] \in Answered => mem'[v].cursor <= mem'[v].next
  <2>a. Home[v] \in Device /\ mem[v].cursor \in Nat
    BY <1>a, HomeAssumption, Zenon DEF TypeOK, Local
  <2>1. CASE pc'[v] = pc[v] /\ mem'[v] = mem[v]
    <3>1. /\ pc[v] # "idle" => mem[v].cursor <= cursor[Home[v]]
          /\ pc[v] \in Answered => mem[v].cursor <= mem[v].next
      BY <1>a DEF RequestsBehind
    <3>2. mem[v].cursor <= cursor[Home[v]] => mem[v].cursor <= cursor'[Home[v]]
      BY <2>a, <1>c
    <3> QED
      BY <2>1, <3>1, <3>2
  <2>2. ASSUME NEW w \in Worker, Step(w) \/ Fail(w) \/ Crash(w)
        PROVE  /\ pc'[v] # "idle" => mem'[v].cursor <= cursor'[Home[v]]
               /\ pc'[v] \in Answered => mem'[v].cursor <= mem'[v].next
    <3>1. CASE v # w
      BY <2>1, <2>2, <3>1, <1>a, WorkerFrame, Zenon
    <3>2. CASE v = w
      <4>1. \/ UNCHANGED <<pc, mem>>
            \/ pc'[v] = "idle"
            \/ pc'[v] \notin Answered /\ mem'[v].cursor = cursor[Home[v]]
            \/ /\ pc[v] # "idle"
               /\ mem'[v].cursor = mem[v].cursor
               /\ pc'[v] \in Answered => mem'[v].cursor <= mem'[v].next
        BY <2>2, <3>2, <1>a, WorkerCursor, Zenon
      <4>2. pc[v] # "idle" => mem[v].cursor <= cursor[Home[v]]
        BY <1>a DEF RequestsBehind
      <4>3. CASE UNCHANGED <<pc, mem>>
        BY <4>3, <2>1
      <4>4. CASE pc'[v] = "idle"
        BY <4>4 DEF Answered
      <4>5. CASE pc'[v] \notin Answered /\ mem'[v].cursor = cursor[Home[v]]
        BY <4>5, <2>a, <1>c
      <4>6. CASE /\ pc[v] # "idle"
                 /\ mem'[v].cursor = mem[v].cursor
                 /\ pc'[v] \in Answered => mem'[v].cursor <= mem'[v].next
        BY <4>6, <4>2, <2>a, <1>c
      <4> QED
        BY <4>1, <4>3, <4>4, <4>5, <4>6
    <3> QED
      BY <3>1, <3>2, Zenon
  <2>3. ASSUME NEW r \in late, ServeLate(r) PROVE pc'[v] = pc[v] /\ mem'[v] = mem[v]
    BY <2>3, Zenon DEF ServeLate, process
  <2>4. ASSUME NEW d \in Device, NEW o \in Object, NEW q \in BOOLEAN, Mutate(d, o, q)
        PROVE  pc'[v] = pc[v] /\ mem'[v] = mem[v]
    BY <2>4 DEF Mutate, process
  <2> QED
    BY <2>1, <2>2, <2>3, <2>4, Zenon DEF Next
<1> QED
  BY <1>a, <1>1, <1>2, <1>3, Zenon DEF CursorInv, RequestsBehind

\* At first every cursor is zero.
LEMMA InitCursor == Init => CursorInv
<1> SUFFICES ASSUME Init PROVE CursorInv
  OBVIOUS
<1>1. TypeInv
  BY InitType
<1>2. /\ \A w \in Worker : pc[w] = "idle"
      /\ \A d \in Device : cursor[d] = 0 /\ ack[d] = 0
      /\ late = {}
  BY DEF Init
<1>3. RequestsBehind
  BY <1>2 DEF RequestsBehind, Answered
<1>4. AckBehindCursor
  BY <1>2 DEF AckBehindCursor
<1> QED
  BY <1>1, <1>3, <1>4 DEF CursorInv

\* A step that changes nothing keeps the cursors.
LEMMA StutterCursor == CursorInv /\ UNCHANGED vars => CursorInv'
<1> SUFFICES ASSUME CursorInv, UNCHANGED vars PROVE CursorInv'
  OBVIOUS
<1>1. TypeInv'
  BY StutterType, Zenon DEF CursorInv
<1>2. RequestsBehind' /\ AckBehindCursor'
  BY DEF CursorInv, RequestsBehind, AckBehindCursor, vars, store, process, relay
<1> QED
  BY <1>1, <1>2 DEF CursorInv

\* The acknowledgement cursor the relay records for a device never passes the
\* cursor of its store, for late, repeated and reordered requests alike.
THEOREM AckNeverAhead == Spec => []AckBehindCursor
<1>1. CursorInv /\ [Next]_vars => CursorInv'
  BY CursorStep, StutterCursor
<1>2. CursorInv => AckBehindCursor
  BY DEF CursorInv
<1> QED
  BY InitCursor, <1>1, <1>2, PTL DEF Spec

\* Every step leaves the records of the log where they are.
LEMMA LogStep ==
    ASSUME TypeOK, RequestsBehind, Next
    PROVE  /\ Len(log) <= Len(log')
           /\ \A i \in DOMAIN log : log'[i] = log[i]
<1>1. CASE UNCHANGED <<log, ack>>
  BY <1>1, LogType, SMTT(30)
<1>2. ASSUME NEW r, InFlight(r), log' = LogAfter(r)
      PROVE  /\ Len(log) <= Len(log')
             /\ \A i \in DOMAIN log : log'[i] = log[i]
  BY <1>2, InFlightType, LogAfterGrows
<1> QED
  BY <1>1, <1>2, RelayMoves

\* No step takes back a stored cursor (the compare of AdvanceSyncCursor), an
\* acknowledgement cursor (the CASE of its UPDATE) or a record of the log.
THEOREM CursorsAndLogGrow == Spec => NothingGoesBack
<1> DEFINE Grow == /\ \A d \in Device : cursor[d] <= cursor'[d] /\ ack[d] <= ack'[d]
                   /\ Len(log) <= Len(log')
                   /\ \A i \in DOMAIN log : log'[i] = log[i]
<1>1. CursorInv /\ [Next]_vars => CursorInv'
  BY CursorStep, StutterCursor
<1>2. CursorInv /\ [Next]_vars => [Grow]_vars
  <2> SUFFICES ASSUME CursorInv, Next PROVE Grow
    OBVIOUS
  <2>1. TypeOK /\ RequestsBehind /\ AckBehindCursor
    BY DEF CursorInv, TypeInv
  <2>2. \A d \in Device : cursor[d] <= cursor'[d] /\ ack[d] <= ack'[d]
    BY <2>1, CursorGrows, AckStep
  <2>3. Len(log) <= Len(log') /\ \A i \in DOMAIN log : log'[i] = log[i]
    BY <2>1, LogStep
  <2> QED
    BY <2>2, <2>3
<1> QED
  BY InitCursor, <1>1, <1>2, PTL DEF Spec, NothingGoesBack

-----------------------------------------------------------------------------
(* Verification. *)

\* Mutation m of object o is d's own or in a record that d can verify.
Vouched(d, o, m) ==
    \/ m[1] = d
    \/ \E i \in DOMAIN log : log[i].dev \in Trusted[d] /\ log[i].obj = o /\ m \in log[i].payload

\* What a worker has still to merge is verified, and so is the row it read,
\* which may since have been written by another process.
VerifiedPage(w) ==
    /\ pc[w] \in {"merging", "store"} => \A i \in mem[w].todo : log[i].dev \in Trusted[Home[w]]
    /\ pc[w] = "store" => \A m \in mem[w].row : Vouched(Home[w], log[FirstTodo(w)].obj, m)

VerifiedInv == CursorInv /\ VerifiedOnly /\ \A w \in Worker : VerifiedPage(w)

\* What is vouched for stays so, as the log only grows.
LEMMA VouchedStays ==
    ASSUME CursorInv, Next, NEW d, NEW o, NEW m, Vouched(d, o, m)
    PROVE  Vouched(d, o, m)'
<1>1. TypeOK /\ RequestsBehind /\ TypeOK'
  BY NextType DEF CursorInv, TypeInv
<1>2. Len(log) <= Len(log') /\ \A i \in DOMAIN log : log'[i] = log[i]
  BY <1>1, LogStep, Zenon
<1>3. /\ Len(log) \in Nat /\ DOMAIN log = 1 .. Len(log)
      /\ Len(log') \in Nat /\ DOMAIN log' = 1 .. Len(log')
  BY <1>1, SMTT(30) DEF TypeOK
<1>4. \A i \in DOMAIN log : i \in DOMAIN log' /\ log'[i] = log[i]
  BY <1>2, <1>3
<1> QED
  BY <1>4 DEF Vouched

\* The page of a worker that a step leaves alone.
LEMMA VerifiedFrame ==
    ASSUME CursorInv, Next, NEW v \in Worker, VerifiedPage(v), pc'[v] = pc[v], mem'[v] = mem[v]
    PROVE  VerifiedPage(v)'
<1>1. TypeOK /\ RequestsBehind
  BY DEF CursorInv, TypeInv
<1>2. mem[v].todo \subseteq DOMAIN log /\ \A i \in DOMAIN log : log'[i] = log[i]
  BY <1>1, LogStep, Zenon DEF TypeOK
<1>3. FirstTodo(v)' = FirstTodo(v)
  BY DEF FirstTodo
<1>4. pc[v] = "store" => log'[FirstTodo(v)] = log[FirstTodo(v)]
  BY <1>1, <1>2, FirstTodoIn, Zenon DEF CursorInv, TypeInv
<1>5. ASSUME pc[v] = "store", NEW m \in mem[v].row
      PROVE  Vouched(Home[v], log[FirstTodo(v)].obj, m)'
  <2> DEFINE b == log[FirstTodo(v)].obj
  <2>1. Vouched(Home[v], b, m)
    BY <1>5, Zenon DEF VerifiedPage
  <2>2. b' = b
    BY <1>3, <1>4, <1>5, Zenon
  <2> HIDE DEF b
  <2>3. \A p : p = b => Vouched(Home[v], p, m)'
    BY <2>1, VouchedStays
  <2> QED
    BY <2>2, <2>3, Zenon DEF Vouched, b
<1> QED
  BY <1>2, <1>5, Zenon DEF VerifiedPage

\* The page of a worker through a step of its own: the whole page is checked
\* before the first record is merged, and a row is read just before.
LEMMA VerifiedOwnStep ==
    ASSUME VerifiedInv, Next, NEW v \in Worker, Step(v) \/ Fail(v) \/ Crash(v)
    PROVE  VerifiedPage(v)'
<1>a. TypeOK /\ CursorInv /\ VerifiedPage(v) /\ Home[v] \in Device
  BY HomeAssumption, Zenon DEF VerifiedInv, CursorInv, TypeInv
<1>b. pc \in [Worker -> Label] /\ mem \in [Worker -> Local] /\ mem[v] \in Local
  BY <1>a DEF TypeOK, Label
<1>1. CASE Acquire(v)
  BY <1>1, <1>a, VerifiedFrame, Zenon DEF Acquire
<1>2. ASSUME NEW l \in Label \ {"merging", "store"}, Goto(v, l) PROVE VerifiedPage(v)'
  <2>1. pc'[v] \notin {"merging", "store"}
    BY <1>2, <1>b, Zenon DEF Goto
  <2> QED
    BY <2>1 DEF VerifiedPage
<1>3. CASE ReceiveReply(v)
  <2>1. pc'[v] = "merging" /\ UNCHANGED <<mem, log>> /\ Decodable(v)
    BY <1>3, <1>b, Zenon DEF ReceiveReply, Goto, relay
  <2> QED
    BY <2>1 DEF VerifiedPage, Decodable
<1>4. CASE MergeLoad(v)
  <2> DEFINE b == log[FirstTodo(v)].obj
  <2>1. /\ pc[v] = "merging" /\ UNCHANGED <<phrases, log>>
        /\ mem'[v].todo = mem[v].todo /\ mem'[v].row = phrases[Home[v]][b]
    BY <1>4, <1>b DEF MergeLoad, Goto, store, relay, Local
  <2>2. b \in Object
    BY <1>4, <1>a, FirstTodoIn DEF MergeLoad, Envelope
  <2>3. FirstTodo(v)' = FirstTodo(v) /\ b' = b
    BY <2>1, Zenon DEF FirstTodo
  <2>4. \A m \in phrases[Home[v]][b] : Vouched(Home[v], b, m)
    BY <1>a, <2>2, SMTT(30) DEF VerifiedInv, VerifiedOnly, Vouched
  <2> HIDE DEF b
  <2>5. \A m \in mem'[v].row : Vouched(Home[v], b, m)'
    BY <2>1, <2>3, <2>4, Zenon DEF Vouched
  <2>6. \A i \in mem'[v].todo : log'[i].dev \in Trusted[Home[v]]
    BY <1>a, <2>1 DEF VerifiedPage
  <2> QED
    BY <2>5, <2>6 DEF VerifiedPage, b
<1>5. CASE MergeStore(v)
  <2>1. /\ pc[v] = "store" /\ pc'[v] = "merging" /\ log' = log
        /\ mem'[v].todo \subseteq mem[v].todo
    BY <1>5, <1>b, Zenon DEF MergeStore, Goto, relay, Local
  <2> QED
    BY <1>a, <2>1, Zenon DEF VerifiedPage
<1> QED
  BY <1>1, <1>2, <1>3, <1>4, <1>5, ZenonT(30)
  DEF Step, Fail, Crash, Abandon, StageRefused, ReceiveRejection, ReceiveUndecodable, CommitRefused,
      AdvanceSyncCursor, AdvanceRefused, EndRound, Load, Seal, SavePreparedUpload, Reload,
     ServeSync,
      CommitPreparedUpload, Label

\* The rows after a mutation, after MergeStore and after any other step.
LEMMA VerifiedRows ==
    ASSUME VerifiedInv, Next
    PROVE  VerifiedOnly'
<1>a. TypeInv /\ TypeOK /\ CursorInv /\ phrases \in [Device -> [Object -> Phrase]]
  BY Zenon DEF VerifiedInv, CursorInv, TypeInv, TypeOK
<1>1. ASSUME NEW c \in Device, NEW p \in Object, NEW m \in phrases[c][p]
      PROVE  Vouched(c, p, m)'
  <2>1. Vouched(c, p, m)
    BY SMTT(30) DEF VerifiedInv, VerifiedOnly, Vouched
  <2> QED
    BY <1>a, <2>1, VouchedStays
<1>2. SUFFICES ASSUME NEW c \in Device, NEW p \in Object, NEW m \in phrases'[c][p]
               PROVE  Vouched(c, p, m)'
  BY DEF VerifiedOnly, Vouched
<1>3. CASE UNCHANGED phrases
  BY <1>1, <1>3, Zenon
<1>4. ASSUME NEW d \in Device, NEW o \in Object, NEW q \in BOOLEAN, Mutate(d, o, q)
      PROVE  Vouched(c, p, m)'
  <2>1. phrases' = [phrases EXCEPT ![d][o] = phrases[d][o] \cup {<<d, mutations[d] + 1>>}]
    BY <1>4 DEF Mutate
  <2>2. m \in phrases[c][p] \/ (c = d /\ m = <<d, mutations[d] + 1>>)
    BY <1>a, <2>1, Zenon
  <2> QED
    BY <1>1, <2>2, SMTT(30) DEF Vouched
<1>5. ASSUME NEW w \in Worker, MergeStore(w) PROVE Vouched(c, p, m)'
  <2> DEFINE f == FirstTodo(w)
             b == log[f].obj
  <2>1. /\ phrases' = [phrases EXCEPT ![Home[w]][b] = mem[w].row \cup log[f].payload]
        /\ pc[w] = "store" /\ VerifiedPage(w) /\ Home[w] \in Device
    BY <1>5, HomeAssumption DEF MergeStore, MergedRow, VerifiedInv
  <2>2. f \in mem[w].todo /\ f \in DOMAIN log /\ b \in Object
    BY <1>a, <2>1, FirstTodoIn, Zenon DEF TypeInv, Envelope
  <2>3. log[f].dev \in Trusted[Home[w]] /\ \A n \in mem[w].row : Vouched(Home[w], b, n)
    BY <2>1, <2>2, Zenon DEF VerifiedPage
  <2>4. \A n \in log[f].payload : Vouched(Home[w], b, n)
    BY <2>2, <2>3, Zenon DEF Vouched
  <2> HIDE DEF f, b
  <2>5. m \in phrases[c][p] \/ (c = Home[w] /\ p = b /\ m \in mem[w].row \cup log[f].payload)
    BY <1>a, <2>1, <2>2, Zenon
  <2>6. m \in phrases[c][p] \/ Vouched(c, p, m)
    BY <2>3, <2>4, <2>5
  <2> QED
    BY <1>1, <1>a, <2>6, VouchedStays
<1>6. \/ UNCHANGED phrases
      \/ \E d \in Device, o \in Object, q \in BOOLEAN : Mutate(d, o, q)
      \/ \E w \in Worker : MergeStore(w)
  BY ZenonT(30)
  DEF Next, Step, Fail, Crash, ServeLate, Acquire, Load, Seal, SavePreparedUpload, StageRefused, Reload,
     ServeSync, ReceiveReply, ReceiveRejection, ReceiveUndecodable, MergeLoad, CommitPreparedUpload,
     CommitRefused, AdvanceSyncCursor, AdvanceRefused, store
<1> QED
  BY <1>3, <1>4, <1>5, <1>6

\* decodeDownloads verifies a page with the keys the device holds before anything
\* of it is merged: a store only ever holds its own mutations and those of
\* records it could verify, with any number of processes on one store.
THEOREM OnlyVerifiedMerged == Spec => []VerifiedOnly
<1>1. Init => VerifiedInv
  BY InitCursor, SMTT(30) DEF Init, VerifiedInv, VerifiedOnly, VerifiedPage
<1>2. VerifiedInv /\ Next => VerifiedInv'
  <2> SUFFICES ASSUME VerifiedInv, Next PROVE VerifiedInv'
    OBVIOUS
  <2>1. CursorInv /\ TypeOK /\ \A v \in Worker : VerifiedPage(v)
    BY DEF VerifiedInv, CursorInv, TypeInv
  <2>2. CursorInv'
    BY <2>1, CursorStep
  <2>3. ASSUME NEW v \in Worker PROVE VerifiedPage(v)'
    <3>1. CASE Step(v) \/ Fail(v) \/ Crash(v)
      BY <3>1, VerifiedOwnStep
    <3>2. ASSUME NEW w \in Worker, w # v, Step(w) \/ Fail(w) \/ Crash(w) PROVE VerifiedPage(v)'
      BY <2>1, <3>2, WorkerFrame, VerifiedFrame
    <3>3. CASE UNCHANGED <<pc, mem>>
      BY <2>1, <3>3, VerifiedFrame
    <3> QED
      BY <3>1, <3>2, <3>3, ZenonT(30) DEF Next, Mutate, ServeLate, process
  <2> QED
    BY <2>2, <2>3, VerifiedRows DEF VerifiedInv
<1>3. VerifiedInv /\ UNCHANGED vars => VerifiedInv'
  <2> SUFFICES ASSUME VerifiedInv, UNCHANGED vars PROVE VerifiedInv'
    OBVIOUS
  <2>1. CursorInv'
    BY StutterCursor, Zenon DEF VerifiedInv
  <2>2. VerifiedOnly' /\ \A w \in Worker : VerifiedPage(w)'
    BY SMTT(30)
    DEF VerifiedInv, VerifiedOnly, VerifiedPage, Vouched, FirstTodo, vars, store, process, relay
  <2> QED
    BY <2>1, <2>2 DEF VerifiedInv
<1>4. VerifiedInv => VerifiedOnly
  BY DEF VerifiedInv
<1> QED
  BY <1>1, <1>2, <1>3, <1>4, PTL DEF Spec
=============================================================================
