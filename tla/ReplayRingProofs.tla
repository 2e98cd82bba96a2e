-------------------------- MODULE ReplayRingProofs --------------------------
(***************************************************************************)
(* The unlocked ring implements the bounded queue and no slot is written   *)
(* while it may be read, for every capacity and every number of events.    *)
(***************************************************************************)
EXTENDS ReplayRing, SequenceTheorems, TLAPS

Place == {"idle", "report", "restore", "pop", "copy", "release", "emit"}

TypeOK ==
    /\ ring \in [Slot -> 0 .. MaxOffers] /\ head \in Slot /\ tail \in Slot
    /\ dropped \in Nat /\ enabled \in BOOLEAN
    /\ push \in [at : {"idle", "check", "lose", "write", "publish"}, n : 0 .. MaxOffers]
    /\ drain \in [at : Place, fits : BOOLEAN, n : Nat]
    /\ offered \in 0 .. MaxOffers

\* The event in TryPush is the one offered last, it has room from the check on,
\* and its slot holds it once written.
ProducerInv ==
    /\ push.at # "idle" => push.n = offered /\ offered > 0
    /\ push.at \in {"write", "publish"} => Following(head) # tail
    /\ push.at = "publish" => ring[head] = push.n

\* The consumer copies from a ring that is not empty, what it releases is what
\* it copied, and it reports or restores no empty count.
ConsumerInv ==
    /\ drain.at \in {"copy", "release"} => head # tail
    /\ drain.at = "release" => drain.n = ring[tail]
    /\ drain.at \in {"report", "restore"} => drain.n # 0

RingInv == TypeOK /\ ProducerInv /\ ConsumerInv

-----------------------------------------------------------------------------
(* Slot arithmetic. *)

\* A remainder below twice the capacity is one subtraction.
LEMMA Remainder ==
    ASSUME NEW x \in Nat, x < kReplayRingCapacity + kReplayRingCapacity
    PROVE  x % kReplayRingCapacity =
               IF x < kReplayRingCapacity THEN x ELSE x - kReplayRingCapacity
  BY RingAssumption

\* The slot after a slot, wrapping at the end.
LEMMA FollowingSlot ==
    ASSUME NEW i \in Slot
    PROVE  /\ Following(i) \in Slot /\ Following(i) # i
           /\ Following(i) = IF i = kReplayRingCapacity - 1 THEN 0 ELSE i + 1
<1>1. i \in Nat /\ i < kReplayRingCapacity
  BY RingAssumption DEF Slot
<1>2. Following(i) = IF i + 1 < kReplayRingCapacity THEN i + 1 ELSE i + 1 - kReplayRingCapacity
  BY <1>1, RingAssumption, Remainder DEF Following
<1> QED
  BY <1>1, <1>2, RingAssumption DEF Slot

\* Different slots are followed by different slots.
LEMMA FollowingInjective ==
    ASSUME NEW i \in Slot, NEW j \in Slot, Following(i) = Following(j)
    PROVE  i = j
  BY FollowingSlot, RingAssumption DEF Slot

-----------------------------------------------------------------------------
(* The inductive invariant. *)

\* The consumer moves on with another number in hand.
LEMMA DrainMoved ==
    ASSUME TypeOK, NEW at \in Place, NEW n \in Nat, drain' = [drain EXCEPT !.at = at, !.n = n]
    PROVE  /\ drain' \in [at : Place, fits : BOOLEAN, n : Nat]
           /\ drain'.at = at /\ drain'.n = n /\ drain'.fits = drain.fits
  BY Zenon DEF TypeOK, Place

\* A step of the producer.
LEMMA ProducerStep ==
    ASSUME RingInv, Producer
    PROVE  RingInv'
<1>1. TypeOK /\ ProducerInv /\ ConsumerInv
  BY DEF RingInv
<1>2. CASE TryPush
  <2>1. /\ push.at = "idle" /\ offered < MaxOffers /\ offered' = offered + 1
        /\ push' = [at |-> IF offered' \in Invalid THEN "lose" ELSE "check", n |-> offered']
        /\ UNCHANGED <<ring, head, tail, dropped, enabled, drain>>
    BY <1>2 DEF TryPush
  <2>2. offered' \in 1 .. MaxOffers
    BY <1>1, <2>1, RingAssumption DEF TypeOK
  <2>3. TypeOK'
    BY <1>1, <2>1, <2>2, RingAssumption DEF TypeOK
  <2>4. ProducerInv'
    BY <2>1, <2>2 DEF ProducerInv
  <2>5. ConsumerInv'
    BY <1>1, <2>1 DEF ConsumerInv
  <2> QED
    BY <2>3, <2>4, <2>5 DEF RingInv
<1>3. CASE CheckFull
  <2>1. TypeOK'
    BY <1>1, <1>3 DEF CheckFull, TypeOK, consumerLocal
  <2>2. ProducerInv'
    BY <1>1, <1>3 DEF CheckFull, TypeOK, ProducerInv, Following
  <2>3. ConsumerInv'
    BY <1>1, <1>3 DEF CheckFull, ConsumerInv, consumerLocal
  <2> QED
    BY <2>1, <2>2, <2>3 DEF RingInv
<1>4. CASE CountDrop
  <2>1. TypeOK'
    BY <1>1, <1>4 DEF CountDrop, TypeOK, consumerLocal
  <2>2. ProducerInv' /\ ConsumerInv'
    BY <1>1, <1>4 DEF CountDrop, TypeOK, ProducerInv, ConsumerInv, consumerLocal
  <2> QED
    BY <2>1, <2>2 DEF RingInv
<1>5. CASE WriteSlot
  <2>1. TypeOK'
    BY <1>1, <1>5 DEF WriteSlot, TypeOK, consumerLocal
  <2>2. ProducerInv'
    BY <1>1, <1>5 DEF WriteSlot, TypeOK, ProducerInv, Following
  <2>3. ConsumerInv'
    BY <1>1, <1>5 DEF WriteSlot, TypeOK, ConsumerInv, consumerLocal
  <2> QED
    BY <2>1, <2>2, <2>3 DEF RingInv
<1>6. CASE Publish
  <2>1. head' = Following(head) /\ head' \in Slot /\ head' # tail
    BY <1>1, <1>6, FollowingSlot DEF Publish, TypeOK, ProducerInv
  <2>2. TypeOK'
    BY <1>1, <1>6, <2>1 DEF Publish, TypeOK, consumerLocal
  <2>3. ProducerInv'
    BY <1>1, <1>6 DEF Publish, TypeOK, ProducerInv
  <2>4. ConsumerInv'
    BY <1>1, <1>6, <2>1 DEF Publish, ConsumerInv, consumerLocal
  <2> QED
    BY <2>2, <2>3, <2>4 DEF RingInv
<1> QED
  BY <1>2, <1>3, <1>4, <1>5, <1>6 DEF Producer

\* A step of the consumer.
LEMMA ConsumerStep ==
    ASSUME RingInv, Consumer
    PROVE  RingInv'
<1>1. TypeOK /\ ProducerInv /\ ConsumerInv
  BY DEF RingInv
<1>2. ASSUME NEW fits \in BOOLEAN, DrainJson(fits)
      PROVE  RingInv'
  <2>0. /\ drain'.n = dropped /\ drain'.at \in {"pop", "report", "restore"} /\ drain'.fits = fits
        /\ drain'.at \in {"report", "restore"} => dropped # 0
        /\ drain' = [at |-> drain'.at, fits |-> fits, n |-> dropped]
    <3>1. CASE dropped = 0
      <4>1. drain' = [at |-> "pop", fits |-> fits, n |-> dropped]
        BY <1>2, <3>1 DEF DrainJson
      <4> QED
        BY <3>1, <4>1
    <3>2. CASE dropped # 0 /\ fits
      <4>1. drain' = [at |-> "report", fits |-> fits, n |-> dropped]
        BY <1>2, <3>2 DEF DrainJson
      <4> QED
        BY <3>2, <4>1
    <3>3. CASE dropped # 0 /\ ~fits
      <4>1. drain' = [at |-> "restore", fits |-> fits, n |-> dropped]
        BY <1>2, <3>3 DEF DrainJson
      <4> QED
        BY <3>3, <4>1
    <3> QED
      BY <3>1, <3>2, <3>3
  <2>1. TypeOK'
    BY <1>1, <1>2, <2>0 DEF DrainJson, TypeOK, Place, producerLocal
  <2>2. ProducerInv'
    BY <1>1, <1>2 DEF DrainJson, ProducerInv, producerLocal, Following
  <2>3. ConsumerInv'
    BY <2>0 DEF ConsumerInv
  <2> QED
    BY <2>1, <2>2, <2>3 DEF RingInv
<1>3. CASE ReportDrops \/ RestoreDrops \/ TryPop
  <2>0. /\ drain' \in [at : Place, fits : BOOLEAN, n : Nat]
        /\ drain'.at \in {"idle", "copy"} /\ drain'.at = "copy" => head # tail
    <3>1. CASE ReportDrops \/ RestoreDrops
      BY <1>1, <3>1, DrainMoved, Zenon DEF ReportDrops, RestoreDrops, Place
    <3>2. CASE TryPop
      BY <1>1, <3>2, DrainMoved, Zenon DEF TryPop, Place
    <3> QED
      BY <1>3, <3>1, <3>2
  <2>1. TypeOK'
    BY <1>1, <1>3, <2>0 DEF ReportDrops, RestoreDrops, TryPop, TypeOK, producerLocal
  <2>2. ProducerInv'
    BY <1>1, <1>3 DEF ReportDrops, RestoreDrops, TryPop, ProducerInv, producerLocal, Following
  <2>3. ConsumerInv'
    BY <1>3, <2>0, Zenon DEF ReportDrops, RestoreDrops, TryPop, ConsumerInv
  <2> QED
    BY <2>1, <2>2, <2>3 DEF RingInv
<1>4. CASE CopySlot
  <2>1. ring[tail] \in Nat
    BY <1>1, RingAssumption DEF TypeOK
  <2>2. TypeOK'
    BY <1>1, <1>4, <2>1, Zenon DEF CopySlot, TypeOK, Place, producerLocal
  <2>3. ProducerInv'
    BY <1>1, <1>4 DEF CopySlot, ProducerInv, producerLocal, Following
  <2>4. ConsumerInv'
    BY <1>1, <1>4 DEF CopySlot, TypeOK, Place, ConsumerInv
  <2> QED
    BY <2>2, <2>3, <2>4 DEF RingInv
<1>5. CASE Release
  <2>1. tail' = Following(tail) /\ tail' \in Slot /\ head # tail
    BY <1>1, <1>5, FollowingSlot DEF Release, TypeOK, ConsumerInv
  <2>2. Following(head) # tail'
    BY <1>1, <2>1, FollowingInjective DEF TypeOK
  <2>3. TypeOK'
    BY <1>1, <1>5, <2>1 DEF Release, TypeOK, Place, producerLocal
  <2>4. ProducerInv'
    BY <1>1, <1>5, <2>2 DEF Release, ProducerInv, producerLocal, Following
  <2>5. ConsumerInv'
    BY <1>1, <1>5 DEF Release, TypeOK, ConsumerInv
  <2> QED
    BY <2>3, <2>4, <2>5 DEF RingInv
<1>6. CASE Emit
  <2>0. drain' \in [at : Place, fits : BOOLEAN, n : Nat] /\ drain'.at \in {"idle", "pop"}
    BY <1>1, <1>6, DrainMoved, Zenon DEF Emit, Place
  <2>1. TypeOK'
    <3>1. dropped' \in Nat
      BY <1>1, <1>6 DEF Emit, TypeOK
    <3> QED
      BY <1>1, <1>6, <2>0, <3>1 DEF Emit, TypeOK, producerLocal
  <2>2. ProducerInv'
    BY <1>1, <1>6 DEF Emit, ProducerInv, producerLocal, Following
  <2>3. ConsumerInv'
    BY <2>0 DEF ConsumerInv
  <2> QED
    BY <2>1, <2>2, <2>3 DEF RingInv
<1> QED
  BY <1>2, <1>3, <1>4, <1>5, <1>6 DEF Consumer

\* An empty ring.
LEMMA RingInvInit ==
    ASSUME Init
    PROVE  RingInv
<1>1. 0 \in Slot /\ 0 \in 0 .. MaxOffers
  BY RingAssumption DEF Slot
<1>2. TypeOK
  <2>1. /\ ring \in [Slot -> 0 .. MaxOffers] /\ head \in Slot /\ tail \in Slot
        /\ dropped \in Nat /\ offered \in 0 .. MaxOffers
    BY <1>1 DEF Init
  <2>2. enabled \in BOOLEAN
    BY Zenon DEF Init
  <2>3. push \in [at : {"idle", "check", "lose", "write", "publish"}, n : 0 .. MaxOffers]
    BY <1>1 DEF Init
  <2>4. drain \in [at : Place, fits : BOOLEAN, n : Nat]
    BY DEF Init, Place
  <2> QED
    BY <2>1, <2>2, <2>3, <2>4 DEF TypeOK
<1>3. ProducerInv /\ ConsumerInv
  BY DEF Init, ProducerInv, ConsumerInv
<1> QED
  BY <1>2, <1>3 DEF RingInv

\* Both threads, and switching the capture on and off, preserve the invariant.
THEOREM RingInvariant == Spec => []RingInv
<1>1. Init => RingInv
  BY RingInvInit
<1>2. RingInv /\ [Next]_vars => RingInv'
  <2> SUFFICES ASSUME RingInv, [Next]_vars
               PROVE  RingInv'
    OBVIOUS
  <2>1. CASE (\E on \in BOOLEAN : SetEnabled(on)) \/ UNCHANGED vars
    BY <2>1 DEF SetEnabled, vars, RingInv, TypeOK, ProducerInv, ConsumerInv, Following
  <2> QED
    BY <2>1, ProducerStep, ConsumerStep DEF Next
<1> QED
  BY <1>1, <1>2, PTL DEF Spec

\* The producer never writes the slot that the consumer copies, and publishing
\* never makes a full ring look empty.
THEOREM SlotsNeverRace == Spec => []NoSlotRace
<1>1. RingInv => NoSlotRace
  BY DEF RingInv, ProducerInv, ConsumerInv, NoSlotRace
<1> QED
  BY <1>1, RingInvariant, PTL

-----------------------------------------------------------------------------
(* What the slots between the two ends hold, as a sequence. *)

\* The number of slots in use, with and without a wrap.
LEMMA UsedValue ==
    ASSUME NEW h \in Slot, NEW t \in Slot
    PROVE  /\ Used(h, t) = IF t <= h THEN h - t ELSE h - t + kReplayRingCapacity
           /\ Used(h, t) \in 0 .. kReplayRingCapacity - 1
<1>1. /\ h \in Nat /\ h < kReplayRingCapacity /\ t \in Nat /\ t < kReplayRingCapacity
      /\ kReplayRingCapacity \in Nat
  BY RingAssumption DEF Slot
<1> DEFINE x == h - t + kReplayRingCapacity
<1>2. x \in Nat /\ x < kReplayRingCapacity + kReplayRingCapacity
  BY <1>1
<1>3. Used(h, t) = IF x < kReplayRingCapacity THEN x ELSE x - kReplayRingCapacity
  <2>1. Used(h, t) = x % kReplayRingCapacity
    BY DEF Used
  <2> HIDE DEF x
  <2> QED
    BY <1>2, <2>1, Remainder
<1> QED
  BY <1>1, <1>3

\* The slots in use, one after the other; the one at the head is not in use.
LEMMA SlotAtValue ==
    ASSUME NEW h \in Slot, NEW t \in Slot, NEW k \in 1 .. Used(h, t)
    PROVE  /\ SlotAt(t, k) = IF t + k - 1 < kReplayRingCapacity
                             THEN t + k - 1 ELSE t + k - 1 - kReplayRingCapacity
           /\ SlotAt(t, k) \in Slot /\ SlotAt(t, k) # h
<1>1. /\ h \in Nat /\ h < kReplayRingCapacity /\ t \in Nat /\ t < kReplayRingCapacity
      /\ kReplayRingCapacity \in Nat
  BY RingAssumption DEF Slot
<1>2. /\ k \in Nat /\ 1 <= k
      /\ k <= IF t <= h THEN h - t ELSE h - t + kReplayRingCapacity
      /\ k < kReplayRingCapacity
  BY <1>1, UsedValue
<1> DEFINE x == t + k - 1
<1>3. x \in Nat /\ x < kReplayRingCapacity + kReplayRingCapacity
  BY <1>1, <1>2
<1>4. SlotAt(t, k) = IF x < kReplayRingCapacity THEN x ELSE x - kReplayRingCapacity
  <2>1. SlotAt(t, k) = x % kReplayRingCapacity
    BY DEF SlotAt
  <2> HIDE DEF x
  <2> QED
    BY <1>3, <2>1, Remainder
<1> QED
  BY <1>1, <1>2, <1>4 DEF Slot

\* They hold a sequence of events.
LEMMA ContentsSeq ==
    ASSUME NEW slots \in [Slot -> 0 .. MaxOffers], NEW h \in Slot, NEW t \in Slot
    PROVE  /\ Contents(slots, h, t) \in Seq(0 .. MaxOffers)
           /\ Len(Contents(slots, h, t)) = Used(h, t)
           /\ \A k \in 1 .. Used(h, t) : Contents(slots, h, t)[k] = slots[SlotAt(t, k)]
<1>1. Used(h, t) \in Nat
  BY UsedValue, RingAssumption
<1>2. \A k \in 1 .. Used(h, t) : slots[SlotAt(t, k)] \in 0 .. MaxOffers
  BY SlotAtValue
<1> DEFINE n == Used(h, t)
           f == Contents(slots, h, t)
<1>3. f = [k \in 1 .. n |-> slots[SlotAt(t, k)]]
  BY DEF Contents
<1>4. n \in Nat /\ f \in [1 .. n -> 0 .. MaxOffers]
  BY <1>1, <1>2, <1>3
<1>5. \A k \in 1 .. n : f[k] = slots[SlotAt(t, k)]
  BY <1>3
<1> HIDE DEF n, f
<1>6. f \in Seq(0 .. MaxOffers)
  BY <1>4, SeqDef, ZenonT(30)
<1>7. Len(f) = n
  BY <1>4, <1>6, LenProperties
<1> QED
  BY <1>5, <1>6, <1>7 DEF n, f

\* Publishing the slot at the head appends it.
LEMMA ContentsAppend ==
    ASSUME NEW slots \in [Slot -> 0 .. MaxOffers], NEW h \in Slot, NEW t \in Slot,
           Following(h) # t
    PROVE  /\ Contents(slots, Following(h), t) = Append(Contents(slots, h, t), slots[h])
           /\ Used(h, t) < kReplayRingCapacity - 1
<1> DEFINE n == Following(h)
           before == Contents(slots, h, t)
           after == Contents(slots, n, t)
<1>1. n \in Slot /\ n = IF h = kReplayRingCapacity - 1 THEN 0 ELSE h + 1
  BY FollowingSlot
<1>0. /\ h \in Nat /\ h < kReplayRingCapacity /\ t \in Nat /\ t < kReplayRingCapacity
      /\ kReplayRingCapacity \in Nat
      /\ Used(h, t) = IF t <= h THEN h - t ELSE h - t + kReplayRingCapacity
      /\ Used(n, t) = IF t <= n THEN n - t ELSE n - t + kReplayRingCapacity
  <2>1. Used(h, t) = IF t <= h THEN h - t ELSE h - t + kReplayRingCapacity
    BY UsedValue
  <2>2. Used(n, t) = IF t <= n THEN n - t ELSE n - t + kReplayRingCapacity
    <3> HIDE DEF n
    <3> QED
      BY <1>1, UsedValue
  <2> HIDE DEF n
  <2> QED
    BY <2>1, <2>2, RingAssumption DEF Slot
<1>2. /\ Used(n, t) = Used(h, t) + 1 /\ Used(h, t) \in Nat
      /\ Used(h, t) < kReplayRingCapacity - 1
  <2>1. n # t
    OBVIOUS
  <2> HIDE DEF n
  <2> QED
    BY <1>0, <1>1, <2>1
<1>3. SlotAt(t, Used(h, t) + 1) = h
  <2> DEFINE k == Used(h, t) + 1
  <2>1. k \in 1 .. Used(n, t)
    BY <1>2
  <2>2. SlotAt(t, k) = IF t + k - 1 < kReplayRingCapacity
                       THEN t + k - 1 ELSE t + k - 1 - kReplayRingCapacity
    <3> HIDE DEF n, k
    <3> QED
      BY <1>1, <2>1, SlotAtValue
  <2> QED
    BY <1>0, <1>2, <2>2
<1>4. /\ before \in Seq(0 .. MaxOffers) /\ Len(before) = Used(h, t)
      /\ \A k \in 1 .. Used(h, t) : before[k] = slots[SlotAt(t, k)]
  BY ContentsSeq, Zenon
<1>5. /\ after \in Seq(0 .. MaxOffers) /\ Len(after) = Used(h, t) + 1
      /\ \A k \in 1 .. Used(h, t) + 1 : after[k] = slots[SlotAt(t, k)]
  <2>1. /\ after \in Seq(0 .. MaxOffers) /\ Len(after) = Used(n, t)
        /\ \A k \in 1 .. Used(n, t) : after[k] = slots[SlotAt(t, k)]
    BY <1>1, ContentsSeq, Zenon
  <2> QED
    BY <1>2, <2>1
<1>6. slots[h] \in 0 .. MaxOffers
  OBVIOUS
<1> HIDE DEF before, after
<1>7. after = Append(before, slots[h])
  BY <1>2, <1>3, <1>4, <1>5, <1>6
<1> QED
  BY <1>2, <1>7 DEF before, after

\* Releasing the slot at the tail removes the first one.
LEMMA ContentsTail ==
    ASSUME NEW slots \in [Slot -> 0 .. MaxOffers], NEW h \in Slot, NEW t \in Slot, h # t
    PROVE  /\ Contents(slots, h, t) # << >> /\ Head(Contents(slots, h, t)) = slots[t]
           /\ Contents(slots, h, Following(t)) = Tail(Contents(slots, h, t))
<1> DEFINE n == Following(t)
           before == Contents(slots, h, t)
           after == Contents(slots, h, n)
<1>1. n \in Slot /\ n = IF t = kReplayRingCapacity - 1 THEN 0 ELSE t + 1
  BY FollowingSlot
<1>0. /\ h \in Nat /\ h < kReplayRingCapacity /\ t \in Nat /\ t < kReplayRingCapacity
      /\ kReplayRingCapacity \in Nat
      /\ Used(h, t) = IF t <= h THEN h - t ELSE h - t + kReplayRingCapacity
      /\ Used(h, n) = IF n <= h THEN h - n ELSE h - n + kReplayRingCapacity
  <2>1. Used(h, t) = IF t <= h THEN h - t ELSE h - t + kReplayRingCapacity
    BY UsedValue
  <2>2. Used(h, n) = IF n <= h THEN h - n ELSE h - n + kReplayRingCapacity
    <3> HIDE DEF n
    <3> QED
      BY <1>1, UsedValue
  <2> HIDE DEF n
  <2> QED
    BY <2>1, <2>2, RingAssumption DEF Slot
<1>2. /\ Used(h, n) = Used(h, t) - 1 /\ Used(h, t) \in Nat /\ Used(h, t) >= 1
  <2> HIDE DEF n
  <2> QED
    BY <1>0, <1>1
<1>3. SlotAt(t, 1) = t /\ \A k \in 1 .. Used(h, n) : SlotAt(n, k) = SlotAt(t, k + 1)
  <2>1. SlotAt(t, 1) = t
    BY <1>2, SlotAtValue, RingAssumption DEF Slot
  <2>2. ASSUME NEW k \in 1 .. Used(h, n)
        PROVE  SlotAt(n, k) = SlotAt(t, k + 1)
    <3>1. k \in Nat /\ k + 1 \in 1 .. Used(h, t)
      BY <1>2
    <3>2. SlotAt(n, k) = IF n + k - 1 < kReplayRingCapacity
                         THEN n + k - 1 ELSE n + k - 1 - kReplayRingCapacity
      BY <1>1, SlotAtValue
    <3>3. SlotAt(t, k + 1) = IF t + (k + 1) - 1 < kReplayRingCapacity
                             THEN t + (k + 1) - 1 ELSE t + (k + 1) - 1 - kReplayRingCapacity
      BY <3>1, SlotAtValue
    <3>4. k < kReplayRingCapacity - 1
      BY <1>2, <3>1, UsedValue, RingAssumption, SMTT(30) DEF Slot
    <3> QED
      BY <1>1, <3>1, <3>2, <3>3, <3>4, RingAssumption DEF Slot
  <2> QED
    BY <2>1, <2>2
<1>4. /\ before \in Seq(0 .. MaxOffers) /\ Len(before) = Used(h, t)
      /\ \A k \in 1 .. Used(h, t) : before[k] = slots[SlotAt(t, k)]
  BY ContentsSeq
<1>5. /\ after \in Seq(0 .. MaxOffers) /\ Len(after) = Used(h, t) - 1
      /\ \A k \in 1 .. Used(h, t) - 1 : after[k] = slots[SlotAt(n, k)]
  BY <1>1, <1>2, ContentsSeq, ZenonT(30)
<1> HIDE DEF before, after, n
<1>6. before # << >> /\ Head(before) = slots[t]
  BY <1>2, <1>3, <1>4
<1>7. after = Tail(before)
  <2>1. /\ Tail(before) \in Seq(0 .. MaxOffers) /\ Len(Tail(before)) = Used(h, t) - 1
        /\ \A k \in 1 .. Used(h, t) - 1 : Tail(before)[k] = before[k + 1]
    BY <1>2, <1>4, <1>6
  <2>2. \A k \in 1 .. Used(h, t) - 1 : after[k] = before[k + 1]
    BY <1>2, <1>3, <1>4, <1>5
  <2> QED
    BY <1>2, <1>5, <2>1, <2>2
<1> QED
  BY <1>6, <1>7 DEF before, after, n

\* Writing the slot at the head changes none of them.
LEMMA ContentsOther ==
    ASSUME NEW slots \in [Slot -> 0 .. MaxOffers], NEW h \in Slot, NEW t \in Slot, NEW v
    PROVE  Contents([slots EXCEPT ![h] = v], h, t) = Contents(slots, h, t)
<1>1. \A k \in 1 .. Used(h, t) : [slots EXCEPT ![h] = v][SlotAt(t, k)] = slots[SlotAt(t, k)]
  BY SlotAtValue
<1> QED
  BY <1>1 DEF Contents

-----------------------------------------------------------------------------
(* The ring implements the queue: each step is one of the queue or none. *)

\* Only the place in TryPush and the number of events decide what was offered.
LEMMA SameProducer ==
    ASSUME UNCHANGED producerLocal
    PROVE  UNCHANGED offeredBar
  BY DEF producerLocal, offeredBar

\* Only the consumer's place, the count and the sink decide what was reported.
LEMMA SameConsumer ==
    ASSUME UNCHANGED <<dropped, drain, spool>>
    PROVE  UNCHANGED <<droppedBar, spoolBar>>
  BY DEF droppedBar, spoolBar, Fits

\* A step that leaves the slots and the indices leaves the contents of the queue.
LEMMA SameSlots ==
    ASSUME UNCHANGED <<ring, head, tail>>
    PROVE  UNCHANGED queueBar
  BY DEF queueBar, Contents, Used, SlotAt

\* What the queue has counted and delivered, by the consumer's place.
Bars ==
    /\ drain.at \notin {"report", "restore", "emit"} => droppedBar = dropped /\ spoolBar = spool
    /\ drain.at = "report" => /\ droppedBar = dropped
                              /\ spoolBar = Append(spool, DropCount(drain.n))
    /\ drain.at = "restore" => droppedBar = dropped + drain.n /\ spoolBar = spool
    /\ drain.at = "emit" /\ Fits(drain.n) =>
           droppedBar = dropped /\ spoolBar = Append(spool, Frame(drain.n))
    /\ drain.at = "emit" /\ ~Fits(drain.n) => droppedBar = dropped + 1 /\ spoolBar = spool

\* The mapped variables follow from the types, before a step.
LEMMA BarsBefore ==
    ASSUME TypeOK
    PROVE  Bars
<1>1. dropped \in Nat
  BY DEF TypeOK
<1> QED
  BY <1>1 DEF Bars, droppedBar, spoolBar

\* The same after a step.
LEMMA BarsAfter ==
    ASSUME TypeOK'
    PROVE  Bars'
<1>1. dropped' \in Nat
  BY DEF TypeOK
<1> QED
  BY <1>1 DEF Bars, droppedBar, spoolBar

\* The input thread: an event is kept when it is published and lost when it is
\* counted.
LEMMA ProducerImplements ==
    ASSUME RingInv, Producer
    PROVE  Queue!Next \/ UNCHANGED Queue!queueVars
<1>1. TypeOK /\ ProducerInv
  BY DEF RingInv
<1>2. UNCHANGED drain /\ UNCHANGED spool
  BY DEF Producer, TryPush, CheckFull, CountDrop, WriteSlot, Publish, consumerLocal
<1>3. CASE TryPush
  <2>1. UNCHANGED offeredBar
    BY <1>1, <1>3 DEF TryPush, TypeOK, offeredBar
  <2>2. UNCHANGED <<ring, head, tail, dropped>>
    BY <1>3 DEF TryPush
  <2> QED
    BY <1>2, <2>1, <2>2, SameConsumer, SameSlots DEF Queue!queueVars
<1>4. CASE CheckFull
  <2>1. UNCHANGED <<ring, head, tail, dropped>>
    BY <1>4 DEF CheckFull
  <2>2. UNCHANGED offeredBar
    BY <1>1, <1>4 DEF CheckFull, TypeOK, offeredBar
  <2> QED
    BY <1>2, <2>1, <2>2, SameConsumer, SameSlots DEF Queue!queueVars
<1>5. CASE WriteSlot
  <2>1. UNCHANGED offeredBar
    BY <1>1, <1>5 DEF WriteSlot, TypeOK, offeredBar
  <2>2. UNCHANGED queueBar
    BY <1>1, <1>5, ContentsOther, ZenonT(30) DEF WriteSlot, TypeOK, queueBar
  <2> QED
    BY <1>2, <1>5, <2>1, <2>2, SameConsumer DEF WriteSlot, Queue!queueVars
<1>6. CASE CountDrop
  <2>1. offeredBar' = offeredBar + 1 /\ offeredBar < MaxOffers
    <3>1. push.at = "lose" /\ push'.at = "idle" /\ offered' = offered /\ offered \in Nat
      BY <1>1, <1>6, RingAssumption DEF CountDrop, TypeOK
    <3> QED
      BY <1>1, <3>1, RingAssumption DEF TypeOK, ProducerInv, offeredBar
  <2>2. UNCHANGED queueBar
    BY <1>6, SameSlots DEF CountDrop
  <2>3. droppedBar' = droppedBar + 1 /\ UNCHANGED spoolBar
    <3> DEFINE held == CASE drain.at = "restore" -> drain.n
                         [] drain.at = "emit" /\ ~Fits(drain.n) -> 1
                         [] OTHER -> 0
    <3>1. held \in Nat /\ dropped \in Nat
      BY <1>1 DEF TypeOK
    <3>2. droppedBar = dropped + held /\ droppedBar' = (dropped + 1) + held
      BY <1>2, <1>6 DEF CountDrop, droppedBar, Fits
    <3>3. UNCHANGED spoolBar
      BY <1>2 DEF spoolBar, Fits
    <3> HIDE DEF held
    <3> QED
      BY <3>1, <3>2, <3>3
  <2> QED
    BY <2>1, <2>2, <2>3 DEF Queue!Next, Queue!Lose
<1>7. CASE Publish
  <2>1. offeredBar' = offeredBar + 1 /\ offeredBar' = push.n /\ offeredBar < MaxOffers
    <3>1. push.at = "publish" /\ push'.at = "idle" /\ offered' = offered /\ offered \in Nat
      BY <1>1, <1>7, RingAssumption DEF Publish, TypeOK
    <3> QED
      BY <1>1, <3>1, RingAssumption DEF TypeOK, ProducerInv, offeredBar
  <2>2. /\ queueBar' = Append(queueBar, push.n)
        /\ Len(queueBar) < kReplayRingCapacity - 1
    BY <1>1, <1>7, ContentsAppend, ContentsSeq, SMTT(30) DEF Publish, TypeOK, ProducerInv, queueBar
  <2>3. UNCHANGED <<droppedBar, spoolBar>>
    BY <1>2, <1>7, SameConsumer DEF Publish
  <2> QED
    BY <2>1, <2>2, <2>3 DEF Queue!Next, Queue!Keep
<1> QED
  BY <1>3, <1>4, <1>5, <1>6, <1>7 DEF Producer

\* The background thread: a count is reported when the exchange takes it, and a
\* frame is delivered, or discarded, when its slot is released.
LEMMA ConsumerImplements ==
    ASSUME RingInv, RingInv', Consumer
    PROVE  Queue!Next \/ UNCHANGED Queue!queueVars
<1>1. TypeOK /\ ConsumerInv /\ Bars /\ Bars' /\ dropped \in Nat /\ drain.n \in Nat
  BY BarsBefore, BarsAfter DEF RingInv, TypeOK
<1>2. UNCHANGED offeredBar
  <2>1. UNCHANGED producerLocal
    BY DEF Consumer, DrainJson, ReportDrops, RestoreDrops, TryPop, CopySlot, Release, Emit,
           producerLocal
  <2> QED
    BY <2>1, SameProducer
<1>3. ASSUME NEW fits \in BOOLEAN, DrainJson(fits)
      PROVE  Queue!Next \/ UNCHANGED Queue!queueVars
  <2>1. UNCHANGED queueBar
    BY <1>3, SameSlots DEF DrainJson
  <2>2. droppedBar = dropped /\ spoolBar = spool /\ spool' = spool /\ dropped' = 0
    BY <1>1, <1>3 DEF DrainJson, Bars
  <2>3. CASE dropped = 0
    <3>1. drain'.at = "pop"
      BY <1>3, <2>3 DEF DrainJson
    <3>2. droppedBar' = dropped' /\ spoolBar' = spool'
      BY <1>1, <3>1 DEF Bars
    <3> QED
      BY <1>2, <2>1, <2>2, <2>3, <3>2 DEF Queue!queueVars
  <2>4. CASE dropped # 0 /\ fits
    <3>1. drain'.at = "report" /\ drain'.n = dropped
      BY <1>3, <2>4 DEF DrainJson
    <3>2. droppedBar' = 0 /\ spoolBar' = Append(spool, DropCount(dropped))
      BY <1>1, <2>2, <3>1 DEF Bars, DropCount
    <3> QED
      BY <1>2, <2>1, <2>2, <2>4, <3>2
      DEF Queue!Next, Queue!ReportDrops, Queue!DropCount, DropCount
  <2>5. CASE dropped # 0 /\ ~fits
    <3>1. drain'.at = "restore" /\ drain'.n = dropped
      BY <1>3, <2>5 DEF DrainJson
    <3>2. droppedBar' = dropped /\ spoolBar' = spool
      BY <1>1, <2>2, <3>1 DEF Bars
    <3> QED
      BY <1>2, <2>1, <2>2, <3>2 DEF Queue!queueVars
  <2> QED
    BY <2>3, <2>4, <2>5
<1>4. CASE ReportDrops
  <2>1. drain.at = "report" /\ drain'.at = "idle"
    BY <1>1, <1>4, DrainMoved, Zenon DEF ReportDrops, Place
  <2>2. UNCHANGED <<droppedBar, spoolBar, queueBar>>
    BY <1>1, <1>4, <2>1, SameSlots DEF ReportDrops, Bars
  <2> QED
    BY <1>2, <2>2 DEF Queue!queueVars
<1>5. CASE RestoreDrops
  <2>1. drain.at = "restore" /\ drain'.at = "idle"
    BY <1>1, <1>5, DrainMoved, Zenon DEF RestoreDrops, Place
  <2>2. UNCHANGED <<droppedBar, spoolBar, queueBar>>
    BY <1>1, <1>5, <2>1, SameSlots DEF RestoreDrops, Bars
  <2> QED
    BY <1>2, <2>2 DEF Queue!queueVars
<1>6. CASE TryPop
  <2>1. drain.at = "pop" /\ drain'.at \in {"idle", "copy"}
    BY <1>1, <1>6, DrainMoved, Zenon DEF TryPop, Place
  <2>2. UNCHANGED <<droppedBar, spoolBar, queueBar>>
    BY <1>1, <1>6, <2>1, SameSlots DEF TryPop, Bars
  <2> QED
    BY <1>2, <2>2 DEF Queue!queueVars
<1>7. CASE CopySlot
  <2>1. drain.at = "copy" /\ drain'.at = "release"
    BY <1>1, <1>7 DEF CopySlot, TypeOK
  <2>2. UNCHANGED <<droppedBar, spoolBar, queueBar>>
    BY <1>1, <1>7, <2>1, SameSlots DEF CopySlot, Bars
  <2> QED
    BY <1>2, <2>2 DEF Queue!queueVars
<1>8. CASE Release
  <2>1. /\ drain.at = "release" /\ drain'.at = "emit" /\ drain'.n = drain.n
        /\ tail' = Following(tail) /\ UNCHANGED <<ring, head, dropped, spool>>
    BY <1>1, <1>8 DEF Release, TypeOK
  <2>2. /\ queueBar # << >> /\ Head(queueBar) = drain.n
        /\ queueBar' = Tail(queueBar)
    BY <1>1, <2>1, ContentsTail DEF TypeOK, ConsumerInv, queueBar
  <2>3. droppedBar = dropped /\ spoolBar = spool
    BY <1>1, <2>1 DEF Bars
  <2>4. CASE Fits(drain.n)'
    <3>1. droppedBar' = droppedBar /\ spoolBar' = Append(spoolBar, Frame(drain.n))
      BY <1>1, <2>1, <2>3, <2>4 DEF Bars, Frame
    <3> QED
      BY <1>2, <2>2, <3>1 DEF Queue!Next, Queue!Deliver, Queue!Frame, Frame
  <2>5. CASE ~Fits(drain.n)'
    <3>1. droppedBar' = droppedBar + 1 /\ spoolBar' = spoolBar
      BY <1>1, <2>1, <2>3, <2>5 DEF Bars
    <3> QED
      BY <1>2, <2>2, <3>1 DEF Queue!Next, Queue!Discard
  <2> QED
    BY <2>4, <2>5
<1>9. CASE Emit
  <2>1. drain.at = "emit" /\ drain'.at \in {"idle", "pop"}
    BY <1>1, <1>9, DrainMoved, Zenon DEF Emit, Place
  <2>2. droppedBar' = dropped' /\ spoolBar' = spool'
    BY <1>1, <2>1 DEF Bars
  <2>3. UNCHANGED <<droppedBar, spoolBar>>
    BY <1>1, <1>9, <2>1, <2>2 DEF Emit, Bars
  <2>4. UNCHANGED queueBar
    BY <1>9, SameSlots DEF Emit
  <2> QED
    BY <1>2, <2>3, <2>4 DEF Queue!queueVars
<1> QED
  BY <1>3, <1>4, <1>5, <1>6, <1>7, <1>8, <1>9 DEF Consumer

\* The unlocked ring is the bounded queue: frames reach the sink in the order in
\* which they were offered, each at most once, and every other one is in a count
\* that is reported once.
THEOREM RingImplementsQueue == Spec => ImplementsQueue
<1>1. Init => Queue!Init
  <2> SUFFICES ASSUME Init
               PROVE  Queue!Init
    OBVIOUS
  <2>1. RingInv
    BY RingInvInit
  <2>2. Used(head, tail) = 0
    BY <2>1, UsedValue DEF Init, RingInv, TypeOK
  <2>3. queueBar = << >>
    BY <2>1, <2>2, ContentsSeq DEF RingInv, TypeOK, queueBar
  <2>4. droppedBar = 0 /\ spoolBar = << >>
    BY <2>1, BarsBefore DEF Init, RingInv, Bars
  <2>5. offeredBar = 0
    <3>1. push.at = "idle" /\ offered = 0
      BY DEF Init
    <3> QED
      BY <3>1 DEF offeredBar
  <2> QED
    BY <2>3, <2>4, <2>5 DEF Queue!Init
<1>2. RingInv /\ RingInv' /\ [Next]_vars => [Queue!Next]_(Queue!queueVars)
  <2> SUFFICES ASSUME RingInv, RingInv', [Next]_vars
               PROVE  Queue!Next \/ UNCHANGED Queue!queueVars
    OBVIOUS
  <2>1. CASE (\E on \in BOOLEAN : SetEnabled(on)) \/ UNCHANGED vars
    <3>1. UNCHANGED <<ring, head, tail, dropped, push, drain, offered, spool>>
      BY <2>1 DEF SetEnabled, vars
    <3> QED
      BY <3>1, SameProducer, SameConsumer, SameSlots DEF Queue!queueVars, producerLocal
  <2> QED
    BY <2>1, ProducerImplements, ConsumerImplements DEF Next
<1> QED
  BY <1>1, <1>2, RingInvariant, PTL DEF Spec, ImplementsQueue, Queue!Spec
=============================================================================
