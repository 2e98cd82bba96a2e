----------------------------- MODULE ReplayRing -----------------------------
(***************************************************************************)
(* ReplayNativeProducer (librime-yunpin, replay_native.cpp): a ring with   *)
(* one producer, the input thread (TryPush), and one consumer, the         *)
(* background sink (DrainJson), without a lock.  Every access to an atomic *)
(* is a step, and so is every copy of a slot.  head_ and tail_ are stored  *)
(* with release and loaded with acquire by the other thread, so the slots  *)
(* are seen as these stores order them and interleaving is enough.         *)
(***************************************************************************)
EXTENDS Integers, Sequences

CONSTANTS
    kReplayRingCapacity,  \* slots; one of them always stays empty
    MaxOffers,            \* bound: events are numbered as they are offered
    Invalid,              \* events that IsValidEvent refuses
    Large                 \* events whose JSON exceeds a small buffer

ASSUME RingAssumption ==
    /\ kReplayRingCapacity \in Nat /\ kReplayRingCapacity > 1
    /\ MaxOffers \in Nat
    /\ Invalid \subseteq 1 .. MaxOffers /\ Large \subseteq 1 .. MaxOffers

VARIABLES
    ring, head, tail,     \* ring_, head_ and tail_
    dropped, enabled,     \* dropped_ and enabled_
    push,                 \* push.at: the producer's place in TryPush; push.n: its event
    drain,                \* drain.at: the consumer's place in DrainJson; what it holds
    offered, spool        \* events offered while enabled; what the sink received

vars == <<ring, head, tail, dropped, enabled, push, drain, offered, spool>>
producerLocal == <<push, offered>>
consumerLocal == <<drain, spool>>

Slot == 0 .. kReplayRingCapacity - 1
Following(i) == (i + 1) % kReplayRingCapacity

Frame(n) == [kind |-> "frame", n |-> n]
DropCount(n) == [kind |-> "drop_count", n |-> n]

Init ==
    /\ ring = [i \in Slot |-> 0] /\ head = 0 /\ tail = 0
    /\ dropped = 0 /\ enabled = FALSE
    /\ push = [at |-> "idle", n |-> 0]
    /\ drain = [at |-> "idle", fits |-> TRUE, n |-> 0]
    /\ offered = 0 /\ spool = << >>

-----------------------------------------------------------------------------
SetEnabled(on) ==
    /\ enabled' = on
    /\ UNCHANGED <<ring, head, tail, dropped, push, drain, offered, spool>>

(* TryPush, on the input thread. *)

TryPush ==
    /\ push.at = "idle" /\ enabled /\ offered < MaxOffers
    /\ offered' = offered + 1
    /\ push' = [at |-> IF offered' \in Invalid THEN "lose" ELSE "check", n |-> offered']
    /\ UNCHANGED <<ring, head, tail, dropped, enabled, drain, spool>>

CheckFull_Never ==
    /\ push.at = "check"
    /\ push' = [push EXCEPT !.at = "write"]
    /\ UNCHANGED <<ring, head, tail, dropped, enabled, consumerLocal, offered>>

CheckFull ==
    /\ push.at = "check"
    /\ push' = [push EXCEPT !.at = IF Following(head) = tail THEN "lose" ELSE "write"]
    /\ UNCHANGED <<ring, head, tail, dropped, enabled, consumerLocal, offered>>

CountDrop ==
    /\ push.at = "lose"
    /\ dropped' = dropped + 1
    /\ push' = [push EXCEPT !.at = "idle"]
    /\ UNCHANGED <<ring, head, tail, enabled, consumerLocal, offered>>

WriteSlot ==
    /\ push.at = "write"
    /\ ring' = [ring EXCEPT ![head] = push.n]
    /\ push' = [push EXCEPT !.at = "publish"]
    /\ UNCHANGED <<head, tail, dropped, enabled, consumerLocal, offered>>

Publish ==
    /\ push.at = "publish"
    /\ head' = Following(head)
    /\ push' = [push EXCEPT !.at = "idle"]
    /\ UNCHANGED <<ring, tail, dropped, enabled, consumerLocal, offered>>

-----------------------------------------------------------------------------
(* DrainJson, on the background thread; fits: whether a large frame fits in *)
(* its buffer.                                                              *)

DrainJson_NoReset(fits) ==
    /\ drain.at = "idle"
    /\ drain' = [at |-> IF dropped = 0 THEN "pop" ELSE "report", fits |-> fits, n |-> dropped]
    /\ UNCHANGED <<ring, head, tail, dropped, enabled, spool, producerLocal>>

\* dropped_.exchange(0).
DrainJson(fits) ==
    /\ drain.at = "idle"
    /\ drain' = [at |-> IF dropped = 0 THEN "pop" ELSE IF fits THEN "report" ELSE "restore",
                 fits |-> fits, n |-> dropped]
    /\ dropped' = 0
    /\ UNCHANGED <<ring, head, tail, enabled, spool, producerLocal>>

ReportDrops ==
    /\ drain.at = "report"
    /\ spool' = Append(spool, DropCount(drain.n))
    /\ drain' = [drain EXCEPT !.at = "idle", !.n = 0]
    /\ UNCHANGED <<ring, head, tail, dropped, enabled, producerLocal>>

RestoreDrops ==
    /\ drain.at = "restore"
    /\ dropped' = dropped + drain.n
    /\ drain' = [drain EXCEPT !.at = "idle", !.n = 0]
    /\ UNCHANGED <<ring, head, tail, enabled, spool, producerLocal>>

TryPop_Wait ==
    /\ drain.at = "pop"
    /\ drain' = [drain EXCEPT !.at = IF tail = head THEN "pop" ELSE "copy", !.n = 0]
    /\ UNCHANGED <<ring, head, tail, dropped, enabled, spool, producerLocal>>

\* TryPop: an empty ring ends the call.
TryPop ==
    /\ drain.at = "pop"
    /\ drain' = [drain EXCEPT !.at = IF tail = head THEN "idle" ELSE "copy", !.n = 0]
    /\ UNCHANGED <<ring, head, tail, dropped, enabled, spool, producerLocal>>

CopySlot ==
    /\ drain.at = "copy"
    /\ drain' = [drain EXCEPT !.at = "release", !.n = ring[tail]]
    /\ UNCHANGED <<ring, head, tail, dropped, enabled, spool, producerLocal>>

Release ==
    /\ drain.at = "release"
    /\ tail' = Following(tail)
    /\ drain' = [drain EXCEPT !.at = "emit"]
    /\ UNCHANGED <<ring, head, dropped, enabled, spool, producerLocal>>

Fits(n) == drain.fits \/ n \notin Large

\* A frame that fits is returned; one that does not is counted, and the call
\* goes on with the next one.
Emit ==
    /\ drain.at = "emit"
    /\ IF Fits(drain.n)
       THEN /\ spool' = Append(spool, Frame(drain.n))
            /\ drain' = [drain EXCEPT !.at = "idle", !.n = 0]
            /\ UNCHANGED dropped
       ELSE /\ dropped' = dropped + 1
            /\ drain' = [drain EXCEPT !.at = "pop", !.n = 0]
            /\ UNCHANGED spool
    /\ UNCHANGED <<ring, head, tail, enabled, producerLocal>>

Producer == TryPush \/ CheckFull \/ CountDrop \/ WriteSlot \/ Publish
Consumer ==
    \/ \E fits \in BOOLEAN : DrainJson(fits)
    \/ ReportDrops \/ RestoreDrops \/ TryPop \/ CopySlot \/ Release \/ Emit

Next == (\E on \in BOOLEAN : SetEnabled(on)) \/ Producer \/ Consumer

Spec == Init /\ [][Next]_vars

\* Both threads run, and the sink drains with a buffer of the documented size
\* again and again.
Fairness == WF_vars(Producer) /\ WF_vars(Consumer) /\ SF_vars(DrainJson(TRUE))

FairSpec == Spec /\ Fairness

-----------------------------------------------------------------------------
\* The slot that the producer writes is never the one that the consumer copies,
\* so the unlocked copies of events do not race, and publishing it never makes a
\* full ring look empty.
NoSlotRace ==
    push.at \in {"write", "publish"} =>
        /\ Following(head) # tail
        /\ drain.at \in {"copy", "release"} => head # tail

\* The slots from tail t up to head h, and what they hold.
Used(h, t) == (h - t + kReplayRingCapacity) % kReplayRingCapacity
SlotAt(t, k) == (t + k - 1) % kReplayRingCapacity
Contents(slots, h, t) == [k \in 1 .. Used(h, t) |-> slots[SlotAt(t, k)]]

\* The ring is a bounded queue: frames reach the sink in the order in which
\* they were offered and with their own contents, each at most once, and each
\* one that does not is in a count that is reported once.
queueBar == Contents(ring, head, tail)
offeredBar == offered - IF push.at = "idle" THEN 0 ELSE 1
droppedBar ==
    dropped + CASE drain.at = "restore" -> drain.n
                [] drain.at = "emit" /\ ~Fits(drain.n) -> 1
                [] OTHER -> 0
spoolBar ==
    CASE drain.at = "report" -> Append(spool, DropCount(drain.n))
      [] drain.at = "emit" /\ Fits(drain.n) -> Append(spool, Frame(drain.n))
      [] OTHER -> spool

Queue == INSTANCE NativeQueue WITH
            Slots <- kReplayRingCapacity - 1, offered <- offeredBar, queue <- queueBar,
            dropped <- droppedBar, spool <- spoolBar

ImplementsQueue == Queue!Spec

Accounted ==
    LET sum[k \in 0 .. Len(spool)] ==
            IF k = 0 THEN 0
            ELSE sum[k - 1] + IF spool[k].kind = "frame" THEN 1 ELSE spool[k].n
    IN  sum[Len(spool)]

\* Every event offered reaches the sink, or is in a drop_count that does.
EveryEventReported == \A n \in 1 .. MaxOffers : offered >= n ~> Accounted >= n
=============================================================================
