---------------------------- MODULE NativeQueue ----------------------------
(***************************************************************************)
(* What the native replay producer promises (librime-yunpin,               *)
(* replay_native.cpp): a bounded queue of frames between the input thread  *)
(* and the background sink.  A frame that is not kept is counted, and the  *)
(* count reaches the sink as a drop_count frame.  ReplayRing implements it.*)
(***************************************************************************)
EXTENDS Integers, Sequences

CONSTANTS
    Slots,      \* frames that the queue holds
    MaxOffers   \* bound: frames are numbered as they are offered

VARIABLES
    offered,   \* frames offered while capture is enabled
    queue,     \* frames that wait for the sink
    dropped,   \* frames lost and not yet reported
    spool      \* what the sink received: frames and drop_count frames

queueVars == <<offered, queue, dropped, spool>>

Frame(n) == [kind |-> "frame", n |-> n]
DropCount(n) == [kind |-> "drop_count", n |-> n]

Init == offered = 0 /\ queue = << >> /\ dropped = 0 /\ spool = << >>

Keep ==
    /\ Len(queue) < Slots
    /\ offered' = offered + 1
    /\ queue' = Append(queue, offered')
    /\ UNCHANGED <<dropped, spool>>

Lose ==
    /\ offered' = offered + 1
    /\ dropped' = dropped + 1
    /\ UNCHANGED <<queue, spool>>

ReportDrops ==
    /\ dropped # 0
    /\ spool' = Append(spool, DropCount(dropped))
    /\ dropped' = 0
    /\ UNCHANGED <<offered, queue>>

Deliver ==
    /\ queue # << >>
    /\ spool' = Append(spool, Frame(Head(queue)))
    /\ queue' = Tail(queue)
    /\ UNCHANGED <<offered, dropped>>

\* The frame does not fit in the sink's buffer.
Discard ==
    /\ queue # << >>
    /\ queue' = Tail(queue)
    /\ dropped' = dropped + 1
    /\ UNCHANGED <<offered, spool>>

Next == (offered < MaxOffers /\ (Keep \/ Lose)) \/ ReportDrops \/ Deliver \/ Discard

Spec == Init /\ [][Next]_queueVars
=============================================================================
