------------------------------ MODULE MCShared ------------------------------
(* A `sync-once` process, which takes no lock, beside the `run` process of the *)
(* same device.                                                                *)
EXTENDS SyncSystem, TLC

CONSTANTS d1, r1, s1

MCHome == (r1 :> d1 @@ s1 :> d1)
MCTwo == [d \in {d1} |-> 2]
MCThree == [d \in {d1} |-> 3]
MCTrusted == [d \in Device |-> Device]
=============================================================================
