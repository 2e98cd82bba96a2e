------------------------------- MODULE MCSync -------------------------------
(* Two devices with one `run` process each; no other writer of a store.  The  *)
(* second device lacks the verification key of the first.                  *)
EXTENDS SyncSystem, TLC

CONSTANTS d1, d2, w1, w2

MCDevice == {d1, d2}
MCHome == (w1 :> d1 @@ w2 :> d2)
MCMutations == (d1 :> 2 @@ d2 :> 1)
MCTrusted == (d1 :> MCDevice @@ d2 :> {d2})
=============================================================================
