---------------------------- MODULE MCRelaySync ----------------------------
(* A device that sends up to two of its envelopes at once, a device of the same *)
(* account that only reads, and a device of another account.  Each writer has   *)
(* two chains to choose from, of different record sizes.                        *)
EXTENDS RelaySync, TLC

CONSTANTS d1, d2, d3

MCAccounts == (d1 :> "a1" @@ d2 :> "a1" @@ d3 :> "a2")
MCSeq == (d1 :> 2 @@ d2 :> 0 @@ d3 :> 1)
MCSize == ("x" :> <<1, 1>> @@ "y" :> <<2, 1>>)
=============================================================================
