-------------------------- MODULE MCPhraseReplica --------------------------
(* Two devices and one phrase; counters, clocks and generations roll over. *)
EXTENDS PhraseReplica

=============================================================================
