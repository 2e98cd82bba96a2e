-------------------------- MODULE MCRelayAccounts --------------------------
(* An instance of RelayAccounts in which pairing, revocation and keyrings meet. *)
EXTENDS RelayAccounts, TLC

\* Identifiers are drawn in any order and clients differ only by name.
Interchangeable ==
    Permutations(Device) \cup Permutations(Pairing) \cup Permutations(Client)
        \cup Permutations(Request) \cup Permutations(Box)
=============================================================================
