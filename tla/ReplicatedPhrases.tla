------------------------- MODULE ReplicatedPhrases -------------------------
(***************************************************************************)
(* What synchronisation promises of each phrase, without stores, staging,  *)
(* cursors or a relay log: a device's copy only grows, by its own          *)
(* mutations and by what some device published, and a device publishes     *)
(* only what it knows.                                                     *)
(***************************************************************************)
CONSTANTS Device, Object, Mutation

VARIABLES
    known,   \* known[d][o]: the mutations in d's copy of o
    shared   \* shared[o]: the mutations published for o

Init ==
    /\ known = [d \in Device |-> [o \in Object |-> {}]]
    /\ shared = [o \in Object |-> {}]

Mutate(d, o, m) ==
    /\ \A e \in Device, p \in Object : m \notin known[e][p]
    /\ known' = [known EXCEPT ![d][o] = @ \cup {m}]
    /\ UNCHANGED shared

Publish(d, o) ==
    /\ \E S \in SUBSET known[d][o] : shared' = [shared EXCEPT ![o] = @ \cup S]
    /\ UNCHANGED known

Merge(d, o) ==
    /\ \E S \in SUBSET shared[o] : known' = [known EXCEPT ![d][o] = @ \cup S]
    /\ UNCHANGED shared

Next ==
    \E d \in Device, o \in Object :
        \/ \E m \in Mutation : Mutate(d, o, m)
        \/ Publish(d, o)
        \/ Merge(d, o)

Spec == Init /\ [][Next]_<<known, shared>>
=============================================================================
