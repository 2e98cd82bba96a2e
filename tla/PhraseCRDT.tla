----------------------------- MODULE PhraseCRDT -----------------------------
(***************************************************************************)
(* The replicated phrase state of protocol/crdt.go and the payload merge   *)
(* of localstore/crdt_adapter.go, as pure operators.                       *)
(*                                                                         *)
(* A device identifier is 32 lowercase hexadecimal characters; only its    *)
(* order and its equality are ever used, so a device is a natural number.  *)
(* A Go map of counters reads 0 for a missing key and the code never       *)
(* stores a 0, so the map is the total function that is 0 where the key is *)
(* missing.                                                                *)
(***************************************************************************)
EXTENDS Naturals

CONSTANTS
    Device,       \* the device identifiers of one account
    CounterMax,   \* math.MaxUint32, the largest HLC counter
    Source        \* the Source strings, ordered as numbers; 0 is ""

ASSUME DeviceAssumption == Device \subseteq Nat
ASSUME CounterMaxAssumption == CounterMax \in Nat
ASSUME SourceAssumption == Source \subseteq Nat

HLC == [wall : Nat, counter : 0 .. CounterMax, node : Device]

LWWBool == [value : BOOLEAN, clock : HLC]

Presence == [present : BOOLEAN, clock : HLC, generation : Nat]

PhraseState == [counts : [Device -> Nat], pinned : LWWBool, presence : Presence]

Payload == [source : Source, lastUsedDay : Nat, state : PhraseState]

SettingState == [value : Nat, clock : HLC]

\* Two stamps compared as HLC.Compare does, without and with the node.
StampLess(a, b) ==
    \/ a.wall < b.wall
    \/ a.wall = b.wall /\ a.counter < b.counter

HLCLess(a, b) ==
    \/ StampLess(a, b)
    \/ a.wall = b.wall /\ a.counter = b.counter /\ a.node < b.node

\* Last writer wins; on equal clocks TRUE wins.
chooseBool(left, right) ==
    IF HLCLess(left.clock, right.clock) THEN right
    ELSE IF HLCLess(right.clock, left.clock) THEN left
    ELSE IF right.value THEN right ELSE left

\* The higher explicit-add generation wins, then a removal, then the clock.
choosePresence(left, right) ==
    IF left.generation # right.generation
    THEN IF left.generation < right.generation THEN right ELSE left
    ELSE IF left.present # right.present
         THEN IF right.present THEN left ELSE right
         ELSE IF HLCLess(left.clock, right.clock) THEN right ELSE left

MergeCounts(left, right) ==
    [d \in Device |-> IF right[d] > left[d] THEN right[d] ELSE left[d]]

MergePhrase(left, right) ==
    [counts   |-> MergeCounts(left.counts, right.counts),
     pinned   |-> chooseBool(left.pinned, right.pinned),
     presence |-> choosePresence(left.presence, right.presence)]

\* The smaller of two strings, where the empty string gives way.  Text and
\* Pinyin of a payload are merged by the same rule as its Source.
chooseStableString(left, right) ==
    IF left = 0 THEN right
    ELSE IF right = 0 \/ left <= right THEN left ELSE right

MergePhrasePayload(left, right) ==
    [source      |-> chooseStableString(left.source, right.source),
     lastUsedDay |-> IF right.lastUsedDay > left.lastUsedDay
                     THEN right.lastUsedDay ELSE left.lastUsedDay,
     state       |-> MergePhrase(left.state, right.state)]

\* HLC last-writer-wins, the larger value on equal clocks.
MergeSetting(left, right) ==
    IF HLCLess(left.clock, right.clock) THEN right
    ELSE IF HLCLess(right.clock, left.clock) THEN left
    ELSE IF left.value < right.value THEN right ELSE left

\* The later of a state's two clocks, as MergeRemotePayload computes it.
latestClock(state) ==
    IF HLCLess(state.pinned.clock, state.presence.clock)
    THEN state.presence.clock ELSE state.pinned.clock
=============================================================================
