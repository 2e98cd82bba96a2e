------------------------ MODULE PhraseReplicaProofs ------------------------
(***************************************************************************)
(* The claim of protocol/crdt.go:95, that MergePhrase is associative,      *)
(* commutative and idempotent, for every set of devices and all clocks,    *)
(* counters and generations; and the same of the two merges built like it. *)
(*                                                                         *)
(* On that rests the store: its hybrid clock dominates its rows, every     *)
(* write of a row moves it up in the merge order, a clock names one write, *)
(* and a row is the join of the payloads that it has seen, so that a       *)
(* removal wins and a pin is lost only to a later creation: for any number *)
(* of devices, objects and operations, any wall clocks, and any order,     *)
(* loss and duplication of the payloads that are merged.                   *)
(***************************************************************************)
EXTENDS PhraseReplica, Integers, TLAPS

-----------------------------------------------------------------------------
(* The merges. *)

\* The three fields of a clock are integers.
LEMMA HLCTypes ==
    ASSUME NEW a \in HLC
    PROVE  a.wall \in Int /\ a.counter \in Int /\ a.node \in Int
<1>1. a.wall \in Int
  BY DEF HLC
<1>2. a.counter \in Int
  BY CounterMaxAssumption DEF HLC
<1>3. a.node \in Device
  BY DEF HLC
<1>4. \A d \in Device : d \in Int
  BY DeviceAssumption
<1> QED
  BY <1>1, <1>2, <1>3, <1>4

\* HLC.Compare is a strict total order: two clocks that differ are ordered
\* one way, and the order is transitive.
LEMMA HLCTotal ==
    ASSUME NEW a \in HLC, NEW b \in HLC
    PROVE  /\ HLCLess(a, b) \/ HLCLess(b, a) \/ a = b
           /\ ~(HLCLess(a, b) /\ HLCLess(b, a))
           /\ ~HLCLess(a, a)
<1>1. /\ a.wall \in Int /\ a.counter \in Int /\ a.node \in Int
      /\ b.wall \in Int /\ b.counter \in Int /\ b.node \in Int
  BY HLCTypes
<1>2. a.wall = b.wall /\ a.counter = b.counter /\ a.node = b.node => a = b
  BY DEF HLC
<1> QED
  BY <1>1, <1>2 DEF HLCLess, StampLess

\* HLC.Compare orders clocks transitively: wall time, counter, node.
LEMMA HLCTransitive ==
    ASSUME NEW a \in HLC, NEW b \in HLC, NEW c \in HLC,
           HLCLess(a, b), HLCLess(b, c)
    PROVE  HLCLess(a, c)
<1>1. /\ a.wall \in Int /\ a.counter \in Int /\ a.node \in Int
      /\ b.wall \in Int /\ b.counter \in Int /\ b.node \in Int
      /\ c.wall \in Int /\ c.counter \in Int /\ c.node \in Int
  BY HLCTypes
<1> QED
  BY <1>1 DEF HLCLess, StampLess

\* chooseBool of protocol/crdt.go:56 is a join.
LEMMA ChooseBoolJoin ==
    ASSUME NEW a \in LWWBool, NEW b \in LWWBool, NEW c \in LWWBool
    PROVE  /\ chooseBool(a, b) \in LWWBool
           /\ chooseBool(a, a) = a
           /\ chooseBool(a, b) = chooseBool(b, a)
           /\ chooseBool(chooseBool(a, b), c) = chooseBool(a, chooseBool(b, c))
<1>1. /\ a.clock \in HLC /\ b.clock \in HLC /\ c.clock \in HLC
      /\ a.value \in BOOLEAN /\ b.value \in BOOLEAN /\ c.value \in BOOLEAN
  BY DEF LWWBool
<1>2. \A x, y \in HLC : /\ HLCLess(x, y) \/ HLCLess(y, x) \/ x = y
                        /\ ~(HLCLess(x, y) /\ HLCLess(y, x))
                        /\ ~HLCLess(x, x)
  BY HLCTotal
<1>3. \A x, y, z \in HLC : HLCLess(x, y) /\ HLCLess(y, z) => HLCLess(x, z)
  BY HLCTransitive
<1>4. \A x, y \in LWWBool : x.clock = y.clock /\ x.value = y.value => x = y
  BY DEF LWWBool
<1> QED
  BY <1>1, <1>2, <1>3, <1>4 DEF chooseBool

\* choosePresence of protocol/crdt.go:70 is a join.
LEMMA ChoosePresenceJoin ==
    ASSUME NEW a \in Presence, NEW b \in Presence, NEW c \in Presence
    PROVE  /\ choosePresence(a, b) \in Presence
           /\ choosePresence(a, a) = a
           /\ choosePresence(a, b) = choosePresence(b, a)
           /\ choosePresence(choosePresence(a, b), c)
                = choosePresence(a, choosePresence(b, c))
<1>1. /\ a.clock \in HLC /\ b.clock \in HLC /\ c.clock \in HLC
      /\ a.present \in BOOLEAN /\ b.present \in BOOLEAN /\ c.present \in BOOLEAN
      /\ a.generation \in Nat /\ b.generation \in Nat /\ c.generation \in Nat
  BY DEF Presence
<1>2. \A x, y \in HLC : /\ HLCLess(x, y) \/ HLCLess(y, x) \/ x = y
                        /\ ~(HLCLess(x, y) /\ HLCLess(y, x))
                        /\ ~HLCLess(x, x)
  BY HLCTotal
<1>3. \A x, y, z \in HLC : HLCLess(x, y) /\ HLCLess(y, z) => HLCLess(x, z)
  BY HLCTransitive
<1>4. \A x, y \in Presence :
        x.clock = y.clock /\ x.present = y.present /\ x.generation = y.generation
          => x = y
  BY DEF Presence
<1> QED
  BY <1>1, <1>2, <1>3, <1>4 DEF choosePresence

\* The grow-only counter merge of protocol/crdt.go:110 is a join.
LEMMA MergeCountsJoin ==
    ASSUME NEW a \in [Device -> Nat], NEW b \in [Device -> Nat],
           NEW c \in [Device -> Nat]
    PROVE  /\ MergeCounts(a, b) \in [Device -> Nat]
           /\ MergeCounts(a, a) = a
           /\ MergeCounts(a, b) = MergeCounts(b, a)
           /\ MergeCounts(MergeCounts(a, b), c) = MergeCounts(a, MergeCounts(b, c))
  BY DEF MergeCounts

\* MergePhrase merges each part by its own rule.
LEMMA MergePhraseParts ==
    ASSUME NEW a, NEW b
    PROVE  /\ MergePhrase(a, b).counts = MergeCounts(a.counts, b.counts)
           /\ MergePhrase(a, b).pinned = chooseBool(a.pinned, b.pinned)
           /\ MergePhrase(a, b).presence = choosePresence(a.presence, b.presence)
  BY DEF MergePhrase

\* MergePhrase of protocol/crdt.go:97 "is associative, commutative, and
\* idempotent": replicas that merge the same payloads in any order, grouping
\* and multiplicity end in the same state.
THEOREM MergePhraseJoin ==
    ASSUME NEW a \in PhraseState, NEW b \in PhraseState, NEW c \in PhraseState
    PROVE  /\ MergePhrase(a, b) \in PhraseState
           /\ MergePhrase(a, a) = a
           /\ MergePhrase(a, b) = MergePhrase(b, a)
           /\ MergePhrase(MergePhrase(a, b), c) = MergePhrase(a, MergePhrase(b, c))
<1>1. /\ a.counts \in [Device -> Nat] /\ a.pinned \in LWWBool /\ a.presence \in Presence
      /\ b.counts \in [Device -> Nat] /\ b.pinned \in LWWBool /\ b.presence \in Presence
      /\ c.counts \in [Device -> Nat] /\ c.pinned \in LWWBool /\ c.presence \in Presence
  BY DEF PhraseState
<1>2. a = [counts |-> a.counts, pinned |-> a.pinned, presence |-> a.presence]
  BY DEF PhraseState
<1>3. MergePhrase(a, b) \in PhraseState
  BY <1>1, MergeCountsJoin, ChooseBoolJoin, ChoosePresenceJoin DEF MergePhrase, PhraseState
<1>4. MergePhrase(a, a) = a
  BY <1>1, <1>2, MergeCountsJoin, ChooseBoolJoin, ChoosePresenceJoin DEF MergePhrase
<1>5. MergePhrase(a, b) = MergePhrase(b, a)
  BY <1>1, MergeCountsJoin, ChooseBoolJoin, ChoosePresenceJoin DEF MergePhrase
<1>6. MergePhrase(MergePhrase(a, b), c) = MergePhrase(a, MergePhrase(b, c))
  BY <1>1, MergeCountsJoin, ChooseBoolJoin, ChoosePresenceJoin DEF MergePhrase
<1> QED
  BY <1>3, <1>4, <1>5, <1>6

\* chooseStableString of localstore/crdt_adapter.go:247 is a join.
LEMMA StableStringJoin ==
    ASSUME NEW a \in Nat, NEW b \in Nat, NEW c \in Nat
    PROVE  /\ chooseStableString(a, a) = a
           /\ chooseStableString(a, b) \in {a, b}
           /\ chooseStableString(a, b) = chooseStableString(b, a)
           /\ chooseStableString(chooseStableString(a, b), c)
                = chooseStableString(a, chooseStableString(b, c))
  BY DEF chooseStableString

\* MergePhrasePayload of localstore/crdt_adapter.go:259 "deterministically
\* combines content metadata": the whole payload merge is a join too.
THEOREM MergePhrasePayloadJoin ==
    ASSUME NEW a \in Payload, NEW b \in Payload, NEW c \in Payload
    PROVE  /\ MergePhrasePayload(a, b) \in Payload
           /\ MergePhrasePayload(a, a) = a
           /\ MergePhrasePayload(a, b) = MergePhrasePayload(b, a)
           /\ MergePhrasePayload(MergePhrasePayload(a, b), c)
                = MergePhrasePayload(a, MergePhrasePayload(b, c))
<1>1. /\ a.source \in Source /\ a.lastUsedDay \in Nat /\ a.state \in PhraseState
      /\ b.source \in Source /\ b.lastUsedDay \in Nat /\ b.state \in PhraseState
      /\ c.source \in Source /\ c.lastUsedDay \in Nat /\ c.state \in PhraseState
  BY DEF Payload
<1>2. a.source \in Nat /\ b.source \in Nat /\ c.source \in Nat
  BY <1>1, SourceAssumption, Zenon
<1>3. a = [source |-> a.source, lastUsedDay |-> a.lastUsedDay, state |-> a.state]
  BY DEF Payload
<1>4. chooseStableString(a.source, b.source) \in Source
  BY <1>1, <1>2, StableStringJoin
<1>5. MergePhrase(a.state, b.state) \in PhraseState
  BY <1>1, MergePhraseJoin
<1>6. MergePhrasePayload(a, b) \in Payload
  BY <1>1, <1>4, <1>5 DEF MergePhrasePayload, Payload
<1>7. MergePhrasePayload(a, a) = a
  BY <1>1, <1>2, <1>3, StableStringJoin, MergePhraseJoin DEF MergePhrasePayload
<1>8. MergePhrasePayload(a, b) = MergePhrasePayload(b, a)
  BY <1>1, <1>2, StableStringJoin, MergePhraseJoin DEF MergePhrasePayload
<1>9. MergePhrasePayload(MergePhrasePayload(a, b), c)
        = MergePhrasePayload(a, MergePhrasePayload(b, c))
  BY <1>1, <1>2, StableStringJoin, MergePhraseJoin DEF MergePhrasePayload
<1> QED
  BY <1>6, <1>7, <1>8, <1>9

\* MergeSetting of protocol/crdt.go:127 is a join.
THEOREM MergeSettingJoin ==
    ASSUME NEW a \in SettingState, NEW b \in SettingState, NEW c \in SettingState
    PROVE  /\ MergeSetting(a, b) \in SettingState
           /\ MergeSetting(a, a) = a
           /\ MergeSetting(a, b) = MergeSetting(b, a)
           /\ MergeSetting(MergeSetting(a, b), c) = MergeSetting(a, MergeSetting(b, c))
<1>1. /\ a.clock \in HLC /\ b.clock \in HLC /\ c.clock \in HLC
      /\ a.value \in Nat /\ b.value \in Nat /\ c.value \in Nat
  BY DEF SettingState
<1>2. \A x, y \in HLC : /\ HLCLess(x, y) \/ HLCLess(y, x) \/ x = y
                        /\ ~(HLCLess(x, y) /\ HLCLess(y, x))
                        /\ ~HLCLess(x, x)
  BY HLCTotal
<1>3. \A x, y, z \in HLC : HLCLess(x, y) /\ HLCLess(y, z) => HLCLess(x, z)
  BY HLCTransitive
<1>4. \A x, y \in SettingState : x.clock = y.clock /\ x.value = y.value => x = y
  BY DEF SettingState
<1> QED
  BY <1>1, <1>2, <1>3, <1>4 DEF MergeSetting

-----------------------------------------------------------------------------
(* The store. *)

\* nextHLC returns a clock strictly after the stored one.
LEMMA NextHLCNewer ==
    ASSUME NEW h \in Stamp, NEW physical \in Nat
    PROVE  /\ nextHLC(h, physical) \in Stamp
           /\ StampLess(h, nextHLC(h, physical))
<1>1. h.wall \in Nat /\ h.counter \in 0 .. CounterMax
  BY DEF Stamp
<1> QED
  BY <1>1, CounterMaxAssumption DEF nextHLC, Stamp, StampLess

\* observeHLC never goes back and reaches the observed clock.
LEMMA ObserveHLCReaches ==
    ASSUME NEW h \in Stamp, NEW c \in HLC
    PROVE  /\ observeHLC(h, c) \in Stamp
           /\ ~StampLess(observeHLC(h, c), h)
           /\ ~StampLess(observeHLC(h, c), c)
<1>1. h.wall \in Nat /\ h.counter \in 0 .. CounterMax
  BY DEF Stamp
<1>2. c.wall \in Nat /\ c.counter \in 0 .. CounterMax
  BY DEF HLC
<1> QED
  BY <1>1, <1>2, CounterMaxAssumption DEF observeHLC, Stamp, StampLess

\* latestClock is not before either clock of the state.
LEMMA LatestClockReaches ==
    ASSUME NEW s \in PhraseState
    PROVE  /\ latestClock(s) \in HLC
           /\ \A c \in Clocks(s) : c \in HLC /\ ~StampLess(latestClock(s), c)
<1>1. s.pinned.clock \in HLC /\ s.presence.clock \in HLC
  BY DEF PhraseState, LWWBool, Presence
<1>2. \A c \in HLC : c.wall \in Int /\ c.counter \in Int /\ c.node \in Int
  BY HLCTypes
<1> QED
  BY <1>1, <1>2 DEF latestClock, Clocks, HLCLess, StampLess

\* "Not before" is transitive.
LEMMA NotBefore ==
    ASSUME NEW a, NEW b, NEW c,
           a.wall \in Int, a.counter \in Int, b.wall \in Int, b.counter \in Int,
           c.wall \in Int, c.counter \in Int,
           ~StampLess(a, b), ~StampLess(b, c)
    PROVE  ~StampLess(a, c)
  BY DEF StampLess

\* A stamp that is not after a stamp before a is itself before a.
LEMMA NotBeforeStrict ==
    ASSUME NEW a, NEW b, NEW c,
           a.wall \in Int, a.counter \in Int, b.wall \in Int, b.counter \in Int,
           c.wall \in Int, c.counter \in Int,
           StampLess(b, a), ~StampLess(b, c)
    PROVE  StampLess(c, a) /\ ~StampLess(a, c)
  BY DEF StampLess

\* A clock is not before itself.
LEMMA NotBeforeSelf ==
    ASSUME NEW d, NEW h \in Stamp
    PROVE  ~StampLess(h, eventClock(d, h))
<1>1. h.wall \in Nat /\ h.counter \in 0 .. CounterMax
  BY DEF Stamp
<1> QED
  BY <1>1, CounterMaxAssumption DEF eventClock, StampLess

-----------------------------------------------------------------------------
(* What makes one state an upper bound of another. *)

\* A write is above the old state when its counters are no smaller, its pin is
\* the same or has a later clock, and its presence is the same, of a later
\* generation, or a later removal.
LEMMA WriteGrows ==
    ASSUME NEW old \in PhraseState, NEW new \in PhraseState,
           \A x \in Device : old.counts[x] <= new.counts[x],
           new.pinned = old.pinned \/ HLCLess(old.pinned.clock, new.pinned.clock),
           \/ new.presence = old.presence
           \/ new.presence.generation > old.presence.generation
           \/ /\ new.presence.generation = old.presence.generation
              /\ ~new.presence.present
              /\ HLCLess(old.presence.clock, new.presence.clock)
    PROVE  MergePhrase(old, new) = new
<1>1. /\ old.counts \in [Device -> Nat] /\ old.pinned \in LWWBool /\ old.presence \in Presence
      /\ new.counts \in [Device -> Nat] /\ new.pinned \in LWWBool /\ new.presence \in Presence
      /\ new = [counts |-> new.counts, pinned |-> new.pinned, presence |-> new.presence]
  BY DEF PhraseState
<1>2. MergeCounts(old.counts, new.counts) = new.counts
  BY <1>1 DEF MergeCounts
<1>3. chooseBool(old.pinned, new.pinned) = new.pinned
  BY <1>1, ChooseBoolJoin DEF chooseBool
<1>4. choosePresence(old.presence, new.presence) = new.presence
  <2>1. old.presence.generation \in Nat /\ new.presence.generation \in Nat
    BY <1>1 DEF Presence
  <2>2. choosePresence(old.presence, old.presence) = old.presence
    BY <1>1, ChoosePresenceJoin
  <2>3. new.presence.present \in BOOLEAN /\ old.presence.present \in BOOLEAN
    BY <1>1 DEF Presence
  <2> QED
    BY <2>1, <2>2, <2>3 DEF choosePresence
<1> QED
  BY <1>1, <1>2, <1>3, <1>4 DEF MergePhrase

-----------------------------------------------------------------------------
(* A write of one row under a clock. *)

\* new may replace the row of o on d while d's clock moves to h.
Grown(d, o, new, h) ==
    /\ new \in PhraseState
    /\ \A c \in Clocks(new) : ~StampLess(h, c)
    /\ row[d][o] # NoRow => MergePhrase(row[d][o], new) = new

\* The conclusion that RowsOnlyGrow draws of a step.
StepGrows ==
    \A d \in Device, o \in Object :
        row[d][o] # NoRow => MergePhrase(row[d][o], row'[d][o]) = row'[d][o]

\* The two parts of a stamp are integers.
LEMMA StampInts ==
    ASSUME NEW h \in Stamp
    PROVE  h.wall \in Int /\ h.counter \in Int
  BY CounterMaxAssumption DEF Stamp

\* The clocks of a stored row.
LEMMA RowClocks ==
    ASSUME TypeOK, NEW d \in Device, NEW o \in Object, row[d][o] # NoRow
    PROVE  /\ row[d][o] \in PhraseState
           /\ \A c \in Clocks(row[d][o]) : c \in HLC /\ c.wall \in Int /\ c.counter \in Int
<1>1. row[d][o] \in PhraseState
  BY DEF TypeOK
<1>2. \A c \in Clocks(row[d][o]) : c \in HLC
  BY <1>1 DEF Clocks, PhraseState, LWWBool, Presence
<1> QED
  BY <1>1, <1>2, HLCTypes

\* A clock that does not go back keeps dominating the rows that stay.
LEMMA ClockMove ==
    ASSUME TypeOK, ClockDominates, NEW d \in Device, NEW h \in Stamp,
           ~StampLess(h, hlc[d]),
           NEW o \in Object, row[d][o] # NoRow
    PROVE  \A c \in Clocks(row[d][o]) : ~StampLess(h, c)
<1>1. hlc[d] \in Stamp
  BY DEF TypeOK
<1>2. SUFFICES ASSUME NEW c \in Clocks(row[d][o])
               PROVE  ~StampLess(h, c)
  OBVIOUS
<1>3. ~StampLess(hlc[d], c)
  BY DEF ClockDominates
<1>4. c.wall \in Int /\ c.counter \in Int
  BY RowClocks
<1> QED
  BY <1>1, <1>3, <1>4, StampInts, NotBefore

\* A write of a grown state keeps ClockDominates and grows every row.
LEMMA WriteStep ==
    ASSUME TypeOK, ClockDominates, NEW d \in Device, NEW o \in Object,
           NEW h \in Stamp, ~StampLess(h, hlc[d]), NEW new, Grown(d, o, new, h),
           hlc' = [hlc EXCEPT ![d] = h],
           row' = [row EXCEPT ![d][o] = new]
    PROVE  ClockDominates' /\ StepGrows
<1>1. /\ hlc'[d] = h
      /\ \A e \in Device : e # d => hlc'[e] = hlc[e]
      /\ row'[d][o] = new
      /\ \A e \in Device, p \in Object : e # d \/ p # o => row'[e][p] = row[e][p]
  BY DEF TypeOK
<1>2. ClockDominates'
  <2>1. SUFFICES ASSUME NEW e \in Device, NEW p \in Object, row'[e][p] # NoRow,
                        NEW c \in Clocks(row'[e][p])
                 PROVE  ~StampLess(hlc'[e], c)
    BY DEF ClockDominates, Clocks
  <2>2. CASE e = d /\ p = o
    BY <1>1, <2>1, <2>2 DEF Grown
  <2>3. CASE e = d /\ p # o
    BY <1>1, <2>1, <2>3, ClockMove
  <2>4. CASE e # d
    BY <1>1, <2>1, <2>4 DEF ClockDominates
  <2> QED
    BY <2>2, <2>3, <2>4
<1>3. StepGrows
  <2>1. SUFFICES ASSUME NEW e \in Device, NEW p \in Object, row[e][p] # NoRow
                 PROVE  MergePhrase(row[e][p], row'[e][p]) = row'[e][p]
    BY DEF StepGrows
  <2>2. CASE e = d /\ p = o
    BY <1>1, <2>1, <2>2 DEF Grown
  <2>3. CASE e # d \/ p # o
    BY <1>1, <2>1, <2>3, RowClocks, MergePhraseJoin
  <2> QED
    BY <2>2, <2>3
<1> QED
  BY <1>2, <1>3

\* A step that only moves a clock forward does so too.
LEMMA ClockStep ==
    ASSUME TypeOK, ClockDominates, NEW d \in Device, NEW h \in Stamp,
           ~StampLess(h, hlc[d]), hlc' = [hlc EXCEPT ![d] = h], row' = row
    PROVE  ClockDominates' /\ StepGrows
<1>1. hlc'[d] = h /\ \A e \in Device : e # d => hlc'[e] = hlc[e]
  BY DEF TypeOK
<1>2. ClockDominates'
  <2>1. SUFFICES ASSUME NEW e \in Device, NEW p \in Object, row[e][p] # NoRow,
                        NEW c \in Clocks(row[e][p])
                 PROVE  ~StampLess(hlc'[e], c)
    BY DEF ClockDominates, Clocks
  <2>2. CASE e = d
    BY <1>1, <2>1, <2>2, ClockMove
  <2>3. CASE e # d
    BY <1>1, <2>1, <2>3 DEF ClockDominates
  <2> QED
    BY <2>2, <2>3
<1>3. StepGrows
  BY RowClocks, MergePhraseJoin DEF StepGrows
<1> QED
  BY <1>2, <1>3

-----------------------------------------------------------------------------
(* The operations. *)

\* Everything the step of an operation has to establish.
GoodStep == TypeOK' /\ ClockDominates' /\ StepGrows

\* What a clock reading h of Ticks(d) is.
LEMMA TickNewer ==
    ASSUME TypeOK, NEW d \in Device, NEW h \in Ticks(d)
    PROVE  /\ h \in Stamp /\ StampLess(hlc[d], h) /\ ~StampLess(h, hlc[d])
           /\ eventClock(d, h) \in HLC
           /\ ~StampLess(h, eventClock(d, h))
<1>1. hlc[d] \in Stamp
  BY DEF TypeOK
<1>2. PICK physical \in Wall : h = nextHLC(hlc[d], physical)
  BY DEF Ticks
<1>3. physical \in Nat
  BY InputAssumption
<1>4. h \in Stamp /\ StampLess(hlc[d], h)
  BY <1>1, <1>2, <1>3, NextHLCNewer
<1>5. ~StampLess(h, hlc[d])
  BY <1>1, <1>4, StampInts DEF StampLess
<1>6. eventClock(d, h) \in HLC
  BY <1>4 DEF eventClock, HLC, Stamp
<1> QED
  BY <1>4, <1>5, <1>6, NotBeforeSelf

\* The clock of a local event is after every clock of the device's row.
LEMMA EventClockNewer ==
    ASSUME TypeOK, ClockDominates, NEW d \in Device, NEW h \in Ticks(d),
           NEW o \in Object, row[d][o] # NoRow, NEW c \in Clocks(row[d][o])
    PROVE  HLCLess(c, eventClock(d, h)) /\ ~StampLess(h, c)
<1>1. hlc[d] \in Stamp
  BY DEF TypeOK
<1>2. ~StampLess(hlc[d], c)
  BY DEF ClockDominates
<1>3. c.wall \in Int /\ c.counter \in Int
  BY RowClocks
<1>4. StampLess(c, h) /\ ~StampLess(h, c)
  BY <1>1, <1>2, <1>3, TickNewer, StampInts, NotBeforeStrict
<1> QED
  BY <1>4 DEF HLCLess, StampLess, eventClock

\* ensurePhraseState returns a state whose clocks are the row's or the event's.
LEMMA EnsureState ==
    ASSUME TypeOK, ClockDominates, NEW d \in Device, NEW h \in Ticks(d),
           NEW o \in Object, NEW pinned \in BOOLEAN,
           NEW st, st = ensurePhraseState(d, o, pinned, eventClock(d, h))
    PROVE  /\ st \in PhraseState
           /\ \A c \in Clocks(st) : ~StampLess(h, c)
           /\ row[d][o] # NoRow =>
                 /\ st = row[d][o]
                 /\ HLCLess(st.pinned.clock, eventClock(d, h))
                 /\ HLCLess(st.presence.clock, eventClock(d, h))
<1> DEFINE clock == eventClock(d, h)
<1>1. clock \in HLC /\ ~StampLess(h, clock)
  BY TickNewer
<1>2. CASE row[d][o] # NoRow
  <2>1. st = row[d][o]
    BY <1>2 DEF ensurePhraseState
  <2>2. \A c \in Clocks(st) : HLCLess(c, clock) /\ ~StampLess(h, c)
    BY <1>2, <2>1, EventClockNewer
  <2>3. st \in PhraseState
    BY <1>2, <2>1, RowClocks
  <2> QED
    BY <2>1, <2>2, <2>3 DEF Clocks
<1>3. CASE row[d][o] = NoRow
  <2>1. st = [counts   |-> [x \in Device |-> 0],
              pinned   |-> [value |-> pinned, clock |-> clock],
              presence |-> [present |-> TRUE, clock |-> clock, generation |-> 1]]
    BY <1>3 DEF ensurePhraseState
  <2>2. st.pinned \in LWWBool /\ st.presence \in Presence
    BY <1>1, <2>1 DEF LWWBool, Presence
  <2>3. st \in PhraseState
    BY <2>1, <2>2 DEF PhraseState
  <2>4. Clocks(st) = {clock}
    BY <2>1 DEF Clocks
  <2> QED
    BY <1>1, <1>3, <2>3, <2>4
<1> QED
  BY <1>2, <1>3

\* The two clocks of a new state are the event's, and its pin is as asked for.
LEMMA EnsureNew ==
    ASSUME NEW d, NEW o, NEW pinned, NEW clock, row[d][o] = NoRow
    PROVE  /\ ensurePhraseState(d, o, pinned, clock).pinned.value = pinned
           /\ ensurePhraseState(d, o, pinned, clock).pinned.clock = clock
           /\ ensurePhraseState(d, o, pinned, clock).presence.clock = clock
  BY DEF ensurePhraseState

\* The pin and the presence of a state that d writes for o at h are those of
\* its row or new ones under the clock of the event; a new pin that is set
\* came from an explicit save.
FromEvent(d, o, new, h) ==
    /\ \/ new.pinned.clock = eventClock(d, h)
       \/ row[d][o] # NoRow /\ new.pinned = row[d][o].pinned
    /\ \/ new.presence.clock = eventClock(d, h)
       \/ row[d][o] # NoRow /\ new.presence = row[d][o].presence
    /\ \/ new.pinned \in pinEvents'[o]
       \/ ~new.pinned.value
       \/ row[d][o] # NoRow /\ new.pinned = row[d][o].pinned

\* A local operation: the clock ticks to h and a grown state is stored.
LocalWrite(d, o, new, h) ==
    /\ Grown(d, o, new, h)
    /\ FromEvent(d, o, new, h)
    /\ hlc' = [hlc EXCEPT ![d] = h]
    /\ row' = [row EXCEPT ![d][o] = new]
    /\ outbox' \in {outbox, [outbox EXCEPT ![o] = @ \cup {new}]}
    /\ seen' = [seen EXCEPT ![d][o] = @ \cup {new}]
    /\ pinEvents' \in [Object -> SUBSET LWWBool]
    /\ \A p \in Object : pinEvents[p] \subseteq pinEvents'[p]
    /\ ops' \in 0 .. MaxOps

\* Tick and upsert of such a state are a local write.
LEMMA UpsertIsLocalWrite ==
    ASSUME TypeOK, NEW d \in Device, NEW h \in Ticks(d),
           NEW o \in Object, NEW new, Grown(d, o, new, h), FromEvent(d, o, new, h),
           NEW enqueue, Tick(d, h), upsert(d, o, new, enqueue),
           pinEvents' \in [Object -> SUBSET LWWBool],
           \A p \in Object : pinEvents[p] \subseteq pinEvents'[p]
    PROVE  \E k \in Ticks(d), s \in PhraseState : LocalWrite(d, o, s, k)
<1>1. new \in PhraseState
  BY DEF Grown
<1>2. ops' \in 0 .. MaxOps
  BY InputAssumption DEF TypeOK, Tick
<1>3. outbox' \in {outbox, [outbox EXCEPT ![o] = @ \cup {new}]}
  BY DEF upsert
<1>4. LocalWrite(d, o, new, h)
  BY <1>2, <1>3 DEF LocalWrite, Tick, upsert
<1> QED
  BY <1>1, <1>4

\* A local write keeps the types and ClockDominates, and grows every row.
LEMMA LocalWriteStep ==
    ASSUME TypeOK, ClockDominates, NEW d \in Device, NEW h \in Ticks(d),
           NEW o \in Object, NEW new, LocalWrite(d, o, new, h)
    PROVE  GoodStep
<1>1. h \in Stamp /\ ~StampLess(h, hlc[d])
  BY TickNewer
<1>2. hlc' = [hlc EXCEPT ![d] = h] /\ row' = [row EXCEPT ![d][o] = new]
  BY DEF LocalWrite
<1>3. new \in PhraseState /\ Grown(d, o, new, h)
  BY DEF LocalWrite, Grown
<1>4. ClockDominates' /\ StepGrows
  BY <1>1, <1>2, <1>3, WriteStep, Zenon
<1>5. hlc' \in [Device -> Stamp]
  BY <1>1, <1>2 DEF TypeOK
<1>6. row' \in [Device -> [Object -> PhraseState \cup {NoRow}]]
  BY <1>2, <1>3 DEF TypeOK
<1>7. outbox' \in [Object -> SUBSET PhraseState]
  BY <1>3 DEF TypeOK, LocalWrite
<1>8. seen' \in [Device -> [Object -> SUBSET PhraseState]]
  BY <1>3 DEF TypeOK, LocalWrite
<1>9. pinEvents' \in [Object -> SUBSET LWWBool] /\ ops' \in 0 .. MaxOps
  BY DEF LocalWrite
<1> QED
  BY <1>4, <1>5, <1>6, <1>7, <1>8, <1>9 DEF GoodStep, TypeOK

\* SaveExplicit is a local write.
LEMMA SaveExplicitWrites ==
    ASSUME TypeOK, ClockDominates, NEW d \in Device, NEW o \in Object,
           NEW wantedPinned \in BOOLEAN, NEW wantedCount \in Wanted,
           SaveExplicit(d, o, wantedPinned, wantedCount)
    PROVE  \E h \in Ticks(d), new \in PhraseState : LocalWrite(d, o, new, h)
<1>1. PICK h \in Ticks(d) :
        LET clock == eventClock(d, h)
            st    == ensurePhraseState(d, o, wantedPinned, clock)
            pin   == SetPinned(st.pinned, wantedPinned, clock)
        IN  /\ Tick(d, h)
            /\ \E delta \in 0 .. wantedCount :
                  upsert(d, o,
                         [counts   |-> [st.counts EXCEPT ![d] = @ + delta],
                          pinned   |-> pin,
                          presence |-> ReAdd(st.presence, clock)], TRUE)
            /\ pinEvents' = IF pin.clock = clock
                            THEN [pinEvents EXCEPT ![o] = @ \cup {pin}] ELSE pinEvents
  BY Zenon DEF SaveExplicit
<1> DEFINE clock == eventClock(d, h)
           st    == ensurePhraseState(d, o, wantedPinned, clock)
           pin   == SetPinned(st.pinned, wantedPinned, clock)
           pres  == ReAdd(st.presence, clock)
<1>2. PICK delta \in 0 .. wantedCount :
        upsert(d, o, [counts   |-> [st.counts EXCEPT ![d] = @ + delta],
                      pinned   |-> pin,
                      presence |-> pres], TRUE)
  BY <1>1, Zenon
<1> DEFINE new == [counts   |-> [st.counts EXCEPT ![d] = @ + delta],
                   pinned   |-> pin,
                   presence |-> pres]
<1>3. clock \in HLC /\ ~StampLess(h, clock)
  BY TickNewer
<1>4. /\ st \in PhraseState
      /\ \A c \in Clocks(st) : ~StampLess(h, c)
      /\ row[d][o] # NoRow =>
            /\ st = row[d][o]
            /\ HLCLess(st.pinned.clock, clock)
            /\ HLCLess(st.presence.clock, clock)
  BY EnsureState, ZenonT(30)
<1>20. row[d][o] = NoRow => st.pinned.clock = clock /\ st.presence.clock = clock
  BY EnsureNew
<1> HIDE DEF clock, st
<1>5. st.counts \in [Device -> Nat] /\ st.pinned \in LWWBool /\ st.presence \in Presence
  BY <1>4 DEF PhraseState
<1>6. delta \in Nat
  <2>1. wantedCount \in Nat
    BY InputAssumption
  <2> QED
    BY <2>1
<1>7. pin \in LWWBool /\ pin.clock \in {st.pinned.clock, clock}
  BY <1>3, <1>5 DEF SetPinned, LWWBool
<1>8. pres \in Presence /\ pres.clock \in {st.presence.clock, clock}
  BY <1>3, <1>5 DEF ReAdd, Presence
<1>9. [st.counts EXCEPT ![d] = @ + delta] \in [Device -> Nat]
  BY <1>5, <1>6
<1>10. new \in PhraseState
  BY <1>7, <1>8, <1>9, Zenon DEF PhraseState
<1>11. \A c \in Clocks(new) : ~StampLess(h, c)
  BY <1>3, <1>4, <1>7, <1>8, Zenon DEF Clocks
<1>12. ASSUME row[d][o] # NoRow
       PROVE  MergePhrase(row[d][o], new) = new
  <2>1. st = row[d][o] /\ HLCLess(st.pinned.clock, clock)
    BY <1>4, <1>12, Zenon
  <2>2. \A x \in Device : st.counts[x] <= new.counts[x]
    BY <1>5, <1>6
  <2>3. pin = st.pinned \/ HLCLess(st.pinned.clock, pin.clock)
    BY <2>1 DEF SetPinned
  <2>4. pres = st.presence \/ pres.generation > st.presence.generation
    BY <1>5 DEF ReAdd, Presence
  <2>5. MergePhrase(st, new) = new
    BY <1>4, <1>10, <2>2, <2>3, <2>4, WriteGrows, Zenon
  <2> QED
    BY <2>1, <2>5
<1>13. Grown(d, o, new, h)
  BY <1>10, <1>11, <1>12, Zenon DEF Grown
<1>14. pinEvents' = IF pin.clock = clock
                    THEN [pinEvents EXCEPT ![o] = @ \cup {pin}] ELSE pinEvents
  BY <1>1, Zenon DEF clock, st
<1>15. /\ pinEvents' \in [Object -> SUBSET LWWBool]
       /\ \A p \in Object : pinEvents[p] \subseteq pinEvents'[p]
       /\ pin.clock = clock => pin \in pinEvents'[o]
  BY <1>7, <1>14 DEF TypeOK
<1>16. pin.clock = clock \/ (row[d][o] # NoRow /\ pin = row[d][o].pinned)
  BY <1>4, <1>20 DEF SetPinned
<1>17. pres.clock = clock \/ (row[d][o] # NoRow /\ pres = row[d][o].presence)
  BY <1>4, <1>20, Zenon DEF ReAdd
<1>18. FromEvent(d, o, new, h)
  BY <1>15, <1>16, <1>17 DEF FromEvent, clock
<1>19. Tick(d, h)
  BY <1>1, Zenon
<1> HIDE DEF new
<1> QED
  BY <1>2, <1>13, <1>15, <1>18, <1>19, UpsertIsLocalWrite, Zenon DEF new

\* RecordSelection is a local write.
LEMMA RecordSelectionWrites ==
    ASSUME TypeOK, ClockDominates, NEW d \in Device, NEW o \in Object,
           RecordSelection(d, o)
    PROVE  \E h \in Ticks(d), new \in PhraseState : LocalWrite(d, o, new, h)
<1>1. PICK h \in Ticks(d) :
        LET st     == ensurePhraseState(d, o, FALSE, eventClock(d, h))
            counts == [st.counts EXCEPT ![d] = @ + 1]
        IN  /\ Tick(d, h)
            /\ upsert(d, o, [st EXCEPT !.counts = counts],
                      totalCounts(counts) >= learningThreshold)
            /\ UNCHANGED pinEvents
  BY Zenon DEF RecordSelection
<1> DEFINE st     == ensurePhraseState(d, o, FALSE, eventClock(d, h))
           counts == [st.counts EXCEPT ![d] = @ + 1]
           new    == [st EXCEPT !.counts = counts]
<1>2. /\ st \in PhraseState
      /\ \A c \in Clocks(st) : ~StampLess(h, c)
      /\ row[d][o] # NoRow => st = row[d][o]
  <2> HIDE DEF st
  <2>1. st = ensurePhraseState(d, o, FALSE, eventClock(d, h))
    BY DEF st
  <2> QED
    BY ZenonT(60), <2>1, EnsureState
<1>11. row[d][o] = NoRow => /\ st.pinned.value = FALSE
                            /\ st.pinned.clock = eventClock(d, h)
                            /\ st.presence.clock = eventClock(d, h)
  BY EnsureNew, ZenonT(30)
<1> HIDE DEF st
<1>3. st.counts \in [Device -> Nat]
  BY <1>2 DEF PhraseState
<1>4. counts \in [Device -> Nat] /\ \A x \in Device : st.counts[x] <= counts[x]
  BY <1>3
<1> HIDE DEF counts
<1>5. /\ new \in PhraseState
      /\ new.counts = counts /\ new.pinned = st.pinned /\ new.presence = st.presence
  BY <1>2, <1>4 DEF PhraseState
<1> HIDE DEF new
<1>6. MergePhrase(st, new) = new
  BY <1>2, <1>4, <1>5, WriteGrows
<1>7. Grown(d, o, new, h)
  BY <1>2, <1>5, <1>6 DEF Grown, Clocks
<1>8. pinEvents' = pinEvents /\ pinEvents \in [Object -> SUBSET LWWBool]
  BY <1>1 DEF TypeOK
<1>9. FromEvent(d, o, new, h)
  BY <1>2, <1>5, <1>11 DEF FromEvent
<1>10. Tick(d, h) /\ upsert(d, o, new, totalCounts(counts) >= learningThreshold)
  BY <1>1 DEF new, counts, st
<1> QED
  BY <1>7, <1>8, <1>9, <1>10, UpsertIsLocalWrite

\* Delete is a local write, which removes.
LEMMA DeleteWrites ==
    ASSUME TypeOK, ClockDominates, NEW d \in Device, NEW o \in Object,
           Delete(d, o)
    PROVE  \E h \in Ticks(d), new \in PhraseState : LocalWrite(d, o, new, h)
<1>1. PICK h \in Ticks(d) :
        LET clock == eventClock(d, h)
            st    == ensurePhraseState(d, o, FALSE, clock)
        IN  /\ Tick(d, h)
            /\ upsert(d, o,
                      [st EXCEPT !.presence = [present    |-> FALSE,
                                               clock      |-> clock,
                                               generation |-> st.presence.generation]],
                      TRUE)
            /\ UNCHANGED pinEvents
  BY Zenon DEF Delete
<1> DEFINE clock == eventClock(d, h)
           st    == ensurePhraseState(d, o, FALSE, clock)
           pres  == [present |-> FALSE, clock |-> clock, generation |-> st.presence.generation]
           new   == [st EXCEPT !.presence = pres]
<1>2. clock \in HLC /\ ~StampLess(h, clock)
  BY TickNewer
<1>3. /\ st \in PhraseState
      /\ \A c \in Clocks(st) : ~StampLess(h, c)
      /\ row[d][o] # NoRow => st = row[d][o] /\ HLCLess(st.presence.clock, clock)
  <2> HIDE DEF st
  <2>1. st = ensurePhraseState(d, o, FALSE, eventClock(d, h))
    BY DEF st
  <2> QED
    BY ZenonT(60), <2>1, EnsureState
<1>13. ASSUME row[d][o] = NoRow PROVE st.pinned.value = FALSE /\ st.pinned.clock = clock
  <2> HIDE DEF clock
  <2> QED
    BY <1>13, EnsureNew, ZenonT(30)
<1> HIDE DEF clock, st
<1>4. st.counts \in [Device -> Nat] /\ st.pinned \in LWWBool /\ st.presence \in Presence
  BY <1>3 DEF PhraseState
<1>5. pres \in Presence
  BY <1>2, <1>4 DEF Presence
<1>6. /\ new \in PhraseState
      /\ new.counts = st.counts /\ new.pinned = st.pinned /\ new.presence = pres
  BY <1>3, <1>5, Zenon DEF PhraseState
<1>7. \A c \in Clocks(new) : ~StampLess(h, c)
  BY <1>2, <1>3, <1>6 DEF Clocks
<1>8. ASSUME row[d][o] # NoRow
      PROVE  MergePhrase(row[d][o], new) = new
  <2>1. st = row[d][o] /\ HLCLess(st.presence.clock, clock)
    BY <1>3, <1>8
  <2>2. \A x \in Device : st.counts[x] <= new.counts[x]
    BY <1>4, <1>6
  <2>3. /\ new.presence.generation = st.presence.generation
        /\ ~new.presence.present
        /\ HLCLess(st.presence.clock, new.presence.clock)
    BY <1>6, <2>1
  <2> HIDE DEF new, pres
  <2>4. MergePhrase(st, new) = new
    BY <1>3, <1>6, <2>2, <2>3, WriteGrows
  <2> QED
    BY <2>1, <2>4
<1>9. Grown(d, o, new, h)
  BY <1>6, <1>7, <1>8, Zenon DEF Grown
<1>10. pinEvents' = pinEvents /\ pinEvents \in [Object -> SUBSET LWWBool]
  BY <1>1 DEF TypeOK
<1>11. FromEvent(d, o, new, h)
  <2>1. new.pinned = st.pinned /\ new.presence.clock = clock
    BY <1>6
  <2> HIDE DEF new, pres
  <2>2. CASE row[d][o] = NoRow
    <3>1. new.pinned.value = FALSE /\ new.pinned.clock = clock
      BY <1>13, <2>1, <2>2, Zenon
    <3> QED
      BY <2>1, <3>1 DEF FromEvent, clock
  <2>3. CASE row[d][o] # NoRow
    BY <1>3, <2>1, <2>3 DEF FromEvent, clock
  <2> QED
    BY <2>2, <2>3
<1>12. Tick(d, h) /\ upsert(d, o, new, TRUE)
  BY <1>1, Zenon DEF clock, st
<1> HIDE DEF new
<1> QED
  BY <1>9, <1>10, <1>11, <1>12, UpsertIsLocalWrite, Zenon

\* An operation that stops after nextHLC leaves the rows and a later clock.
LEMMA StopAfterTickStep ==
    ASSUME TypeOK, ClockDominates, NEW d \in Device, StopAfterTick(d)
    PROVE  GoodStep
<1>1. PICK h \in Ticks(d) : Tick(d, h) /\ UNCHANGED <<row, outbox, seen, pinEvents>>
  BY DEF StopAfterTick
<1>2. h \in Stamp /\ ~StampLess(h, hlc[d])
  BY TickNewer
<1>3. hlc' = [hlc EXCEPT ![d] = h] /\ row' = row
  BY <1>1 DEF Tick
<1>4. ClockDominates' /\ StepGrows
  BY <1>2, <1>3, ClockStep, Zenon
<1>5. ops' \in 0 .. MaxOps
  BY <1>1, InputAssumption DEF TypeOK, Tick
<1>6. hlc' \in [Device -> Stamp]
  BY <1>2, <1>3 DEF TypeOK
<1> QED
  BY <1>1, <1>4, <1>5, <1>6 DEF GoodStep, TypeOK

\* The merged state of a payload and the clock observed for it.
LEMMA MergedState ==
    ASSUME TypeOK, ClockDominates, NEW d \in Device, NEW o \in Object,
           NEW payload \in PhraseState,
           NEW h, h = observeHLC(hlc[d], latestClock(Merged(d, o, payload)))
    PROVE  /\ h \in Stamp /\ ~StampLess(h, hlc[d])
           /\ Grown(d, o, Merged(d, o, payload), h)
<1> DEFINE merged == Merged(d, o, payload)
<1>1. hlc[d] \in Stamp
  BY DEF TypeOK
<1>2. row[d][o] # NoRow => row[d][o] \in PhraseState
  BY RowClocks
<1>3. merged \in PhraseState
  BY <1>2, MergePhraseJoin DEF Merged
<1>4. row[d][o] # NoRow => MergePhrase(row[d][o], merged) = merged
  BY <1>2, MergePhraseJoin DEF Merged
<1> HIDE DEF merged
<1>5. latestClock(merged) \in HLC
  BY <1>3, LatestClockReaches
<1>6. h \in Stamp /\ ~StampLess(h, hlc[d]) /\ ~StampLess(h, latestClock(merged))
  BY <1>1, <1>5, ObserveHLCReaches DEF merged
<1>7. ASSUME NEW c \in Clocks(merged)
      PROVE  ~StampLess(h, c)
  <2>1. c \in HLC /\ ~StampLess(latestClock(merged), c)
    BY <1>3, LatestClockReaches
  <2>2. /\ c.wall \in Int /\ c.counter \in Int
        /\ latestClock(merged).wall \in Int /\ latestClock(merged).counter \in Int
    BY <1>5, <2>1, HLCTypes
  <2> QED
    BY <1>6, <2>1, <2>2, StampInts, NotBefore
<1> QED
  BY <1>3, <1>4, <1>6, <1>7, Zenon DEF Grown, merged

\* MergeRemotePayload keeps clocks dominated and moves its row up.
LEMMA MergeStep ==
    ASSUME TypeOK, ClockDominates, NEW d \in Device, NEW o \in Object,
           NEW payload \in outbox[o],
           \/ MergeRemotePayload(d, o, payload)
           \/ StopAfterObserve(d, o, payload)
    PROVE  GoodStep
<1> DEFINE h == observeHLC(hlc[d], latestClock(Merged(d, o, payload)))
<1>1. payload \in PhraseState
  BY Zenon DEF TypeOK
<1>2. h \in Stamp /\ ~StampLess(h, hlc[d]) /\ Grown(d, o, Merged(d, o, payload), h)
  BY <1>1, MergedState, Zenon
<1>3. Merged(d, o, payload) \in PhraseState
  BY <1>2 DEF Grown
<1>4. hlc' = [hlc EXCEPT ![d] = h]
  BY DEF MergeRemotePayload, StopAfterObserve, TypeOK
<1> HIDE DEF h
<1>5. hlc' \in [Device -> Stamp]
  BY <1>2, <1>4 DEF TypeOK
<1>6. CASE MergeRemotePayload(d, o, payload)
  <2>1. /\ row' = [row EXCEPT ![d][o] = Merged(d, o, payload)]
        /\ seen' = [seen EXCEPT ![d][o] = @ \cup {payload}]
        /\ UNCHANGED <<outbox, pinEvents, ops>>
    BY <1>6 DEF MergeRemotePayload
  <2>2. ClockDominates' /\ StepGrows
    BY <1>2, <1>4, <2>1, WriteStep, Zenon
  <2>3. row' \in [Device -> [Object -> PhraseState \cup {NoRow}]]
    BY <1>3, <2>1 DEF TypeOK
  <2>4. seen' \in [Device -> [Object -> SUBSET PhraseState]]
    BY <1>1, <2>1 DEF TypeOK
  <2> QED
    BY <1>5, <2>1, <2>2, <2>3, <2>4 DEF GoodStep, TypeOK
<1>7. CASE StopAfterObserve(d, o, payload)
  <2>1. UNCHANGED <<row, outbox, seen, pinEvents, ops>>
    BY <1>7 DEF StopAfterObserve
  <2>2. ClockDominates' /\ StepGrows
    BY <1>2, <1>4, <2>1, ClockStep, Zenon
  <2> QED
    BY <1>5, <2>1, <2>2 DEF GoodStep, TypeOK
<1> QED
  BY <1>6, <1>7

\* Every step of a replica is good in this sense.
LEMMA NextStep ==
    ASSUME TypeOK, ClockDominates, [Next]_vars
    PROVE  GoodStep
<1>1. CASE Next
  BY <1>1, SaveExplicitWrites, RecordSelectionWrites, DeleteWrites, LocalWriteStep,
     StopAfterTickStep, MergeStep DEF Next
<1>2. CASE UNCHANGED vars
  <2>1. TypeOK' /\ ClockDominates'
    BY <1>2 DEF vars, TypeOK, ClockDominates, Clocks
  <2>2. StepGrows
    BY <1>2, RowClocks, MergePhraseJoin DEF vars, StepGrows
  <2> QED
    BY <2>1, <2>2, Zenon DEF GoodStep
<1> QED
  BY <1>1, <1>2, Zenon

\* Empty stores satisfy the invariant.
LEMMA InitGood ==
    Init => TypeOK /\ ClockDominates
<1> SUFFICES ASSUME Init PROVE TypeOK /\ ClockDominates
  OBVIOUS
<1>1. [wall |-> 0, counter |-> 0] \in Stamp
  BY CounterMaxAssumption DEF Stamp
<1>2. TypeOK
  BY <1>1, InputAssumption DEF Init, TypeOK
<1>3. ClockDominates
  BY DEF Init, ClockDominates
<1> QED
  BY <1>2, <1>3

\* The types hold and the stored clock of a device is never behind a clock in
\* its rows (nextHLC and observeHLC of localstore/crdt_adapter.go).
THEOREM ClockDominatesTheorem ==
    Spec => [](TypeOK /\ ClockDominates)
<1>1. TypeOK /\ ClockDominates /\ [Next]_vars => (TypeOK /\ ClockDominates)'
  BY NextStep DEF GoodStep
<1> QED
  BY <1>1, InitGood, PTL DEF Spec

\* SaveExplicit, RecordSelection, Delete and MergeRemotePayload only ever move
\* a row up in the merge order: what a row held, merging can not take away.
THEOREM RowsOnlyGrowTheorem ==
    Spec => RowsOnlyGrow
<1>1. TypeOK /\ ClockDominates /\ [Next]_vars =>
        [\A d \in Device, o \in Object :
            row[d][o] # NoRow => MergePhrase(row[d][o], row'[d][o]) = row'[d][o]]_vars
  BY NextStep DEF GoodStep, StepGrows
<1> QED
  BY <1>1, ClockDominatesTheorem, PTL DEF Spec, RowsOnlyGrow

-----------------------------------------------------------------------------
(* The history of a row: what its device wrote or merged. *)

\* A row is above every state that its device wrote or merged.
RowAbove ==
    \A d \in Device, o \in Object : \A s \in seen[d][o] :
        row[d][o] # NoRow /\ MergePhrase(s, row[d][o]) = row[d][o]

\* Each part of a row was in one of them.
RowFromSeen ==
    \A d \in Device, o \in Object : row[d][o] # NoRow =>
        /\ \E s \in seen[d][o] : s.pinned = row[d][o].pinned
        /\ \E s \in seen[d][o] : s.presence = row[d][o].presence
        /\ \A x \in Device : \E s \in seen[d][o] : s.counts[x] = row[d][o].counts[x]

\* Somebody wrote what is in the outbox.
OutboxSeen ==
    \A o \in Object : \A s \in outbox[o] : \E d \in Device : s \in seen[d][o]

\* The clock of a device is not behind a clock that names it, wherever it went.
OwnClocks ==
    \A d, e \in Device, o \in Object : \A s \in seen[e][o] : \A c \in Clocks(s) :
        c.node = d => ~StampLess(hlc[d], c)

\* A pin that no explicit save wrote is the default of a new row.
PinsExplicit ==
    \A d \in Device, o \in Object : \A s \in seen[d][o] :
        s.pinned \in pinEvents[o] \/ ~s.pinned.value

HistoryInv ==
    /\ TypeOK /\ ClockDominates
    /\ RowAbove /\ RowFromSeen /\ OutboxSeen /\ OwnClocks /\ PinsExplicit /\ ClocksNameOneWrite

\* The parts that are about rows and the states seen, in a step that leaves them.
LEMMA RowsSame ==
    ASSUME UNCHANGED <<row, seen>>, RowAbove, RowFromSeen, ClocksNameOneWrite
    PROVE  RowAbove' /\ RowFromSeen' /\ ClocksNameOneWrite'
<1>1. RowAbove'
  BY SMTT(30) DEF RowAbove
<1>2. RowFromSeen'
  BY SMTT(30) DEF RowFromSeen
<1>3. ClocksNameOneWrite'
  BY SMTT(30) DEF ClocksNameOneWrite
<1> QED
  BY <1>1, <1>2, <1>3, Zenon

\* "Above" is transitive.
LEMMA AboveTransitive ==
    ASSUME NEW a \in PhraseState, NEW b \in PhraseState, NEW c \in PhraseState,
           MergePhrase(a, b) = b, MergePhrase(b, c) = c
    PROVE  MergePhrase(a, c) = c
  BY MergePhraseJoin, SMTT(30)

\* The parts of a merged state are parts of the two states.
LEMMA MergedParts ==
    ASSUME NEW a \in PhraseState, NEW b \in PhraseState, NEW c, c = MergePhrase(a, b)
    PROVE  /\ c.pinned \in {a.pinned, b.pinned}
           /\ c.presence \in {a.presence, b.presence}
           /\ \A x \in Device : c.counts[x] \in {a.counts[x], b.counts[x]}
  BY DEF MergePhrase, chooseBool, choosePresence, MergeCounts

\* A row stays above what its device saw, and made of it, when a state s is
\* written over it (new = s) or merged into it.
LEMMA RowStep ==
    ASSUME TypeOK, RowAbove, RowFromSeen, NEW d \in Device, NEW o \in Object,
           NEW s \in PhraseState, NEW new \in PhraseState,
           row[d][o] # NoRow => MergePhrase(row[d][o], new) = new,
           new = s \/ (row[d][o] # NoRow /\ new = MergePhrase(row[d][o], s)),
           row' = [row EXCEPT ![d][o] = new],
           seen' = [seen EXCEPT ![d][o] = @ \cup {s}]
    PROVE  RowAbove' /\ RowFromSeen'
<1>1. /\ row'[d][o] = new /\ seen'[d][o] = seen[d][o] \cup {s}
      /\ \A e \in Device, p \in Object : e # d \/ p # o =>
            row'[e][p] = row[e][p] /\ seen'[e][p] = seen[e][p]
  BY DEF TypeOK
<1>2. new # NoRow
  BY NoRowAssumption
<1>3. row[d][o] # NoRow => row[d][o] \in PhraseState
  BY RowClocks
<1>4. MergePhrase(s, new) = new
  BY <1>3, MergePhraseJoin
<1>5. ASSUME NEW t \in seen[d][o] PROVE MergePhrase(t, new) = new
  <2>1. t \in PhraseState
    BY DEF TypeOK
  <2>2. row[d][o] # NoRow /\ MergePhrase(t, row[d][o]) = row[d][o]
    BY Zenon DEF RowAbove
  <2> QED
    BY <1>3, <2>1, <2>2, AboveTransitive
<1>6. RowAbove'
  <2>1. SUFFICES ASSUME NEW e \in Device, NEW p \in Object, NEW t \in seen'[e][p]
                 PROVE  row'[e][p] # NoRow /\ MergePhrase(t, row'[e][p]) = row'[e][p]
    BY Zenon DEF RowAbove
  <2>2. CASE e = d /\ p = o
    BY <1>1, <1>2, <1>4, <1>5, <2>2, Zenon
  <2>3. CASE e # d \/ p # o
    BY <1>1, <2>3, SMTT(30) DEF RowAbove
  <2> QED
    BY <2>2, <2>3, Zenon
<1>7. /\ \E t \in seen'[d][o] : t.pinned = new.pinned
      /\ \E t \in seen'[d][o] : t.presence = new.presence
      /\ \A x \in Device : \E t \in seen'[d][o] : t.counts[x] = new.counts[x]
  <2>1. CASE new = s
    BY <1>1, <2>1, Zenon
  <2>2. CASE row[d][o] # NoRow /\ new = MergePhrase(row[d][o], s)
    <3>1. /\ new.pinned \in {row[d][o].pinned, s.pinned}
          /\ new.presence \in {row[d][o].presence, s.presence}
          /\ \A x \in Device : new.counts[x] \in {row[d][o].counts[x], s.counts[x]}
      BY <1>3, <2>2, MergedParts
    <3>2. /\ \E t \in seen[d][o] : t.pinned = row[d][o].pinned
          /\ \E t \in seen[d][o] : t.presence = row[d][o].presence
          /\ \A x \in Device : \E t \in seen[d][o] : t.counts[x] = row[d][o].counts[x]
      BY <2>2, Zenon DEF RowFromSeen
    <3>3. \E t \in seen'[d][o] : t.pinned = new.pinned
      BY <1>1, <3>1, <3>2, Zenon
    <3>4. \E t \in seen'[d][o] : t.presence = new.presence
      BY <1>1, <3>1, <3>2, Zenon
    <3>5. ASSUME NEW x \in Device PROVE \E t \in seen'[d][o] : t.counts[x] = new.counts[x]
      <4>1. new.counts[x] \in {row[d][o].counts[x], s.counts[x]}
        BY <3>1, Zenon
      <4>2. PICK t \in seen[d][o] : t.counts[x] = row[d][o].counts[x]
        BY <3>2, Zenon
      <4>3. t \in seen'[d][o] /\ s \in seen'[d][o]
        BY <1>1, Zenon
      <4> QED
        BY <4>1, <4>2, <4>3
    <3> QED
      BY <3>3, <3>4, <3>5, Zenon
  <2> QED
    BY <2>1, <2>2
<1>8. RowFromSeen'
  <2>1. SUFFICES ASSUME NEW e \in Device, NEW p \in Object, row'[e][p] # NoRow
        PROVE  /\ \E t \in seen'[e][p] : t.pinned = row'[e][p].pinned
               /\ \E t \in seen'[e][p] : t.presence = row'[e][p].presence
               /\ \A x \in Device : \E t \in seen'[e][p] : t.counts[x] = row'[e][p].counts[x]
    BY Zenon DEF RowFromSeen
  <2>2. CASE e = d /\ p = o
    BY <1>1, <1>7, <2>2, SMTT(30)
  <2>3. CASE e # d \/ p # o
    BY <1>1, <2>1, <2>3 DEF RowFromSeen
  <2> QED
    BY <2>2, <2>3, Zenon
<1> QED
  BY <1>6, <1>8

\* A state that some device saw, and its clocks.
LEMMA SeenClocks ==
    ASSUME TypeOK, NEW e \in Device, NEW o \in Object, NEW s \in seen[e][o]
    PROVE  /\ s \in PhraseState /\ s.pinned \in LWWBool /\ s.presence \in Presence
           /\ \A c \in Clocks(s) : c \in HLC /\ c.wall \in Int /\ c.counter \in Int
<1>1. s \in PhraseState
  BY DEF TypeOK
<1>2. s.pinned \in LWWBool /\ s.presence \in Presence
  BY <1>1 DEF PhraseState
<1>3. \A c \in Clocks(s) : c \in HLC
  BY <1>2 DEF Clocks, LWWBool, Presence
<1> QED
  BY <1>1, <1>2, <1>3, HLCTypes

\* The clock of a local event is in no state anywhere: its device has never
\* given it out.
LEMMA EventClockFresh ==
    ASSUME TypeOK, OwnClocks, NEW d \in Device, NEW h \in Ticks(d),
           NEW e \in Device, NEW o \in Object, NEW s \in seen[e][o], NEW c \in Clocks(s)
    PROVE  c # eventClock(d, h)
<1>1. SUFFICES ASSUME c = eventClock(d, h) PROVE FALSE
  BY Zenon
<1>2. c.wall = h.wall /\ c.counter = h.counter /\ c.node = d
  BY <1>1 DEF eventClock
<1>3. ~StampLess(hlc[d], c)
  BY <1>2 DEF OwnClocks
<1>4. StampLess(hlc[d], h)
  BY TickNewer
<1> QED
  BY <1>2, <1>3, <1>4 DEF StampLess

\* A clock that a device has given out stays behind its clock as that moves.
LEMMA OwnClocksMove ==
    ASSUME TypeOK, OwnClocks, NEW d \in Device, NEW h \in Stamp, ~StampLess(h, hlc[d]),
           hlc' = [hlc EXCEPT ![d] = h],
           NEW e \in Device, NEW o \in Object, NEW s \in seen[e][o], NEW c \in Clocks(s),
           NEW f \in Device, c.node = f
    PROVE  ~StampLess(hlc'[f], c)
<1>1. ~StampLess(hlc[f], c)
  BY DEF OwnClocks
<1>2. hlc[d] \in Stamp /\ hlc'[f] = IF f = d THEN h ELSE hlc[f]
  BY DEF TypeOK
<1>3. c.wall \in Int /\ c.counter \in Int
  BY SeenClocks
<1> QED
  BY <1>1, <1>2, <1>3, StampInts, NotBefore

\* The write a clock names, for two states that any two devices saw.
SameWrite(s, t) ==
    /\ s.pinned.clock = t.pinned.clock => s.pinned = t.pinned
    /\ s.presence.clock = t.presence.clock => s.presence = t.presence

\* A locally written state agrees with every state seen before: what it has
\* not taken from its row carries a clock that nobody saw.
LEMMA NewWriteAgrees ==
    ASSUME HistoryInv, NEW d \in Device, NEW h \in Ticks(d), NEW o \in Object,
           NEW new, FromEvent(d, o, new, h),
           NEW e \in Device, NEW t \in seen[e][o]
    PROVE  SameWrite(new, t) /\ SameWrite(t, new)
<1>1. \A c \in Clocks(t) : c # eventClock(d, h)
  BY EventClockFresh DEF HistoryInv
<1>2. \A s \in seen[d][o] : SameWrite(s, t)
  BY SMTT(30) DEF HistoryInv, ClocksNameOneWrite, SameWrite
<1>3. new.pinned.clock = t.pinned.clock => new.pinned = t.pinned
  <2>1. CASE new.pinned.clock = eventClock(d, h)
    BY <1>1, <2>1, Zenon DEF Clocks
  <2>2. CASE row[d][o] # NoRow /\ new.pinned = row[d][o].pinned
    <3>1. PICK s \in seen[d][o] : s.pinned = row[d][o].pinned
      BY <2>2, Zenon DEF HistoryInv, RowFromSeen
    <3> QED
      BY <1>2, <2>2, <3>1, Zenon DEF SameWrite
  <2> QED
    BY <2>1, <2>2 DEF FromEvent
<1>4. new.presence.clock = t.presence.clock => new.presence = t.presence
  <2>1. CASE new.presence.clock = eventClock(d, h)
    BY <1>1, <2>1, Zenon DEF Clocks
  <2>2. CASE row[d][o] # NoRow /\ new.presence = row[d][o].presence
    <3>1. PICK s \in seen[d][o] : s.presence = row[d][o].presence
      BY <2>2, Zenon DEF HistoryInv, RowFromSeen
    <3> QED
      BY <1>2, <2>2, <3>1, Zenon DEF SameWrite
  <2> QED
    BY <2>1, <2>2 DEF FromEvent
<1> QED
  BY <1>3, <1>4, Zenon DEF SameWrite

\* A clock of a locally written state that names a device is not ahead of it.
LEMMA NewWriteOwned ==
    ASSUME HistoryInv, NEW d \in Device, NEW h \in Ticks(d), NEW o \in Object,
           NEW new, LocalWrite(d, o, new, h),
           NEW c \in Clocks(new), NEW f \in Device, c.node = f
    PROVE  ~StampLess(hlc'[f], c)
<1>1. h \in Stamp /\ ~StampLess(h, hlc[d])
  BY TickNewer, Zenon DEF HistoryInv
<1>2. hlc' = [hlc EXCEPT ![d] = h] /\ hlc'[d] = h /\ ~StampLess(h, c)
  BY DEF HistoryInv, TypeOK, LocalWrite, Grown
<1>3. CASE c = eventClock(d, h)
  BY <1>2, <1>3, Zenon DEF eventClock
<1>4. CASE c # eventClock(d, h)
  <2>1. PICK s \in seen[d][o] : c \in Clocks(s)
    <3>1. \/ row[d][o] # NoRow /\ c = row[d][o].pinned.clock
          \/ row[d][o] # NoRow /\ c = row[d][o].presence.clock
      BY <1>4 DEF LocalWrite, FromEvent, Clocks
    <3> QED
      BY <3>1, SMTT(30) DEF HistoryInv, RowFromSeen, Clocks
  <2> QED
    BY <1>1, <1>2, <2>1, OwnClocksMove, Zenon DEF HistoryInv
<1> QED
  BY <1>3, <1>4, Zenon

\* A set pin of a locally written state came from an explicit save.
LEMMA NewWriteExplicit ==
    ASSUME HistoryInv, NEW d \in Device, NEW h \in Ticks(d), NEW o \in Object,
           NEW new, LocalWrite(d, o, new, h)
    PROVE  new.pinned \in pinEvents'[o] \/ ~new.pinned.value
<1>1. CASE row[d][o] # NoRow /\ new.pinned = row[d][o].pinned
  <2>1. PICK s \in seen[d][o] : s.pinned = row[d][o].pinned
    BY <1>1 DEF HistoryInv, RowFromSeen
  <2>2. s.pinned \in pinEvents[o] \/ ~s.pinned.value
    BY DEF HistoryInv, PinsExplicit
  <2> QED
    BY <1>1, <2>1, <2>2, Zenon DEF LocalWrite
<1> QED
  BY <1>1, Zenon DEF LocalWrite, FromEvent

\* SaveExplicit, RecordSelection and Delete keep the history invariant.
LEMMA LocalHistory ==
    ASSUME HistoryInv, NEW d \in Device, NEW h \in Ticks(d), NEW o \in Object,
           NEW new, LocalWrite(d, o, new, h)
    PROVE  HistoryInv'
<1>1. TypeOK' /\ ClockDominates'
  BY LocalWriteStep, Zenon DEF HistoryInv, GoodStep
<1>2. RowAbove' /\ RowFromSeen'
  BY RowStep, Zenon DEF HistoryInv, LocalWrite, Grown
<1>3. /\ seen'[d][o] = seen[d][o] \cup {new}
      /\ \A e \in Device, p \in Object : e # d \/ p # o => seen'[e][p] = seen[e][p]
  BY Zenon DEF HistoryInv, TypeOK, LocalWrite
<1>4. ASSUME NEW e \in Device, NEW p \in Object, NEW s \in seen'[e][p]
      PROVE  s \in seen[e][p] \/ (e = d /\ p = o /\ s = new)
  BY <1>3, <1>4, SMTT(30)
<1>5. OutboxSeen'
  <2>1. SUFFICES ASSUME NEW p \in Object, NEW s \in outbox'[p]
                 PROVE  \E e \in Device : s \in seen'[e][p]
    BY Zenon DEF OutboxSeen
  <2>2. s \in outbox[p] \/ (p = o /\ s = new)
    BY ZenonT(30) DEF HistoryInv, TypeOK, LocalWrite
  <2> QED
    BY <1>3, <2>2 DEF HistoryInv, OutboxSeen
<1>6. OwnClocks'
  <2>1. SUFFICES ASSUME NEW f \in Device, NEW e \in Device, NEW p \in Object,
                        NEW s \in seen'[e][p], NEW c \in Clocks(s), c.node = f
                 PROVE  ~StampLess(hlc'[f], c)
    BY Zenon DEF OwnClocks, Clocks
  <2>2. CASE s \in seen[e][p]
    <3>1. h \in Stamp /\ ~StampLess(h, hlc[d])
      BY TickNewer, Zenon DEF HistoryInv
    <3> QED
      BY <2>1, <2>2, <3>1, OwnClocksMove, Zenon DEF HistoryInv, LocalWrite
  <2>3. CASE s = new
    BY <2>1, <2>3, NewWriteOwned
  <2> QED
    BY <1>4, <2>2, <2>3, Zenon
<1>7. PinsExplicit'
  <2>1. SUFFICES ASSUME NEW e \in Device, NEW p \in Object, NEW s \in seen'[e][p]
                 PROVE  s.pinned \in pinEvents'[p] \/ ~s.pinned.value
    BY Zenon DEF PinsExplicit
  <2>2. CASE s \in seen[e][p]
    BY <2>2 DEF HistoryInv, PinsExplicit, LocalWrite
  <2>3. CASE p = o /\ s = new
    BY <2>3, NewWriteExplicit, Zenon
  <2> QED
    BY <1>4, <2>2, <2>3
<1>8. ClocksNameOneWrite'
  <2>1. SUFFICES ASSUME NEW p \in Object, NEW e \in Device, NEW f \in Device,
                        NEW s \in seen'[e][p], NEW t \in seen'[f][p]
                 PROVE  SameWrite(s, t)
    BY SMTT(30) DEF ClocksNameOneWrite, SameWrite
  <2>2. CASE s \in seen[e][p] /\ t \in seen[f][p]
    BY <2>2, SMTT(30) DEF HistoryInv, ClocksNameOneWrite, SameWrite
  <2>3. CASE p = o /\ s = new /\ t \in seen[f][p]
    BY <2>3, NewWriteAgrees, Zenon DEF LocalWrite
  <2>4. CASE p = o /\ t = new /\ s \in seen[e][p]
    BY <2>4, NewWriteAgrees DEF LocalWrite
  <2>5. CASE s = new /\ t = new
    BY <2>5 DEF SameWrite
  <2> QED
    BY <1>4, <2>2, <2>3, <2>4, <2>5, Zenon
<1> QED
  BY <1>1, <1>2, <1>5, <1>6, <1>7, <1>8 DEF HistoryInv

\* A step after which every device saw only what somebody had seen, and clocks
\* have only moved forward, keeps the parts about all states together.
LEMMA SeenAlready ==
    ASSUME HistoryInv, NEW d \in Device, NEW h \in Stamp, ~StampLess(h, hlc[d]),
           hlc' = [hlc EXCEPT ![d] = h], outbox' = outbox, pinEvents' = pinEvents,
           \A e \in Device, p \in Object : seen[e][p] \subseteq seen'[e][p],
           \A e \in Device, p \in Object : \A s \in seen'[e][p] :
               \E f \in Device : s \in seen[f][p]
    PROVE  OutboxSeen' /\ OwnClocks' /\ PinsExplicit' /\ ClocksNameOneWrite'
<1>1. OutboxSeen'
  BY Zenon DEF HistoryInv, OutboxSeen
<1>2. OwnClocks'
  <2>1. SUFFICES ASSUME NEW f \in Device, NEW e \in Device, NEW p \in Object,
                        NEW s \in seen'[e][p], NEW c \in Clocks(s), c.node = f
                 PROVE  ~StampLess(hlc'[f], c)
    BY DEF OwnClocks, Clocks
  <2>2. PICK g \in Device : s \in seen[g][p]
    OBVIOUS
  <2> QED
    BY <2>1, <2>2, OwnClocksMove, Zenon DEF HistoryInv
<1>3. PinsExplicit'
  BY Zenon DEF HistoryInv, PinsExplicit
<1>4. ClocksNameOneWrite'
  <2>1. SUFFICES ASSUME NEW p \in Object, NEW e \in Device, NEW f \in Device,
                        NEW s \in seen'[e][p], NEW t \in seen'[f][p]
                 PROVE  SameWrite(s, t)
    BY DEF ClocksNameOneWrite, SameWrite
  <2>2. PICK x \in Device : s \in seen[x][p]
    OBVIOUS
  <2>3. PICK y \in Device : t \in seen[y][p]
    OBVIOUS
  <2> QED
    BY <2>2, <2>3, SMTT(30) DEF HistoryInv, ClocksNameOneWrite, SameWrite
<1> QED
  BY <1>1, <1>2, <1>3, <1>4

\* MergeRemotePayload keeps the history invariant, stopped half-way or not.
LEMMA MergeHistory ==
    ASSUME HistoryInv, NEW d \in Device, NEW o \in Object, NEW payload \in outbox[o],
           \/ MergeRemotePayload(d, o, payload)
           \/ StopAfterObserve(d, o, payload)
    PROVE  HistoryInv'
<1> DEFINE h == observeHLC(hlc[d], latestClock(Merged(d, o, payload)))
<1>1. payload \in PhraseState
  BY Zenon DEF HistoryInv, TypeOK
<1>2. h \in Stamp /\ ~StampLess(h, hlc[d]) /\ Grown(d, o, Merged(d, o, payload), h)
  BY <1>1, MergedState, Zenon DEF HistoryInv
<1>3. hlc' = [hlc EXCEPT ![d] = h] /\ outbox' = outbox /\ pinEvents' = pinEvents
  BY DEF HistoryInv, MergeRemotePayload, StopAfterObserve, TypeOK
<1> HIDE DEF h
<1>4. TypeOK' /\ ClockDominates'
  BY MergeStep, Zenon DEF HistoryInv, GoodStep
<1>5. CASE MergeRemotePayload(d, o, payload)
  <2>1. /\ row' = [row EXCEPT ![d][o] = Merged(d, o, payload)]
        /\ seen' = [seen EXCEPT ![d][o] = @ \cup {payload}]
    BY <1>5, Zenon DEF MergeRemotePayload
  <2>2. RowAbove' /\ RowFromSeen'
    <3>1. /\ Merged(d, o, payload) \in PhraseState
          /\ row[d][o] # NoRow =>
                MergePhrase(row[d][o], Merged(d, o, payload)) = Merged(d, o, payload)
      BY <1>2 DEF Grown
    <3>2. \/ Merged(d, o, payload) = payload
          \/ row[d][o] # NoRow /\ Merged(d, o, payload) = MergePhrase(row[d][o], payload)
      BY DEF Merged
    <3> QED
      BY <1>1, <2>1, <3>1, <3>2, RowStep, Zenon DEF HistoryInv
  <2>3. PICK f \in Device : payload \in seen[f][o]
    BY Zenon DEF HistoryInv, OutboxSeen
  <2>4. /\ \A e \in Device, p \in Object : seen[e][p] \subseteq seen'[e][p]
        /\ \A e \in Device, p \in Object : \A s \in seen'[e][p] :
               s \in seen[e][p] \/ (p = o /\ s = payload)
    BY <2>1, Zenon DEF HistoryInv, TypeOK
  <2>5. OutboxSeen' /\ OwnClocks' /\ PinsExplicit' /\ ClocksNameOneWrite'
    BY <1>2, <1>3, <2>3, <2>4, SeenAlready, Zenon
  <2> QED
    BY <1>4, <2>2, <2>5, Zenon DEF HistoryInv
<1>6. CASE StopAfterObserve(d, o, payload)
  <2>1. row' = row /\ seen' = seen
    BY <1>6, Zenon DEF StopAfterObserve
  <2>2. OutboxSeen' /\ OwnClocks' /\ PinsExplicit' /\ ClocksNameOneWrite'
    BY <1>2, <1>3, <2>1, SeenAlready, Zenon
  <2> QED
    BY <1>4, <2>1, <2>2, SMTT(30) DEF HistoryInv, RowAbove, RowFromSeen
<1> QED
  BY <1>5, <1>6

\* An operation that stops after its tick keeps the history invariant.
LEMMA TickHistory ==
    ASSUME HistoryInv, NEW d \in Device, StopAfterTick(d)
    PROVE  HistoryInv'
<1>1. PICK h \in Ticks(d) : Tick(d, h) /\ UNCHANGED <<row, outbox, seen, pinEvents>>
  BY DEF StopAfterTick
<1>2. h \in Stamp /\ ~StampLess(h, hlc[d])
  BY TickNewer DEF HistoryInv
<1>3. OutboxSeen' /\ OwnClocks' /\ PinsExplicit' /\ ClocksNameOneWrite'
  BY <1>1, <1>2, SeenAlready, Zenon DEF Tick
<1>4. TypeOK' /\ ClockDominates'
  BY StopAfterTickStep DEF HistoryInv, GoodStep
<1>5. RowAbove' /\ RowFromSeen'
  BY <1>1, RowsSame, Zenon DEF HistoryInv
<1> QED
  BY <1>3, <1>4, <1>5, Zenon DEF HistoryInv

\* The history invariant: a row is above every state that its device wrote or
\* merged and made of their parts; the stored clock of a device is ahead of
\* every clock it ever gave out; so a clock names one write.
THEOREM HistoryInvariant ==
    Spec => []HistoryInv
<1>1. Init => HistoryInv
  <2>1. Init => TypeOK /\ ClockDominates
    BY InitGood, Zenon
  <2>2. Init => /\ RowAbove /\ RowFromSeen /\ OutboxSeen
                /\ OwnClocks /\ PinsExplicit /\ ClocksNameOneWrite
    BY SMTT(30) DEF Init, RowAbove, RowFromSeen, OutboxSeen, OwnClocks, PinsExplicit,
           ClocksNameOneWrite
  <2> QED
    BY <2>1, <2>2 DEF HistoryInv
<1>2. HistoryInv /\ [Next]_vars => HistoryInv'
  <2>1. SUFFICES ASSUME HistoryInv, [Next]_vars PROVE HistoryInv'
    OBVIOUS
  <2>2. TypeOK /\ ClockDominates
    BY <2>1 DEF HistoryInv
  <2>3. CASE Next
    BY <2>1, <2>2, <2>3, SaveExplicitWrites, RecordSelectionWrites, DeleteWrites,
       LocalHistory, TickHistory, MergeHistory, Zenon DEF Next
  <2>4. CASE UNCHANGED vars
    <3>1. TypeOK' /\ ClockDominates'
      BY <2>2, <2>4, Zenon DEF vars, TypeOK, ClockDominates, Clocks
    <3>2. UNCHANGED <<hlc, row, outbox, seen, pinEvents>>
      BY <2>4, Zenon DEF vars
    <3>3. RowAbove' /\ RowFromSeen' /\ ClocksNameOneWrite'
      BY <2>1, <3>2, RowsSame, Zenon DEF HistoryInv
    <3>4. OutboxSeen' /\ PinsExplicit'
      BY <2>1, <3>2, Zenon DEF HistoryInv, OutboxSeen, PinsExplicit
    <3>5. OwnClocks'
      BY <2>1, <3>2, Zenon DEF HistoryInv, OwnClocks, Clocks
    <3> QED
      BY <3>1, <3>3, <3>4, <3>5, Zenon DEF HistoryInv
  <2> QED
    BY <2>1, <2>3, <2>4
<1> QED
  BY <1>1, <1>2, PTL DEF Spec

-----------------------------------------------------------------------------
(* What follows from it. *)

\* MergeSetting's comment calls two writes under one clock impossible: a pin
\* or presence clock names one write, over all devices.
THEOREM ClocksNameOneWriteTheorem ==
    Spec => []ClocksNameOneWrite
<1>1. HistoryInv => ClocksNameOneWrite
  BY DEF HistoryInv
<1> QED
  BY <1>1, HistoryInvariant, PTL

\* What being above a state says of a presence.
LEMMA AbovePresence ==
    ASSUME NEW a \in Presence, NEW b \in Presence, choosePresence(a, b) = b
    PROVE  /\ a.generation <= b.generation
           /\ a.generation = b.generation /\ b.present => a.present
           /\ a.generation = b.generation /\ a.present = b.present => ~HLCLess(b.clock, a.clock)
<1>1. /\ a.clock \in HLC /\ b.clock \in HLC /\ a.generation \in Nat /\ b.generation \in Nat
      /\ a.present \in BOOLEAN /\ b.present \in BOOLEAN
  BY DEF Presence
<1>2. a.generation <= b.generation
  BY <1>1 DEF choosePresence
<1>3. a.generation = b.generation /\ b.present => a.present
  BY <1>1, Zenon DEF choosePresence
<1>4. a.generation = b.generation /\ a.present = b.present => ~HLCLess(b.clock, a.clock)
  BY <1>1, HLCTotal, Zenon DEF choosePresence
<1> QED
  BY <1>2, <1>3, <1>4, Zenon

\* What being above a state says of a pin.
LEMMA AbovePin ==
    ASSUME NEW a \in LWWBool, NEW b \in LWWBool, chooseBool(a, b) = b
    PROVE  ~HLCLess(b.clock, a.clock)
<1>1. a.clock \in HLC /\ b.clock \in HLC
  BY DEF LWWBool
<1> QED
  BY <1>1, HLCTotal DEF chooseBool

\* A row's parts, against a state that its device saw.
LEMMA AboveParts ==
    ASSUME HistoryInv, NEW d \in Device, NEW o \in Object, NEW s \in seen[d][o]
    PROVE  /\ row[d][o] # NoRow /\ row[d][o] \in PhraseState /\ s \in PhraseState
           /\ row[d][o].presence \in Presence /\ s.presence \in Presence
           /\ row[d][o].pinned \in LWWBool /\ s.pinned \in LWWBool
           /\ choosePresence(s.presence, row[d][o].presence) = row[d][o].presence
           /\ chooseBool(s.pinned, row[d][o].pinned) = row[d][o].pinned
           /\ \A x \in Device : /\ s.counts[x] \in Nat /\ row[d][o].counts[x] \in Nat
                                /\ s.counts[x] <= row[d][o].counts[x]
<1>1. row[d][o] # NoRow /\ MergePhrase(s, row[d][o]) = row[d][o]
  BY Zenon DEF HistoryInv, RowAbove
<1>2. row[d][o] \in PhraseState /\ s \in PhraseState
  BY <1>1, Zenon DEF HistoryInv, TypeOK
<1>3. /\ row[d][o].presence \in Presence /\ s.presence \in Presence
      /\ row[d][o].pinned \in LWWBool /\ s.pinned \in LWWBool
      /\ row[d][o].counts \in [Device -> Nat] /\ s.counts \in [Device -> Nat]
  BY <1>2, Zenon DEF PhraseState
<1>4. /\ choosePresence(s.presence, row[d][o].presence) = row[d][o].presence
      /\ chooseBool(s.pinned, row[d][o].pinned) = row[d][o].pinned
      /\ MergeCounts(s.counts, row[d][o].counts) = row[d][o].counts
  <2> DEFINE merged == MergePhrase(s, row[d][o])
  <2>1. /\ merged.counts = MergeCounts(s.counts, row[d][o].counts)
        /\ merged.pinned = chooseBool(s.pinned, row[d][o].pinned)
        /\ merged.presence = choosePresence(s.presence, row[d][o].presence)
    BY MergePhraseParts, Zenon
  <2>2. merged = row[d][o]
    BY <1>1, Zenon
  <2> HIDE DEF merged
  <2> QED
    BY <2>1, <2>2
<1>5. \A x \in Device : /\ s.counts[x] \in Nat /\ row[d][o].counts[x] \in Nat
                        /\ s.counts[x] <= row[d][o].counts[x]
  BY <1>3, <1>4 DEF MergeCounts
<1> QED
  BY <1>1, <1>2, <1>3, <1>4, <1>5, Zenon

\* A removal that a device has seen is undone only by a later generation,
\* whatever payloads arrive after it (choosePresence of protocol/crdt.go).
THEOREM RemoveWinsTheorem ==
    Spec => []RemoveWins
<1>1. HistoryInv => RemoveWins
  <2>1. SUFFICES ASSUME HistoryInv, NEW d \in Device, NEW o \in Object,
                        NEW s \in seen[d][o],
                        ~s.presence.present, row[d][o].presence.present
                 PROVE  row[d][o].presence.generation > s.presence.generation
    BY Zenon DEF RemoveWins
  <2>2. /\ row[d][o].presence \in Presence /\ s.presence \in Presence
        /\ choosePresence(s.presence, row[d][o].presence) = row[d][o].presence
    BY <2>1, AboveParts, Zenon
  <2>3. /\ s.presence.generation <= row[d][o].presence.generation
        /\ s.presence.generation # row[d][o].presence.generation
    BY <2>1, <2>2, AbovePresence
  <2>4. row[d][o].presence.generation \in Nat /\ s.presence.generation \in Nat
    BY <2>2 DEF Presence
  <2> QED
    BY <2>3, <2>4
<1> QED
  BY <1>1, HistoryInvariant, PTL

\* Max of a set is its member that is not below another.
LEMMA MaxIs ==
    ASSUME NEW S \in SUBSET Nat, NEW m \in S, \A n \in S : n <= m
    PROVE  Max(S) = m
<1>1. \A y \in S : m >= y
  OBVIOUS
<1>2. \E x \in S : \A y \in S : x >= y
  BY <1>1
<1>3. Max(S) \in S /\ \A y \in S : Max(S) >= y
  BY <1>2, Zenon DEF Max
<1>4. Max(S) \in Nat /\ m \in Nat /\ Max(S) >= m /\ Max(S) <= m
  BY <1>3, Zenon
<1> QED
  BY <1>4

\* Of the explicit pins a device has seen, the newest holds, or the default of
\* a row that was created later (ensurePhraseState of crdt_adapter.go).
THEOREM PinLostOnlyToCreationTheorem ==
    Spec => []PinLostOnlyToCreation
<1>1. HistoryInv => PinLostOnlyToCreation
  <2>1. SUFFICES ASSUME HistoryInv, NEW d \in Device, NEW o \in Object
        PROVE  LET events == {s.pinned : s \in seen[d][o]} \cap pinEvents[o]
                   pin    == row[d][o].pinned
               IN  events # {} =>
                       \/ \E e \in LatestOf(events) : pin.value = e.value
                       \/ /\ ~pin.value /\ pin \notin pinEvents[o]
                          /\ \A e \in events : HLCLess(e.clock, pin.clock)
    BY DEF PinLostOnlyToCreation
  <2> DEFINE events == {s.pinned : s \in seen[d][o]} \cap pinEvents[o]
             pin    == row[d][o].pinned
  <2>2. SUFFICES ASSUME events # {}
                 PROVE  \/ \E e \in LatestOf(events) : pin.value = e.value
                        \/ /\ ~pin.value /\ pin \notin pinEvents[o]
                           /\ \A e \in events : HLCLess(e.clock, pin.clock)
    BY Zenon
  <2>3. row[d][o] # NoRow /\ pin \in LWWBool
    BY <2>1, <2>2, AboveParts, SMTT(30)
  <2>4. PICK s \in seen[d][o] : s.pinned = pin
    BY <2>1, <2>3, Zenon DEF HistoryInv, RowFromSeen
  <2>5. ASSUME NEW e \in events PROVE e \in LWWBool /\ ~HLCLess(pin.clock, e.clock)
    <3>1. PICK t \in seen[d][o] : t.pinned = e
      BY <2>5, Zenon
    <3> QED
      BY <2>1, <3>1, AboveParts, AbovePin
  <2>6. CASE pin \in pinEvents[o]
    <3>1. pin \in events
      BY <2>4, <2>6, Zenon
    <3>2. pin \in LatestOf(events)
      BY <2>5, <3>1, Zenon DEF LatestOf
    <3> QED
      BY <3>2, Zenon
  <2>7. CASE pin \notin pinEvents[o]
    <3>1. ~pin.value
      BY <2>1, <2>4, <2>7, Zenon DEF HistoryInv, PinsExplicit
    <3>2. ASSUME NEW e \in events PROVE HLCLess(e.clock, pin.clock)
      <4>1. PICK t \in seen[d][o] : t.pinned = e
        BY <3>2, Zenon
      <4>2. SameWrite(t, s)
        BY <2>1, SMTT(30) DEF HistoryInv, ClocksNameOneWrite, SameWrite
      <4>3. e.clock # pin.clock
        BY <2>4, <2>7, <3>2, <4>1, <4>2, Zenon DEF SameWrite
      <4>4. e.clock \in HLC /\ pin.clock \in HLC /\ ~HLCLess(pin.clock, e.clock)
        BY <2>3, <2>5, <3>2 DEF LWWBool
      <4> QED
        BY <4>3, <4>4, HLCTotal
    <3> QED
      BY <2>7, <3>1, <3>2
  <2> QED
    BY <2>6, <2>7, Zenon
<1> QED
  BY <1>1, HistoryInvariant, PTL

\* A row is the least upper bound of the states its device wrote or merged:
\* MergeRemotePayload gives devices that saw the same states the same row.
THEOREM RowIsJoinTheorem ==
    Spec => []RowIsJoin
<1>1. HistoryInv => RowIsJoin
  <2> SUFFICES ASSUME HistoryInv, NEW d \in Device, NEW o \in Object, row[d][o] # NoRow
      PROVE  LET states  == seen[d][o]
                 top     == {s.presence : s \in {t \in states : \A u \in states :
                                u.presence.generation <= t.presence.generation}}
                 removed == {p \in top : ~p.present}
             IN  /\ \A x \in Device :
                       row[d][o].counts[x] = Max({s.counts[x] : s \in states})
                 /\ row[d][o].pinned \in LatestOf({s.pinned : s \in states})
                 /\ row[d][o].presence \in LatestOf(IF removed # {} THEN removed ELSE top)
    BY Zenon DEF RowIsJoin
  <2> DEFINE states  == seen[d][o]
             top     == {s.presence : s \in {t \in states : \A u \in states :
                            u.presence.generation <= t.presence.generation}}
             removed == {p \in top : ~p.present}
             pres    == row[d][o].presence
  <2>1. ASSUME NEW x \in Device
        PROVE  row[d][o].counts[x] = Max({s.counts[x] : s \in states})
    <3>1. row[d][o].counts[x] \in {s.counts[x] : s \in states}
      <4>1. PICK s \in states : s.counts[x] = row[d][o].counts[x]
        BY Zenon DEF HistoryInv, RowFromSeen
      <4> QED
        BY <4>1, Zenon
    <3>2. \A n \in {s.counts[x] : s \in states} : n \in Nat /\ n <= row[d][o].counts[x]
      BY AboveParts
    <3> QED
      BY <3>1, <3>2, MaxIs, Zenon
  <2>2. row[d][o].pinned \in LatestOf({s.pinned : s \in states})
    <3>1. row[d][o].pinned \in {s.pinned : s \in states}
      BY ZenonT(30) DEF HistoryInv, RowFromSeen
    <3>2. \A v \in {s.pinned : s \in states} : ~HLCLess(row[d][o].pinned.clock, v.clock)
      BY AboveParts, AbovePin, Zenon
    <3> QED
      BY <3>1, <3>2, Zenon DEF LatestOf
  <2>3. PICK s \in states : s.presence = pres
    BY Zenon DEF HistoryInv, RowFromSeen
  <2>4. \A t \in states : /\ t.presence \in Presence /\ pres \in Presence
                          /\ choosePresence(t.presence, pres) = pres
    BY AboveParts, Zenon
  <2> HIDE DEF pres
  <2>5. \A t \in states : t.presence.generation <= pres.generation
    BY <2>4, AbovePresence
  <2>6. pres \in top
    BY <2>3, <2>5, Zenon
  <2>7. ASSUME NEW p \in top
        PROVE  /\ p \in Presence /\ choosePresence(p, pres) = pres
               /\ p.generation = pres.generation
    <3>1. PICK t \in states : t.presence = p /\ \A u \in states :
                                u.presence.generation <= t.presence.generation
      BY <2>7
    <3>2. p \in Presence /\ choosePresence(p, pres) = pres /\ pres \in Presence
      BY <2>4, <3>1, Zenon
    <3>3. pres.generation <= p.generation /\ p.generation <= pres.generation
      BY <2>3, <2>5, <3>1
    <3>4. p.generation \in Nat /\ pres.generation \in Nat
      BY <3>2, Zenon DEF Presence
    <3> QED
      BY <3>2, <3>3, <3>4, SMTT(30)
  <2>8. pres \in Presence /\ \A p \in top : p.present \in BOOLEAN
    BY <2>3, <2>4, <2>7 DEF Presence
  <2>9. pres.present \in BOOLEAN
    BY <2>8, Zenon DEF Presence
  <2> HIDE DEF top
  <2>10. \A p \in top : /\ pres.present => p.present
                        /\ p.present = pres.present => ~HLCLess(pres.clock, p.clock)
    BY <2>7, <2>8, AbovePresence, Zenon
  <2>11. pres \in LatestOf(IF removed # {} THEN removed ELSE top)
    <3>1. CASE removed # {}
      <4>1. PICK p \in top : ~p.present
        BY <3>1, Zenon
      <4>2. pres \in removed
        BY <2>6, <2>10, <4>1
      <4>3. \A v \in removed : ~HLCLess(pres.clock, v.clock)
        BY <2>8, <2>9, <2>10, <4>2
      <4> QED
        BY <3>1, <4>2, <4>3 DEF LatestOf
    <3>2. CASE removed = {}
      <4>1. \A v \in top : v.present /\ pres.present
        BY <2>6, <3>2
      <4>2. \A v \in top : ~HLCLess(pres.clock, v.clock)
        BY <2>8, <2>9, <2>10, <4>1
      <4> QED
        BY <2>6, <3>2, <4>2 DEF LatestOf
    <3> QED
      BY <3>1, <3>2, Zenon
  <2> QED
    BY <2>1, <2>2, <2>11, Zenon DEF pres, top
<1> QED
  BY <1>1, HistoryInvariant, PTL
=============================================================================
