--------------------------- MODULE PhraseReplica ---------------------------
(***************************************************************************)
(* The phrase rows and the hybrid logical clock of each device's encrypted *)
(* local store (localstore/store.go, localstore/crdt_adapter.go), and the  *)
(* four operations on them.  A payload that reached the outbox may be      *)
(* merged by any device, at any time, in any order and any number of       *)
(* times: how the relay carries it is the subject of SyncSystem.           *)
(*                                                                         *)
(* The wall clock of a device is arbitrary: it may jump, and go back.      *)
(* nextHLC and observeHLC commit before the row is written, so a failure   *)
(* or a crash in between keeps the clock and loses the write.              *)
(***************************************************************************)
EXTENDS PhraseCRDT, FiniteSetsExt

CONSTANTS
    Object,      \* opaque object identifiers
    NoRow,       \* "the row is not in encrypted_phrases"
    CountMax,    \* ^uint64(0), the largest use counter
    GenMax,      \* ^uint64(0), the largest generation
    Wall,        \* the wall clock readings, in milliseconds
    Wanted,      \* the UseCount values an explicit save may carry
    MaxOps       \* bound: local operations in a behaviour

ASSUME NoRowAssumption == NoRow \notin PhraseState
ASSUME LimitAssumption == CountMax \in Nat /\ GenMax \in Nat \ {0}
ASSUME InputAssumption == Wall \subseteq Nat /\ Wanted \subseteq Nat /\ MaxOps \in Nat

VARIABLES
    hlc,        \* hlc[d]: metadata rows hlc_wall_ms and hlc_counter
    row,        \* row[d][o]: the CRDT field of the encrypted phrase
    outbox,     \* outbox[o]: every state that some device has enqueued for o
    seen,       \* history: seen[d][o], the states written or merged by d
    pinEvents,  \* history: pinEvents[o], the pin values written by SaveExplicit
    ops         \* number of local operations so far

vars == <<hlc, row, outbox, seen, pinEvents, ops>>

Stamp == [wall : Nat, counter : 0 .. CounterMax]

learningThreshold == 2

Init ==
    /\ hlc = [d \in Device |-> [wall |-> 0, counter |-> 0]]
    /\ row = [d \in Device |-> [o \in Object |-> NoRow]]
    /\ outbox = [o \in Object |-> {}]
    /\ seen = [d \in Device |-> [o \in Object |-> {}]]
    /\ pinEvents = [o \in Object |-> {}]
    /\ ops = 0

-----------------------------------------------------------------------------
(* The clock. *)

nextHLC_NoCarry(h, physical) ==
    IF physical > h.wall THEN [wall |-> physical, counter |-> 0]
    ELSE [wall |-> h.wall, counter |-> (h.counter + 1) % (CounterMax + 1)]

nextHLC(h, physical) ==
    IF physical > h.wall THEN [wall |-> physical, counter |-> 0]
    ELSE IF h.counter >= CounterMax THEN [wall |-> h.wall + 1, counter |-> 0]
    ELSE [wall |-> h.wall, counter |-> h.counter + 1]

observeHLC_WallOnly(h, observed) ==
    IF h.wall < observed.wall
    THEN [wall |-> observed.wall, counter |-> observed.counter] ELSE h

observeHLC(h, observed) ==
    IF StampLess(h, observed)
    THEN [wall |-> observed.wall, counter |-> observed.counter] ELSE h

eventClock(d, h) == [wall |-> h.wall, counter |-> h.counter, node |-> d]

-----------------------------------------------------------------------------
(* Helpers of the mutations. *)

\* The aggregate use count; the addition saturates.
totalCounts(counts) ==
    LET sum == MapThenSumSet(LAMBDA d : counts[d], Device)
    IN  IF sum > CountMax THEN CountMax ELSE sum

ensurePhraseState_Reset(d, o, pinned, clock) ==
    [counts   |-> [x \in Device |-> 0],
     pinned   |-> [value |-> pinned, clock |-> clock],
     presence |-> [present |-> TRUE, clock |-> clock, generation |-> 1]]

\* The stored state, or the one a new phrase starts from.
ensurePhraseState(d, o, pinned, clock) ==
    IF row[d][o] # NoRow THEN row[d][o]
    ELSE [counts   |-> [x \in Device |-> 0],
          pinned   |-> [value |-> pinned, clock |-> clock],
          presence |-> [present |-> TRUE, clock |-> clock, generation |-> 1]]

\* Write the row and, in the same transaction, the outbox event.
upsert(d, o, state, enqueue) ==
    /\ row' = [row EXCEPT ![d][o] = state]
    /\ outbox' = IF enqueue THEN [outbox EXCEPT ![o] = @ \cup {state}] ELSE outbox
    /\ seen' = [seen EXCEPT ![d][o] = @ \cup {state}]

\* Every local operation first takes the next clock reading h and stores it.
Tick(d, h) ==
    /\ ops < MaxOps
    /\ ops' = ops + 1
    /\ hlc' = [hlc EXCEPT ![d] = h]

Ticks(d) == {nextHLC(hlc[d], physical) : physical \in Wall}

-----------------------------------------------------------------------------
(* The operations. *)

ReAdd_SameGeneration(presence, clock) ==
    IF presence.present THEN presence
    ELSE [present |-> TRUE, clock |-> clock, generation |-> presence.generation]

\* A removed phrase comes back in the next generation.
ReAdd(presence, clock) ==
    IF presence.present THEN presence
    ELSE [present |-> TRUE, clock |-> clock, generation |-> presence.generation + 1]

SetPinned_KeepClock(pinned, wanted, clock) ==
    [pinned EXCEPT !.value = wanted]

SetPinned(pinned, wanted, clock) ==
    IF pinned.value = wanted THEN pinned ELSE [value |-> wanted, clock |-> clock]

SaveExplicit(d, o, wantedPinned, wantedCount) ==
    \E h \in Ticks(d) :
        LET clock == eventClock(d, h)
            st    == ensurePhraseState(d, o, wantedPinned, clock)
            pin   == SetPinned(st.pinned, wantedPinned, clock)
        IN  /\ Tick(d, h)
            /\ st.presence.present \/ st.presence.generation < GenMax
            /\ \E delta \in 0 .. wantedCount :
                  /\ delta = IF wantedCount > totalCounts(st.counts)
                             THEN wantedCount - totalCounts(st.counts) ELSE 0
                  /\ st.counts[d] + delta <= CountMax
                  /\ upsert(d, o,
                            [counts   |-> [st.counts EXCEPT ![d] = @ + delta],
                             pinned   |-> pin,
                             presence |-> ReAdd(st.presence, clock)], TRUE)
            /\ pinEvents' = IF pin.clock = clock
                            THEN [pinEvents EXCEPT ![o] = @ \cup {pin}] ELSE pinEvents

RecordSelection(d, o) ==
    \E h \in Ticks(d) :
        LET st     == ensurePhraseState(d, o, FALSE, eventClock(d, h))
            counts == [st.counts EXCEPT ![d] = @ + 1]
        IN  /\ Tick(d, h)
            /\ st.presence.present
            /\ st.counts[d] < CountMax
            /\ upsert(d, o, [st EXCEPT !.counts = counts],
                      totalCounts(counts) >= learningThreshold)
            /\ UNCHANGED pinEvents

\* Deleting an unknown phrase leaves a tombstone too.
Delete(d, o) ==
    \E h \in Ticks(d) :
        LET clock == eventClock(d, h)
            st    == ensurePhraseState(d, o, FALSE, clock)
        IN  /\ Tick(d, h)
            /\ upsert(d, o,
                      [st EXCEPT !.presence = [present    |-> FALSE,
                                               clock      |-> clock,
                                               generation |-> st.presence.generation]],
                      TRUE)
            /\ UNCHANGED pinEvents

\* An operation that stops after nextHLC has committed: the selection of a
\* removed phrase, an exhausted counter or generation, a failed write, a crash.
StopAfterTick(d) ==
    \E h \in Ticks(d) :
        /\ Tick(d, h)
        /\ UNCHANGED <<row, outbox, seen, pinEvents>>

Merged_TakeRemote(d, o, payload) ==
    payload

Merged(d, o, payload) ==
    IF row[d][o] = NoRow THEN payload ELSE MergePhrase(row[d][o], payload)

\* The merged row is written after its clock was observed, without an event.
MergeRemotePayload(d, o, payload) ==
    LET merged == Merged(d, o, payload)
    IN  /\ hlc' = [hlc EXCEPT ![d] = observeHLC(@, latestClock(merged))]
        /\ row' = [row EXCEPT ![d][o] = merged]
        /\ seen' = [seen EXCEPT ![d][o] = @ \cup {payload}]
        /\ UNCHANGED <<outbox, pinEvents, ops>>

\* The same, stopped between observeHLC and the write.
StopAfterObserve(d, o, payload) ==
    /\ hlc' = [hlc EXCEPT ![d] = observeHLC(@, latestClock(Merged(d, o, payload)))]
    /\ UNCHANGED <<row, outbox, seen, pinEvents, ops>>

Next ==
    \E d \in Device :
        \/ StopAfterTick(d)
        \/ \E o \in Object :
              \/ \E pinned \in BOOLEAN, count \in Wanted : SaveExplicit(d, o, pinned, count)
              \/ RecordSelection(d, o)
              \/ Delete(d, o)
              \/ \E payload \in outbox[o] :
                    \/ MergeRemotePayload(d, o, payload)
                    \/ StopAfterObserve(d, o, payload)

Spec == Init /\ [][Next]_vars

-----------------------------------------------------------------------------
(* Properties. *)

TypeOK ==
    /\ hlc \in [Device -> Stamp]
    /\ row \in [Device -> [Object -> PhraseState \cup {NoRow}]]
    /\ outbox \in [Object -> SUBSET PhraseState]
    /\ seen \in [Device -> [Object -> SUBSET PhraseState]]
    /\ pinEvents \in [Object -> SUBSET LWWBool]
    /\ ops \in 0 .. MaxOps

Clocks(state) == {state.pinned.clock, state.presence.clock}

\* The persisted hybrid clock of a device is never behind a clock in one of
\* its rows, across failures between nextHLC or observeHLC and the row write
\* and whatever the wall clock does.  A later local write is then causally
\* newer, as MergeRemotePayload's comment says.
ClockDominates ==
    \A d \in Device, o \in Object :
        row[d][o] # NoRow =>
            \A c \in Clocks(row[d][o]) : ~StampLess(hlc[d], c)

\* A clock identifies one write: two states never carry the same pin clock
\* with different values, nor the same presence clock with different
\* presences.  MergeSetting's comment calls that case impossible; chooseBool
\* and choosePresence are deterministic only by their last resort without it.
ClocksNameOneWrite ==
    \A o \in Object :
        LET states == UNION {seen[d][o] : d \in Device}
        IN  \A s, t \in states :
                /\ s.pinned.clock = t.pinned.clock => s.pinned = t.pinned
                /\ s.presence.clock = t.presence.clock => s.presence = t.presence

\* A row is the least upper bound of the states its device wrote or merged,
\* computed here component by component from the whole set: devices that saw
\* the same states hold the same row, in whatever order they saw them and
\* however often (strong eventual consistency).
LatestOf(writes) == {w \in writes : \A v \in writes : ~HLCLess(w.clock, v.clock)}

RowIsJoin ==
    \A d \in Device, o \in Object :
        row[d][o] # NoRow =>
            LET states  == seen[d][o]
                top     == {s.presence : s \in {t \in states : \A u \in states :
                                u.presence.generation <= t.presence.generation}}
                removed == {p \in top : ~p.present}
            IN  /\ \A x \in Device :
                      row[d][o].counts[x] = Max({s.counts[x] : s \in states})
                /\ row[d][o].pinned \in LatestOf({s.pinned : s \in states})
                /\ row[d][o].presence \in LatestOf(IF removed # {} THEN removed ELSE top)

\* Remove wins: once a device has seen a phrase removed in a generation, the
\* phrase shows up there again only in a later generation, which only
\* SaveExplicit creates; no counter, no delayed payload brings it back.
RemoveWins ==
    \A d \in Device, o \in Object : \A s \in seen[d][o] :
        ~s.presence.present /\ row[d][o].presence.present =>
            row[d][o].presence.generation > s.presence.generation

\* Every write of a row, local or merged, moves it up in the merge order: no
\* operation loses a count, a pin or a removal that the row already held.
RowsOnlyGrow ==
    [][\A d \in Device, o \in Object :
          row[d][o] # NoRow => MergePhrase(row[d][o], row'[d][o]) = row'[d][o]]_vars

\* Of the explicit pin events that a device has merged, the newest decides
\* whether a phrase is pinned, in whatever order they came; only the default
\* that ensurePhraseState gives a row created later, by an ordinary selection,
\* overrides it.
PinLostOnlyToCreation ==
    \A d \in Device, o \in Object :
        LET events == {s.pinned : s \in seen[d][o]} \cap pinEvents[o]
            pin    == row[d][o].pinned
        IN  events # {} =>
                \/ \E e \in LatestOf(events) : pin.value = e.value
                \/ /\ ~pin.value /\ pin \notin pinEvents[o]
                   /\ \A e \in events : HLCLess(e.clock, pin.clock)
=============================================================================
