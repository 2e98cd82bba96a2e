------------------------- MODULE CorrectionLearning -------------------------
(***************************************************************************)
(* The in-memory state machine of the engine that counts, per entry and    *)
(* local date, how often the entry was replaced and was the replacement.   *)
(* Its methods are operators on its state, because its one caller holds a  *)
(* lock across every call.                                                 *)
(*                                                                         *)
(* An entry is a phrase with its normalised pinyin; the entry identifier,  *)
(* a 128-bit hash of the two, is taken to tell entries apart.              *)
(***************************************************************************)
EXTENDS Integers, Sequences, FiniteSets, Functions

CONSTANTS
    Phrase,               \* phrases a user may commit
    Monitorable,          \* the phrases that do not look sensitive
    Date,                 \* local dates
    NoSelection,          \* an empty optional selection
    kMaxHabitStatEntries  \* rows of the aggregate

ASSUME MonitorableAssumption == Monitorable \subseteq Phrase

\* Pinyin as typed: letters, separators, and characters that are no pinyin.
NormalizePinyin(input) ==
    IF "bad" \in Range(input) THEN <<>>
    ELSE SelectSeq(input, LAMBDA c : c # "sep")

NewLearning ==
    [last |-> NoSelection, wrong |-> NoSelection, stats |-> <<>>, epoch |-> 0]

IsMonitorableSelection(event) ==
    event.phrase \in Monitorable /\ event.pinyin # <<>>

SameEntry(left, right) ==
    left.phrase = right.phrase /\ left.pinyin = right.pinyin

\* The learning state after ClearAdjacencyLocked.
BreakAdjacency(learning) ==
    [learning EXCEPT !.last = NoSelection, !.wrong = NoSelection]

\* The aggregate with a row for the key, if it has one or has room for it.
HasRow(stats, key) ==
    key \in DOMAIN stats \/ Cardinality(DOMAIN stats) < kMaxHabitStatEntries

WithRow(stats, key) ==
    [k \in DOMAIN stats \cup {key} |->
        IF k \in DOMAIN stats THEN stats[k] ELSE [corrected |-> 0, replaced |-> 0]]

RecordSelection(learning, event) ==
    LET refused == [learning |-> BreakAdjacency(learning),
                    recorded |-> FALSE, completed |-> FALSE]
        rows == WithRow(learning.stats, event)
        corrects == learning.wrong # NoSelection /\ ~SameEntry(learning.wrong, event)
        counted == [WithRow(rows, learning.wrong) EXCEPT
                        ![learning.wrong].corrected = @ + 1,
                        ![event].replaced = @ + 1]
        accepted == IsMonitorableSelection(event) /\ HasRow(learning.stats, event)
    IN CASE ~accepted -> refused
         [] accepted /\ corrects /\ ~HasRow(rows, learning.wrong) ->
                [refused EXCEPT !.learning.stats = rows, !.recorded = TRUE]
         [] accepted /\ corrects /\ HasRow(rows, learning.wrong) ->
                [learning |-> [last |-> event, wrong |-> NoSelection,
                               stats |-> counted, epoch |-> learning.epoch + 1],
                 recorded |-> TRUE, completed |-> TRUE]
         [] OTHER ->
                [learning |-> [learning EXCEPT !.last = event, !.wrong = NoSelection,
                                               !.stats = rows],
                 recorded |-> TRUE, completed |-> FALSE]

\* The caller learns of a failed undo from the missing wrong selection.
UndoLastSelection(learning) ==
    [learning EXCEPT !.last = NoSelection, !.wrong = learning.last]
=============================================================================
