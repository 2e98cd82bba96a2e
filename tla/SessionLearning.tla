--------------------------- MODULE SessionLearning ---------------------------
(***************************************************************************)
(* Correction learning in an input session.  The filter hears librime's    *)
(* notifications (a commit, a change of the composition, a key librime     *)
(* does not handle, options and deletions), in an order it does not        *)
(* control, and must recognise one sequence only: an entry is committed,   *)
(* deleted with one Backspace for each of its characters, and another      *)
(* entry of the same pinyin is committed within a short window.  Only then *)
(* the scores, by which candidates are reordered, change.                  *)
(***************************************************************************)
EXTENDS CorrectionLearning, FiniteSetsExt

CONSTANTS
    Scalars,              \* number of Unicode scalars of each phrase
    CommitInput,          \* inputs from which phrases are committed
    Input,                \* composition texts
    NoCommit,             \* an empty optional pending commit
    correction_window,    \* in ticks of the clock
    kMaxTrackedEntries,   \* keys the session keeps
    kMaxSessionCorrectionScore,
    MaxTime,              \* bound on the clock
    MaxHistory,           \* bound on the events between two commits
    MaxCorrection         \* bound on completed corrections

ASSUME WindowAssumption == correction_window \in Nat \ {0}

VARIABLES
    phase,                \* "idle", "deleting" or "awaiting"
    pending,              \* the committed entry that may be corrected
    learning,             \* the engine's state machine
    tracked_stat_keys,
    correction_scores,
    now,                  \* the steady clock
    date,                 \* the local date
    history               \* the undisturbed events since the last recorded commit

vars == <<phase, pending, learning, tracked_stat_keys, correction_scores,
          now, date, history>>

Init ==
    /\ phase = "idle" /\ pending = NoCommit
    /\ learning = NewLearning
    /\ tracked_stat_keys = {} /\ correction_scores = <<>>
    /\ now = 0 /\ date \in Date /\ history = <<>>

-----------------------------------------------------------------------------
Expired == pending # NoCommit /\ now > pending.expires_at

BreakAdjacencyLocked_SessionOnly ==
    /\ phase' = "idle" /\ pending' = NoCommit
    /\ UNCHANGED learning

BreakAdjacencyLocked ==
    /\ phase' = "idle" /\ pending' = NoCommit
    /\ learning' = BreakAdjacency(learning)

Arm(commit, recorded) ==
    IF recorded
    THEN /\ phase' = "deleting"
         /\ pending' = [phrase |-> commit.phrase, pinyin |-> commit.pinyin,
                        scalar_count |-> Scalars[commit.phrase],
                        backspace_count |-> 0, replacement_started |-> FALSE,
                        expires_at |-> now + correction_window]
    ELSE phase' = "idle" /\ pending' = NoCommit

\* The scores after one change; a new key at the limit is left out.
Feedback(scores, entry, delta) ==
    LET score == IF entry \in DOMAIN scores THEN scores[entry] ELSE 0
        bounded == CASE score + delta > kMaxSessionCorrectionScore -> kMaxSessionCorrectionScore
                     [] score + delta < -kMaxSessionCorrectionScore -> -kMaxSessionCorrectionScore
                     [] OTHER -> score + delta
    IN IF entry \notin DOMAIN scores /\ Cardinality(DOMAIN scores) >= kMaxTrackedEntries
       THEN scores
       ELSE [e \in DOMAIN scores \cup {entry} |->
                IF e = entry THEN bounded ELSE scores[e]]

Entry(selection) == [phrase |-> selection.phrase, pinyin |-> selection.pinyin]

ApplyFeedback(wrong, event) ==
    Feedback(Feedback(correction_scores, Entry(wrong), -1), Entry(event), 1)

ValidReplacement_AnyTime(entry) ==
    /\ phase = "awaiting" /\ pending # NoCommit
    /\ pending.pinyin = entry.pinyin /\ pending.phrase # entry.phrase

ValidReplacement(entry) ==
    /\ phase = "awaiting" /\ pending # NoCommit /\ ~Expired
    /\ pending.pinyin = entry.pinyin /\ pending.phrase # entry.phrase

\* What the engine's state machine is when a commit is recorded.
AdjacencyFor(entry) ==
    IF ~ValidReplacement(entry) /\ phase # "idle"
    THEN BreakAdjacency(learning) ELSE learning

-----------------------------------------------------------------------------
\* Events that are no part of a correction empty the history.
Note(event) ==
    history' = IF history = <<>> THEN <<>> ELSE Append(history, event)

Disturb == history' = <<>>

ObserveCommit(phrase, input) ==
    LET entry == [phrase |-> phrase, pinyin |-> NormalizePinyin(input)]
        event == [date |-> date, phrase |-> phrase, pinyin |-> entry.pinyin]
        full == /\ event \notin tracked_stat_keys
                /\ Cardinality(tracked_stat_keys) >= kMaxTrackedEntries
        wrong == learning.wrong
        update == RecordSelection(AdjacencyFor(entry), event)
    IN IF entry.pinyin = <<>> \/ full
       THEN /\ BreakAdjacencyLocked /\ Disturb
            /\ UNCHANGED <<tracked_stat_keys, correction_scores>>
       ELSE /\ learning' = update.learning
            /\ tracked_stat_keys' = tracked_stat_keys \cup (IF update.recorded THEN {event} ELSE {})
            /\ correction_scores' = IF ValidReplacement(entry) /\ update.completed
                                    THEN ApplyFeedback(wrong, event) ELSE correction_scores
            /\ Arm(entry, update.recorded)
            /\ history' = IF update.recorded
                          THEN <<[kind |-> "commit", entry |-> entry, at |-> now]>> ELSE <<>>

\* A commit of one word candidate that covers the input, in a normal context.
OnCommit(phrase, input) ==
    /\ learning.epoch < MaxCorrection
    /\ ObserveCommit(phrase, input)
    /\ UNCHANGED <<now, date>>

\* Any other commit, a changed option and a deleted candidate.
OnOther ==
    /\ BreakAdjacencyLocked /\ Disturb
    /\ UNCHANGED <<tracked_stat_keys, correction_scores, now, date>>

Deleted(deleting) == deleting.backspace_count + 1 = deleting.scalar_count

ObserveUnhandledKey(plain, normal) ==
    LET counts == /\ normal /\ plain /\ ~Expired /\ pending # NoCommit
                  /\ phase = "deleting"
                  /\ pending.backspace_count < pending.scalar_count
        undone == UndoLastSelection(learning)
    IN CASE phase = "idle" -> UNCHANGED <<phase, pending, learning>>
         [] phase # "idle" /\ counts /\ ~Deleted(pending) ->
                /\ pending' = [pending EXCEPT !.backspace_count = @ + 1]
                /\ UNCHANGED <<phase, learning>>
         [] phase # "idle" /\ counts /\ Deleted(pending) /\ undone.wrong # NoSelection ->
                /\ pending' = [pending EXCEPT !.backspace_count = @ + 1]
                /\ phase' = "awaiting" /\ learning' = undone
         [] OTHER -> BreakAdjacencyLocked

\* A key that librime leaves to the application, with the context it came in.
OnUnhandledKey(plain, normal) ==
    /\ Len(history) < MaxHistory
    /\ ObserveUnhandledKey(plain, normal)
    /\ IF plain /\ normal THEN Note([kind |-> "backspace"]) ELSE Disturb
    /\ UNCHANGED <<tracked_stat_keys, correction_scores, now, date>>

StartsWith(value, prefix) ==
    Len(prefix) <= Len(value) /\ SubSeq(value, 1, Len(prefix)) = prefix

ObserveComposition(input, normal) ==
    LET normalized == NormalizePinyin(input)
        follows == /\ phase = "awaiting" /\ normalized # <<>>
                   /\ StartsWith(pending.pinyin, normalized)
        abandons == phase = "awaiting" /\ pending.replacement_started
    IN CASE phase = "idle" -> UNCHANGED <<phase, pending, learning>>
         [] phase # "idle" /\ normal /\ ~Expired /\ input # <<>> /\ follows ->
                /\ pending' = [pending EXCEPT !.replacement_started = TRUE]
                /\ UNCHANGED <<phase, learning>>
         [] phase # "idle" /\ normal /\ ~Expired /\ input = <<>> /\ ~abandons ->
                UNCHANGED <<phase, pending, learning>>
         [] OTHER -> BreakAdjacencyLocked

\* A change of the text being composed; a text that is no beginning of the
\* committed entry's pinyin is no part of a correction.
OnContextUpdate(input, normal) ==
    LET normalized == NormalizePinyin(input) IN
    /\ Len(history) < MaxHistory
    /\ ObserveComposition(input, normal)
    /\ IF /\ normal /\ history # <<>>
          /\ normalized = <<>> => input = <<>>
          /\ StartsWith(Head(history).entry.pinyin, normalized)
       THEN Note([kind |-> IF input = <<>> THEN "empty" ELSE "text"])
       ELSE Disturb
    /\ UNCHANGED <<tracked_stat_keys, correction_scores, now, date>>

Tick ==
    /\ now < MaxTime
    /\ now' = now + 1
    /\ date' \in Date
    /\ UNCHANGED <<phase, pending, learning, tracked_stat_keys, correction_scores, history>>

Next ==
    \/ \E phrase \in Phrase, input \in CommitInput : OnCommit(phrase, input)
    \/ OnOther
    \/ \E plain, normal \in BOOLEAN : OnUnhandledKey(plain, normal)
    \/ \E input \in Input, normal \in BOOLEAN : OnContextUpdate(input, normal)
    \/ Tick

Spec == Init /\ [][Next]_vars

-----------------------------------------------------------------------------
OfKind(kind) == {i \in DOMAIN history : history[i].kind = kind}

\* The events since the last commit prove that the entry replaces it.
Proves(entry) ==
    /\ history # <<>>
    /\ LET old == Head(history) IN
       /\ old.entry.pinyin = entry.pinyin /\ old.entry.phrase # entry.phrase
       /\ now - old.at <= correction_window
       /\ Cardinality(OfKind("backspace")) = Scalars[old.entry.phrase]
       /\ \A i \in OfKind("text"), j \in DOMAIN history :
            j > i => history[j].kind = "text"

\* The candidate epoch grows exactly when a commit is recorded whose history
\* proves a correction: one commit, one Backspace for each Unicode scalar of
\* it and nothing typed before the last of them, a composition that is not
\* abandoned, and a different phrase of the same pinyin within the window,
\* with no other event between (the contract of SessionLearning).
LearnsOnlyProven ==
    [][learning'.epoch # learning.epoch <=>
        \E entry \in {[phrase |-> p, pinyin |-> NormalizePinyin(i)] : p \in Phrase, i \in CommitInput} :
            /\ history' = <<[kind |-> "commit", entry |-> entry, at |-> now]>>
            /\ Proves(entry)]_vars

\* The score of an entry, which reorders candidates, is what its rows of all
\* dates say: how often it replaced another entry less how often it was
\* replaced.  The limits on keys, the change of date between two commits and
\* broken sequences never make the two disagree.
ScoresAreNetFeedback ==
    \A entry \in {Entry(key) : key \in DOMAIN learning.stats} :
        LET rows == {key \in DOMAIN learning.stats : Entry(key) = entry}
            net == MapThenSumSet(LAMBDA k : learning.stats[k].replaced, rows)
                     - MapThenSumSet(LAMBDA k : learning.stats[k].corrected, rows)
        IN net = IF entry \in DOMAIN correction_scores THEN correction_scores[entry] ELSE 0
=============================================================================
