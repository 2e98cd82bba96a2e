---------------------------- MODULE ReplayReport ----------------------------
(***************************************************************************)
(* From a spool of native frames, or an event log, to the report           *)
(* (replaylab/native.go and report.go).  The native path is the whole of   *)
(* analyzeNativeFile: NativeEventConverter numbers the frames and cuts     *)
(* them into episodes, SequenceState judges the events, the Analyzer       *)
(* counts.  It works on a stream, one event at a time, with no more than   *)
(* the current episode in memory.                                          *)
(***************************************************************************)
EXTENDS ReplaySequence

CONSTANTS
    Composition,   \* composition snapshots
    FinalText,     \* texts that are committed
    Time,          \* readings of the producer's clocks
    MaxFrames,     \* bound on the events of a session from native frames
    MaxEvents      \* bound on the events of a session in a log

ASSUME ClockAssumption == Time \subseteq Nat \ {0}
ASSUME BoundsAssumption == MaxFrames \in Nat /\ MaxEvents \in Nat

VARIABLES
    source,      \* "native": frames of the ring; "log": events of the store
    composing,   \* whether a composition is open in the input method
    losing,      \* whether frames were lost that no drop_count reported yet
    lostStart,   \* whether the first frame of a composition was ever lost
    converter,   \* NativeEventConverter
    analyzer,    \* Analyzer, its SequenceState included
    history,     \* the events that the analyzer took
    failed       \* the analysis ended with an error

vars == <<source, composing, losing, lostStart, converter, analyzer, history, failed>>

Edits == {"backspace", "delete"}
NoPayload == [Composition |-> None, Rank |-> 0, EditCount |-> 0, DropCount |-> 0, FinalText |-> None]

\* Frames and events carry a payload that fits their type (Validate).
Payloads(type, compositions) ==
    CASE type \in {"composition_snapshot", "abort"} ->
             {[NoPayload EXCEPT !.Composition = c] : c \in compositions}
      [] type = "select" ->
             UNION {{[NoPayload EXCEPT !.Composition = c, !.Rank = r] :
                        r \in DOMAIN c.Candidates} : c \in compositions \ {None}}
      [] type = "commit" ->
             {[NoPayload EXCEPT !.Composition = c, !.FinalText = t] :
                 c \in compositions \ {None}, t \in FinalText}
      [] type \in Edits ->
             {[NoPayload EXCEPT !.Composition = c, !.EditCount = n] :
                 c \in compositions, n \in {2}}
      [] type = "drop_count" -> {[NoPayload EXCEPT !.DropCount = n] : n \in {1}}
      [] OTHER -> {NoPayload}

-----------------------------------------------------------------------------
(* NativeEventConverter. *)

NewConverter == [seq |-> 0, mono |-> 0, utc |-> 0, counter |-> 0, closed |-> FALSE]

EventOf(c, type, payload) ==
    [SessionID |-> 1, EpisodeID |-> c.counter, Seq |-> c.seq, MonotonicUS |-> c.mono,
     UTC |-> c.utc, Type |-> type, Payload |-> payload]

Later(a, b) == IF a < b THEN b ELSE a


\* Clocks that stand still or go back are moved on.
Stamped(c, frame) ==
    [c EXCEPT !.mono = IF c.seq # 0 THEN Later(frame.mono, c.mono + 1) ELSE frame.mono,
              !.utc = Later(frame.utc, c.utc)]

\* The first frame is preceded by a resume.
Opened(c) == [c EXCEPT !.counter = 1, !.seq = 1]

\* The frame after a commit or an abort starts an episode.
InEpisode(c, type) ==
    IF c.closed /\ type # "drop_count"
    THEN [c EXCEPT !.counter = @ + 1, !.closed = FALSE] ELSE c

Convert(c, frame) ==
    LET stamped == Stamped(c, frame)
        resumed == Opened(stamped)
        base == IF c.seq = 0 THEN [resumed EXCEPT !.mono = @ + 1] ELSE stamped
        next == [InEpisode(base, frame.type) EXCEPT !.seq = @ + 1]
        event == EventOf(next, frame.type, frame.payload)
    IN  [converter |-> [next EXCEPT !.closed = @ \/ frame.type \in {"commit", "abort"}],
         events |-> IF c.seq = 0 THEN <<EventOf(resumed, "resume", NoPayload), event>>
                    ELSE <<event>>]

-----------------------------------------------------------------------------
(* The Analyzer. *)

Counters == {"EventCount", "EpisodeCount", "CommitCount", "BackspaceCount", "DeleteCount",
             "DroppedEventCount", "EditedEpisodeCount", "CandidateSelections", "RankSum",
             "ExactPathCorrectionFirstCount", "SamePinyinRerankCount",
             "SamePinyinAfterEditReplaceCount"}

NewEpisode == [edited |-> FALSE, selectionObserved |-> FALSE, lastComposition |-> None,
               beforeEditPinyin |-> None, beforeEditText |-> None]
NewAnalyzer == [report |-> [k \in Counters |-> 0], sequence |-> EmptySequence,
                currentEpisodeID |-> None, episode |-> NewEpisode]

highlightedRank(c) ==
    IF \E r \in DOMAIN c.Candidates : c.Candidates[r].Highlighted
    THEN CHOOSE r \in DOMAIN c.Candidates : c.Candidates[r].Highlighted ELSE 0

\* The text an edit replaces: the highlighted candidate's, or the first one's.
textBeforeEdit(c) ==
    IF c.Candidates = << >> THEN None
    ELSE c.Candidates[IF highlightedRank(c) # 0 THEN highlightedRank(c) ELSE 1].Text

correctionFirst(event) ==
    LET c == event.Payload.Composition
    IN  /\ event.Type = "composition_snapshot" /\ c.ExactPathAvailable
        /\ Len(c.Candidates) > 1 /\ c.Candidates[1].IsCorrection
        /\ \E r \in 2 .. Len(c.Candidates) : ~c.Candidates[r].IsCorrection

isSamePinyinRerank(event) ==
    LET c == event.Payload.Composition
    IN  /\ event.Type = "select" /\ c.ExactPathAvailable /\ event.Payload.Rank > 1
        /\ ~c.Candidates[event.Payload.Rank].IsCorrection /\ ~c.Candidates[1].IsCorrection

markFirstEdit_Latest(episode, composition) ==
    LET c == IF composition = None THEN episode.lastComposition ELSE composition
    IN  IF c = None THEN [episode EXCEPT !.edited = TRUE]
        ELSE [episode EXCEPT !.edited = TRUE, !.beforeEditPinyin = c.NormalizedPinyin,
                             !.beforeEditText = textBeforeEdit(c)]

\* Only the first edit of an episode is remembered.
markFirstEdit(episode, composition) ==
    LET c == IF composition = None THEN episode.lastComposition ELSE composition
    IN  IF episode.edited \/ c = None THEN [episode EXCEPT !.edited = TRUE]
        ELSE [episode EXCEPT !.edited = TRUE, !.beforeEditPinyin = c.NormalizedPinyin,
                             !.beforeEditText = textBeforeEdit(c)]

\* Counters that one event adds to, from the episode it is in.
Added(event, episode) ==
    LET p == event.Payload
        one(b) == IF b THEN 1 ELSE 0
        rank == CASE event.Type = "select" -> p.Rank
                  [] event.Type = "commit" /\ ~episode.selectionObserved ->
                         highlightedRank(p.Composition)
                  [] OTHER -> 0
    IN  [k \in Counters |->
            CASE k = "EventCount" -> 1
              [] k = "CommitCount" -> one(event.Type = "commit")
              [] k = "BackspaceCount" -> IF event.Type = "backspace" THEN p.EditCount ELSE 0
              [] k = "DeleteCount" -> IF event.Type = "delete" THEN p.EditCount ELSE 0
              [] k = "DroppedEventCount" -> p.DropCount
              [] k = "CandidateSelections" -> one(rank > 0)
              [] k = "RankSum" -> rank
              [] k = "ExactPathCorrectionFirstCount" -> one(correctionFirst(event))
              [] k = "SamePinyinRerankCount" -> one(isSamePinyinRerank(event))
              [] k = "SamePinyinAfterEditReplaceCount" ->
                     one(/\ event.Type = "commit" /\ episode.edited
                         /\ p.Composition.NormalizedPinyin = episode.beforeEditPinyin
                         /\ episode.beforeEditText \notin {None, p.FinalText})
              [] OTHER -> 0]

finishEpisode(a) ==
    [a.report EXCEPT !.EditedEpisodeCount = @ + IF a.episode.edited THEN 1 ELSE 0]

\* Analyzer.Accept, for an event that its SequenceState accepts.
Analyze(a, event) ==
    LET opens == event.EpisodeID # a.currentEpisodeID
        before == IF opens THEN NewEpisode ELSE a.episode
        seen == IF event.Payload.Composition = None THEN before
                ELSE [before EXCEPT !.lastComposition = event.Payload.Composition]
        base == IF opens THEN [finishEpisode(a) EXCEPT !.EpisodeCount = @ + 1] ELSE a.report
        added == Added(event, seen)
    IN  [report |-> [k \in Counters |-> base[k] + added[k]],
         sequence |-> Accept(a.sequence, event),
         currentEpisodeID |-> event.EpisodeID,
         episode |-> CASE event.Type \in Edits -> markFirstEdit(seen, event.Payload.Composition)
                       [] event.Type = "select" -> [seen EXCEPT !.selectionObserved = TRUE]
                       [] OTHER -> seen]

\* The report also counts the episode that is still open.
Finish(a) == finishEpisode(a)

-----------------------------------------------------------------------------
Init ==
    /\ source \in {"native", "log"}
    /\ composing = FALSE /\ losing = FALSE /\ lostStart = FALSE
    /\ converter = NewConverter /\ analyzer = NewAnalyzer
    /\ history = << >> /\ failed = FALSE

\* Hand events to the analyzer; the first one refused ends the analysis.
Take(events) ==
    LET good[n \in 0 .. Len(events)] ==
            IF n = 0 THEN analyzer
            ELSE IF good[n - 1] # None /\ Accepts(good[n - 1].sequence, events[n])
                 THEN Analyze(good[n - 1], events[n]) ELSE None
    IN  IF good[Len(events)] = None
        THEN failed' = TRUE /\ UNCHANGED <<analyzer, history>>
        ELSE /\ analyzer' = good[Len(events)]
             /\ history' = history \o events
             /\ UNCHANGED failed

analyzeNativeFile(frame) ==
    LET converted == Convert(converter, frame)
    IN  /\ ~failed /\ Len(history) < MaxFrames
        /\ converter' = converted.converter
        /\ Take(converted.events)

\* The input method: a composition is opened, worked on, and ends.
Typed == IF composing THEN {"composition_snapshot", "select", "backspace", "delete", "commit", "abort"}
         ELSE {"composition_snapshot"}

NativeFrame ==
    /\ source = "native"
    /\ \E type \in Typed, mono, utc \in Time : \E payload \in Payloads(type, Composition) :
         analyzeNativeFile([type |-> type, mono |-> mono, utc |-> utc, payload |-> payload])
         /\ composing' = (type \notin {"commit", "abort"})
    /\ UNCHANGED <<source, losing, lostStart>>

\* The ring is full: the frame is lost, and drop_count will say so.
LostFrame ==
    /\ source = "native"
    /\ \E type \in Typed : composing' = (type \notin {"commit", "abort"})
    /\ losing' = TRUE
    /\ lostStart' = (lostStart \/ ~composing)
    /\ UNCHANGED <<source, converter, analyzer, history, failed>>

DropCountFrame ==
    /\ losing
    /\ \E mono, utc \in Time : \E payload \in Payloads("drop_count", {}) :
         analyzeNativeFile([type |-> "drop_count", mono |-> mono, utc |-> utc, payload |-> payload])
    /\ losing' = FALSE
    /\ UNCHANGED <<source, composing, lostStart>>

\* Store.Report without a spool: events of the log, which the store accepted.
LogLine(type, episode, payload) ==
    EventOf([seq |-> Len(history) + 1, mono |-> 1, utc |-> 1, counter |-> episode], type, payload)

LogEvent ==
    /\ source = "log" /\ Len(history) < MaxEvents
    /\ \E type \in AllTypes, more \in {0, 1} :
         \E payload \in Payloads(type, Composition \cup {None}) :
             LET event == LogLine(type, analyzer.report.EpisodeCount + more, payload)
             IN  /\ type = "composition_snapshot" => payload.Composition # None
                 /\ Accepts(analyzer.sequence, event)
                 /\ Take(<<event>>)
    /\ UNCHANGED <<source, composing, losing, lostStart, converter>>

Next == NativeFrame \/ LostFrame \/ DropCountFrame \/ LogEvent

Spec == Init /\ [][Next]_vars

-----------------------------------------------------------------------------
(* The report, defined over the whole session. *)

Total(F(_)) ==
    LET sum[n \in 0 .. Len(history)] == IF n = 0 THEN 0 ELSE sum[n - 1] + F(n)
    IN  sum[Len(history)]

Of(i, types) == {j \in DOMAIN history : history[j].EpisodeID = history[i].EpisodeID
                                       /\ j < i /\ history[j].Type \in types}
Count(P(_)) == Cardinality({i \in DOMAIN history : P(i)})

\* The composition that an edit changed: its own, or the last one shown before.
Edited(i) ==
    LET shown == {j \in Of(i, AllTypes) \cup {i} : history[j].Payload.Composition # None}
    IN  IF shown = {} THEN None
        ELSE history[CHOOSE j \in shown : \A k \in shown : k <= j].Payload.Composition

\* A commit with the pinyin of the episode's first edit, but another text.
ReplacesEdited(i) ==
    /\ history[i].Type = "commit" /\ Of(i, Edits) # {}
    /\ LET c == Edited(CHOOSE j \in Of(i, Edits) : \A k \in Of(i, Edits) : j <= k)
       IN  /\ c # None
           /\ c.NormalizedPinyin = history[i].Payload.Composition.NormalizedPinyin
           /\ textBeforeEdit(c) \notin {None, history[i].Payload.FinalText}

\* The rank chosen by a select, or by a commit in an episode without one.
RankAt(i) ==
    CASE history[i].Type = "select" -> history[i].Payload.Rank
      [] history[i].Type = "commit" /\ Of(i, {"select"}) = {} ->
             highlightedRank(history[i].Payload.Composition)
      [] OTHER -> 0

Episodes(P(_)) == Cardinality({history[i].EpisodeID : i \in {j \in DOMAIN history : P(j)}})

\* The report of a stream says of a session, at every point, what counting over
\* all its events would: per-episode state is reset and carried correctly, and
\* the open episode is counted once.
ReportIsExact ==
    LET r == Finish(analyzer)
    IN  /\ r.EventCount = Len(history)
        /\ r.EpisodeCount = Episodes(LAMBDA i : TRUE)
        /\ r.EditedEpisodeCount = Episodes(LAMBDA i : history[i].Type \in Edits)
        /\ r.CommitCount = Count(LAMBDA i : history[i].Type = "commit")
        /\ r.BackspaceCount = 2 * Count(LAMBDA i : history[i].Type = "backspace")
        /\ r.CandidateSelections = Count(LAMBDA i : RankAt(i) > 0)
        /\ r.RankSum = Total(RankAt)
        /\ r.SamePinyinAfterEditReplaceCount = Count(ReplacesEdited)


\* What may come next in a log: any type in any episode, and an event that
\* would be accepted but for its session, its number or one of its clocks.
Candidates ==
    LET proper == {LogLine(type, episode, NoPayload) :
                      type \in AllTypes, episode \in 1 .. analyzer.report.EpisodeCount + 1}
        taken == {e \in proper : Accepts(analyzer.sequence, e)}
    IN  proper \cup {[e EXCEPT !.SessionID = 2] : e \in taken}
               \cup {[e EXCEPT !.Seq = @ + 1] : e \in taken}
               \cup {[e EXCEPT !.MonotonicUS = 0] : e \in taken}
               \cup {[e EXCEPT !.UTC = 0] : e \in taken}

\* SequenceState.Accept judges from its summary exactly as one would from the
\* whole stream: it takes an event if and only if the log is still a session
\* with it.
AcceptIsExact ==
    source = "log" =>
        \A e \in Candidates : Accepts(analyzer.sequence, e) <=> IsSession(Append(history, e))
=============================================================================
