--------------------------- MODULE ReplaySequence ---------------------------
(***************************************************************************)
(* Which streams of replay events are sessions: SequenceState.Accept       *)
(* (replaylab/sequence.go) judges one event after the other and keeps a    *)
(* summary of those before it.  The store, the report and the native       *)
(* converter all rely on it.                                               *)
(***************************************************************************)
EXTENDS Integers, Sequences, FiniteSets

CONSTANTS
    MaxEpisodes,   \* episodes of one session
    None           \* an absent identifier or payload

AllTypes == {"composition_snapshot", "select", "commit", "backspace", "delete",
             "abort", "pause", "resume", "drop_count"}

ASSUME EpisodesAssumption == MaxEpisodes \in Nat \ {0}

EmptySequence ==
    [SessionID |-> None, LastEpisodeID |-> None, LastSeq |-> 0, LastMonotonicUS |-> 0,
     LastUTC |-> 0, Paused |-> FALSE, EpisodeClosed |-> FALSE, SeenEpisodes |-> {}]

-----------------------------------------------------------------------------
(* Accept. *)

Continues_SeqOnly(state, event) ==
    IF state.SessionID = None
    THEN event.Seq = 1 /\ event.Type = "resume"
    ELSE event.Seq = state.LastSeq + 1 /\ event.MonotonicUS >= state.LastMonotonicUS

\* The event continues the session, in number and in time.
Continues(state, event) ==
    IF state.SessionID = None
    THEN event.Seq = 1 /\ event.Type = "resume"
    ELSE /\ event.SessionID = state.SessionID
         /\ event.Seq = state.LastSeq + 1
         /\ event.MonotonicUS >= state.LastMonotonicUS
         /\ event.UTC >= state.LastUTC

newEpisode(state, event) == event.EpisodeID # state.LastEpisodeID

\* A new episode has a new identifier, and starts where the last one ended.
MayOpenEpisode(state, event) ==
    newEpisode(state, event) =>
        /\ event.EpisodeID \notin state.SeenEpisodes
        /\ Cardinality(state.SeenEpisodes) < MaxEpisodes
        /\ state.LastEpisodeID # None =>
               /\ state.EpisodeClosed \/ state.Paused
               /\ event.Type \in {"composition_snapshot", "resume"}

\* What a closed episode and a paused session still take.
MayContinue(state, event) ==
    /\ ~newEpisode(state, event) /\ state.EpisodeClosed => event.Type \in {"pause", "drop_count"}
    /\ state.Paused => event.Type \in {"resume", "drop_count"}
    /\ event.Type = "resume" /\ state.LastSeq # 0 => state.Paused /\ newEpisode(state, event)

Accepts(state, event) ==
    Continues(state, event) /\ MayOpenEpisode(state, event) /\ MayContinue(state, event)

EpisodeClosedAfter(state, event) ==
    CASE event.Type \in {"pause", "commit", "abort"} -> TRUE
      [] event.Type = "resume" -> FALSE
      [] event.Type = "drop_count" -> state.EpisodeClosed
      [] OTHER -> state.EpisodeClosed /\ ~newEpisode(state, event)

\* The state after an accepted event.
Accept(state, event) ==
    [SessionID |-> event.SessionID, LastEpisodeID |-> event.EpisodeID, LastSeq |-> event.Seq,
     LastMonotonicUS |-> event.MonotonicUS, LastUTC |-> event.UTC,
     Paused |-> event.Type # "resume" /\ (state.Paused \/ event.Type = "pause"),
     EpisodeClosed |-> EpisodeClosedAfter(state, event),
     SeenEpisodes |-> state.SeenEpisodes \cup {event.EpisodeID}]

-----------------------------------------------------------------------------
(* What a session is, read off the whole stream. *)

Ends == {"commit", "abort", "pause"}

Opens(h, i) == i = 1 \/ h[i].EpisodeID # h[i - 1].EpisodeID
PausedAt(h, i) ==
    \E j \in 1 .. i - 1 : h[j].Type = "pause" /\ \A k \in j .. i - 1 : h[k].Type # "resume"
EndedAt(h, i) ==
    \E j \in 1 .. i - 1 : h[j].EpisodeID = h[i - 1].EpisodeID /\ h[j].Type \in Ends

\* One session, numbered from 1, with clocks that never go back; it starts with
\* resume, episodes follow one another and never return, each is ended before
\* the next, and only lost events are reported while it is paused.
IsSession(h) ==
    /\ \A i \in DOMAIN h : h[i].Seq = i /\ h[i].SessionID = h[1].SessionID
    /\ \A i, j \in DOMAIN h :
         i < j => h[i].MonotonicUS <= h[j].MonotonicUS /\ h[i].UTC <= h[j].UTC
    /\ \A i, j \in DOMAIN h :
         i < j /\ h[i].EpisodeID = h[j].EpisodeID =>
             \A k \in i .. j : h[k].EpisodeID = h[i].EpisodeID
    /\ Cardinality({h[i].EpisodeID : i \in DOMAIN h}) <= MaxEpisodes
    /\ \A i \in DOMAIN h :
         /\ h[i].Type = "resume" <=> i = 1 \/ (PausedAt(h, i) /\ h[i].Type # "drop_count")
         /\ Opens(h, i) /\ i > 1 => h[i].Type \in {"composition_snapshot", "resume"} /\ EndedAt(h, i)
         /\ ~Opens(h, i) => h[i].Type # "resume"
         /\ ~Opens(h, i) /\ EndedAt(h, i) => h[i].Type \in {"pause", "drop_count"}
=============================================================================
