---------------------------- MODULE ReplayStore ----------------------------
(***************************************************************************)
(* The files of a replay lab and the commands that work on them            *)
(* (replaylab/store.go and cmd/yunpin-replay-lab).  A session is an        *)
(* append-only log of events; active.json summarises it and is replaced    *)
(* after each append.  One process works on a lab at a time, as the        *)
(* store's comment demands.  It ends at the first error, may be killed     *)
(* anywhere, and the machine may lose power; the next process starts from  *)
(* what is on disk.                                                        *)
(***************************************************************************)
EXTENDS ReplaySequence

CONSTANTS
    Fault,         \* faults that occur: see the actions
    MaxSession,    \* bound on sessions, which are numbered as they are created
    MaxSeq,        \* bound on the events of a session
    MaxTime        \* bound on the clock

ASSUME FaultAssumption == Fault \subseteq {"kill", "power", "io", "torn", "open", "clock"}
ASSUME BoundsAssumption == {MaxSession, MaxSeq, MaxTime} \subseteq Nat

Identifier == [session : Nat, n : Nat]
SequenceState ==
    [SessionID : Nat \cup {None}, LastEpisodeID : Identifier \cup {None}, LastSeq : Nat,
     LastMonotonicUS : Nat, LastUTC : Nat, Paused : BOOLEAN, EpisodeClosed : BOOLEAN,
     SeenEpisodes : SUBSET Identifier]
SessionMetadata ==
    [State : {"disabled", "running", "paused"}, SessionID : Nat \cup {None}, Started : Nat,
     Last : SequenceState]

ASSUME NoneAssumption ==
    None \notin Nat \cup Identifier \cup SequenceState \cup SessionMetadata
              \cup [meta : SessionMetadata, sequence : SequenceState]

VARIABLES
    manifest,   \* whether lab.json exists
    active,     \* active.json: SessionMetadata, or None
    file,       \* file[s]: the lines of the log of session s
    synced,     \* synced[s]: lines of it that are on stable storage
    proc,       \* the running command
    acked,      \* events whose append was reported as done
    session,    \* sessions created so far
    lab,        \* how far init, start and clear of the lab have come
    unsynced,   \* whether Status counted a line that is not on stable storage, and
                \* whether the power then failed
    now         \* the wall clock

disk == <<manifest, active, file, synced>>
vars == <<manifest, active, file, synced, proc, acked, session, lab, unsynced, now>>

\* A line is whole, lacks its newline ("open"), or is unreadable ("bad").
Line(event, form) == [event |-> event, form |-> form]

Idle == [at |-> "idle", meta |-> None, sequence |-> EmptySequence, event |-> None, next |-> None]
NoProcess == [Idle EXCEPT !.at = "none"]

-----------------------------------------------------------------------------
(* Session metadata. *)

StateName(sequence) == IF sequence.Paused THEN "paused" ELSE "running"

Disabled == [State |-> "disabled", SessionID |-> None, Started |-> 0, Last |-> EmptySequence]

\* SeenEpisodes is not in the metadata; all else of the sequence is.
Summary(sequence) == [sequence EXCEPT !.SeenEpisodes = {}]

Metadata(meta, sequence) ==
    [meta EXCEPT !.State = StateName(sequence), !.Last = Summary(sequence)]

Readable(lines) ==
    \A i \in DOMAIN lines : lines[i].form = "whole" \/ (lines[i].form = "open" /\ i = Len(lines))

\* The state of the sequence after each line; None once an event was refused.
SequenceStates(lines) ==
    LET after[n \in 0 .. Len(lines)] ==
            IF n = 0 THEN EmptySequence
            ELSE IF after[n - 1] # None /\ Accepts(after[n - 1], lines[n].event)
                 THEN Accept(after[n - 1], lines[n].event) ELSE None
    IN  after

\* forEachEvent and scanSession: None if a line is unreadable or refused.  The
\* scanner takes a last line without its newline.
scanSession(lines) == IF Readable(lines) THEN SequenceStates(lines)[Len(lines)] ELSE None

\* What Status makes of the files: the metadata, repaired if the log is ahead
\* of it, and the sequence; or None if the files contradict each other.
Loaded_NoRepair(meta) ==
    IF meta.State = "disabled" THEN [meta |-> meta, sequence |-> EmptySequence]
    ELSE LET sequence == scanSession(file[meta.SessionID])
         IN  IF sequence = None \/ Metadata(meta, sequence) # meta THEN None
             ELSE [meta |-> meta, sequence |-> sequence]

Loaded(meta) ==
    IF meta.State = "disabled" THEN [meta |-> meta, sequence |-> EmptySequence]
    ELSE LET sequence == scanSession(file[meta.SessionID])
         IN  IF \/ sequence = None
                \/ sequence.LastSeq < meta.Last.LastSeq
                \/ sequence.LastSeq = meta.Last.LastSeq /\ Metadata(meta, sequence) # meta
             THEN None
             ELSE [meta |-> Metadata(meta, sequence), sequence |-> sequence]

-----------------------------------------------------------------------------
Init ==
    /\ manifest = FALSE /\ active = None
    /\ file = [s \in 1 .. MaxSession |-> << >>] /\ synced = [s \in 1 .. MaxSession |-> 0]
    /\ proc = NoProcess
    /\ acked = {} /\ session = 0 /\ lab = "none" /\ unsynced = "no" /\ now = 0

\* A command ends, with an error or without.
End == proc' = NoProcess

(* Init: the manifest, then the metadata of a disabled lab. *)

InitManifest ==
    /\ proc.at = "none" /\ ~manifest
    /\ manifest' = TRUE /\ lab' = "initializing"
    /\ proc' = [NoProcess EXCEPT !.at = "init"]
    /\ UNCHANGED <<active, file, synced, acked, session, unsynced, now>>

InitActive ==
    /\ proc.at = "init"
    /\ active' = Disabled /\ lab' = "init"
    /\ End
    /\ UNCHANGED <<manifest, file, synced, acked, session, unsynced, now>>

Open ==
    /\ proc.at = "none" /\ manifest
    /\ proc' = Idle
    /\ UNCHANGED <<disk, acked, session, lab, unsynced, now>>

\* Status, if nothing is cached yet: check the files, repair, remember.
Status ==
    /\ proc.at = "idle" /\ proc.meta = None
    /\ IF active = None \/ Loaded(active) = None
       THEN End /\ UNCHANGED <<active, unsynced>>
       ELSE /\ active' = Loaded(active).meta
            /\ unsynced' = IF active'.SessionID # None /\ synced[active'.SessionID] < active'.Last.LastSeq
                           THEN "counted" ELSE unsynced
            /\ proc' = [proc EXCEPT !.meta = active', !.sequence = Loaded(active).sequence]
    /\ UNCHANGED <<manifest, file, synced, acked, session, lab, now>>

-----------------------------------------------------------------------------
(* Start, and the append that it shares with the other commands. *)

Event(s, episode, seq, mono, type) ==
    [SessionID |-> s, EpisodeID |-> episode, Seq |-> seq, MonotonicUS |-> mono,
     UTC |-> now, Type |-> type]

\* An identifier that the session has not used.
NewID == [session |-> session, n |-> Cardinality(proc.sequence.SeenEpisodes)]

Start ==
    /\ proc.at = "idle" /\ proc.meta = None /\ session < MaxSession
    /\ active # None /\ active.State = "disabled"
    /\ session' = session + 1
    /\ LET event == Event(session', NewID, 1, 0, "resume")
           next == Accept(EmptySequence, event)
       IN  proc' = [Idle EXCEPT !.at = "write", !.event = event, !.next = next,
                                !.meta = Metadata([Disabled EXCEPT !.SessionID = session',
                                                                   !.Started = now], next)]
    /\ lab' = "started"
    /\ UNCHANGED <<disk, acked, unsynced, now>>

\* Append: an event that does not continue the session is an error.
AppendEvent(event) ==
    /\ proc.meta.Last.LastSeq < MaxSeq
    /\ IF Accepts(proc.sequence, event)
       THEN LET next == Accept(proc.sequence, event)
            IN  proc' = [proc EXCEPT !.at = "write", !.event = event, !.next = next,
                                     !.meta = Metadata(proc.meta, next)]
       ELSE End

Ready(states) == proc.at = "idle" /\ proc.meta # None /\ proc.meta.State \in states

\* Elapsed wall-clock time, but always past the last event.
controlMono_Elapsed(meta) == IF now > meta.Started THEN now - meta.Started ELSE 0

controlMono(meta) ==
    IF now > meta.Started /\ now - meta.Started > meta.Last.LastMonotonicUS + 1
    THEN now - meta.Started ELSE meta.Last.LastMonotonicUS + 1

controlEvent(type, episode) ==
    Event(proc.meta.SessionID, episode, proc.meta.Last.LastSeq + 1, controlMono(proc.meta), type)

pauseEvent == controlEvent("pause", proc.meta.Last.LastEpisodeID)
resumeEvent == controlEvent("resume", NewID)

Pause == Ready({"running"}) /\ AppendEvent(pauseEvent) /\ UNCHANGED <<disk, acked, session, lab, unsynced, now>>
Resume == Ready({"paused"}) /\ AppendEvent(resumeEvent) /\ UNCHANGED <<disk, acked, session, lab, unsynced, now>>

\* Ingest: the events of a sidecar, with readings of its own monotonic clock,
\* the last one perhaps sent again.
Ingest ==
    /\ Ready({"running", "paused"})
    /\ \E type \in {"composition_snapshot", "commit"}, again \in {0, 1},
          episode \in {NewID, proc.meta.Last.LastEpisodeID} :
         AppendEvent(Event(proc.meta.SessionID, episode, proc.meta.Last.LastSeq + 1 - again,
                           proc.meta.Last.LastMonotonicUS + 1 - again, type))
    /\ UNCHANGED <<disk, acked, session, lab, unsynced, now>>

-----------------------------------------------------------------------------
(* appendEventFile and saveMetadata. *)

log == file[proc.event.SessionID]

\* O_APPEND: what follows an unfinished line becomes part of it.
Written(form) ==
    IF log # << >> /\ log[Len(log)].form \in {"open", "torn"}
    THEN [log EXCEPT ![Len(log)].form = IF form = "whole" THEN "bad" ELSE "torn"]
    ELSE Append(log, Line(proc.event, form))

WriteEvent ==
    /\ proc.at = "write"
    /\ file' = [file EXCEPT ![proc.event.SessionID] = Written("whole")]
    /\ proc' = [proc EXCEPT !.at = "sync"]
    /\ UNCHANGED <<manifest, active, synced, acked, session, lab, unsynced, now>>

\* The disk is full: a part of the line, or all but its newline, is written.
WriteFails ==
    /\ proc.at = "write"
    /\ \/ "io" \in Fault /\ UNCHANGED file
       \/ \E form \in Fault \cap {"torn", "open"} :
             file' = [file EXCEPT ![proc.event.SessionID] = Written(form)]
    /\ End
    /\ UNCHANGED <<manifest, active, synced, acked, session, lab, unsynced, now>>

SyncEvent ==
    /\ proc.at = "sync"
    /\ synced' = [synced EXCEPT ![proc.event.SessionID] = Len(log)]
    /\ proc' = [proc EXCEPT !.at = "save"]
    /\ unsynced' = "no"
    /\ UNCHANGED <<manifest, active, file, acked, session, lab, now>>

saveMetadata_BeforeSync ==
    /\ proc.at \in {"sync", "save"}
    /\ active' = proc.meta
    /\ acked' = acked \cup {proc.event}
    /\ proc' = [proc EXCEPT !.at = "idle", !.sequence = proc.next, !.event = None, !.next = None]
    /\ UNCHANGED <<manifest, file, synced, session, lab, unsynced, now>>

saveMetadata ==
    /\ proc.at = "save"
    /\ active' = proc.meta
    /\ acked' = acked \cup {proc.event}
    /\ proc' = [proc EXCEPT !.at = "idle", !.sequence = proc.next, !.event = None, !.next = None]
    /\ UNCHANGED <<manifest, file, synced, session, lab, unsynced, now>>

\* fsync, or the replacement of active.json, fails.
IOFails ==
    /\ "io" \in Fault /\ proc.at \in {"sync", "save"}
    /\ End
    /\ UNCHANGED <<disk, acked, session, lab, unsynced, now>>

-----------------------------------------------------------------------------
(* Clear removes the files, in the directory's order. *)

Clear ==
    /\ proc.at = "none" /\ manifest
    /\ proc' = [NoProcess EXCEPT !.at = "clear"]
    /\ acked' = {} /\ lab' = "cleared" /\ unsynced' = "no"
    /\ UNCHANGED <<disk, session, now>>

RemoveAll ==
    /\ proc.at = "clear"
    /\ \/ manifest /\ manifest' = FALSE /\ UNCHANGED <<active, file, synced, proc>>
       \/ active # None /\ active' = None /\ UNCHANGED <<manifest, file, synced, proc>>
       \/ \E s \in 1 .. MaxSession :
             /\ file[s] # << >>
             /\ file' = [file EXCEPT ![s] = << >>] /\ synced' = [synced EXCEPT ![s] = 0]
             /\ UNCHANGED <<manifest, active, proc>>
       \/ /\ ~manifest /\ active = None /\ \A s \in 1 .. MaxSession : file[s] = << >>
          /\ End /\ UNCHANGED disk
    /\ UNCHANGED <<acked, session, lab, unsynced, now>>

-----------------------------------------------------------------------------
(* The environment. *)

Exit ==
    /\ proc.at = "idle" \/ ("kill" \in Fault /\ proc.at # "none")
    /\ End
    /\ UNCHANGED <<disk, acked, session, lab, unsynced, now>>

\* Lines that were not synced are lost, or the last one kept is cut short.
PowerLoss ==
    /\ "power" \in Fault
    /\ \E s \in 1 .. MaxSession : \E n \in synced[s] .. Len(file[s]) :
         /\ \/ file' = [file EXCEPT ![s] = SubSeq(@, 1, n)]
            \/ /\ n > synced[s] /\ "torn" \in Fault
               /\ file' = [file EXCEPT ![s] = [SubSeq(@, 1, n) EXCEPT ![n].form = "torn"]]
         /\ synced' = [synced EXCEPT ![s] = Len(file'[s])]
    /\ unsynced' = IF unsynced = "counted" THEN "lost" ELSE unsynced
    /\ End
    /\ UNCHANGED <<manifest, active, acked, session, lab, now>>

Tick ==
    /\ now' \in 0 .. MaxTime
    /\ now' > now \/ "clock" \in Fault
    /\ UNCHANGED <<disk, proc, acked, session, lab, unsynced>>

Command == Start \/ Pause \/ Resume \/ Ingest \/ Status
Write == WriteEvent \/ WriteFails \/ SyncEvent \/ saveMetadata \/ IOFails
Next ==
    \/ InitManifest \/ InitActive \/ Open \/ Command \/ Write \/ Clear \/ RemoveAll
    \/ Exit \/ PowerLoss \/ Tick

Spec == Init /\ [][Next]_vars

-----------------------------------------------------------------------------
\* An event whose append was reported as done stays in the log, whole and on
\* stable storage, until the lab is cleared, whatever is killed or fails later.
AckedReadable ==
    \A e \in acked : \E i \in 1 .. synced[e.SessionID] : file[e.SessionID][i] = Line(e, "whole")

\* Wherever a process was killed or failed, or the power was lost, the next one
\* can work on: the log is a session and the metadata is not ahead of it.  The
\* exceptions are a line that was cut short, and a power loss after Status took
\* into the metadata a line that its writer had not synced.
StatusRecovers ==
    /\ lab \in {"init", "started"} /\ unsynced # "lost"
    /\ active.SessionID # None => Readable(file[active.SessionID])
    => Loaded(active) # None

\* A running lab can be paused and a paused one resumed: the control events of
\* the store continue the session that the sidecar's events left.
CanControl ==
    /\ Ready({"running"}) => Accepts(proc.sequence, pauseEvent)
    /\ Ready({"paused"}) => Accepts(proc.sequence, resumeEvent)
=============================================================================
