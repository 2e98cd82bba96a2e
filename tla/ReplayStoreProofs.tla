------------------------- MODULE ReplayStoreProofs -------------------------
(***************************************************************************)
(* The replay store loses no event that it acknowledged, recovers from     *)
(* crashes, and can always be paused and resumed: for any number of        *)
(* sessions and events, whatever is killed or fails.                       *)
(*                                                                         *)
(* The theorems assume that no write ends just before the newline of its   *)
(* line ("open"): the scanner takes such a line, and the next append then  *)
(* spoils it.                                                              *)
(***************************************************************************)
EXTENDS ReplayStore, FiniteSetTheorems, WellFoundedInduction, NaturalsInduction, TLAPS

ReplayEvent ==
    [SessionID : 1 .. MaxSession, EpisodeID : Identifier, Seq : Nat, MonotonicUS : Nat,
     UTC : Nat, Type : AllTypes]
LogLine == [event : ReplayEvent, form : {"whole", "torn"}]

Whole(lines) == \A i \in DOMAIN lines : lines[i].form = "whole"

\* The state q of session s after k events, before time t.  Identifiers are
\* numbered, so that the number of those seen is a new one.
GoodState(q, s, k, t) ==
    /\ q \in SequenceState /\ q.LastSeq = k
    /\ IsFiniteSet(q.SeenEpisodes) /\ Cardinality(q.SeenEpisodes) <= k
    /\ \A id \in q.SeenEpisodes : id.n < Cardinality(q.SeenEpisodes)
    /\ IF k = 0 THEN q = EmptySequence
       ELSE q.SessionID = s /\ q.LastEpisodeID \in q.SeenEpisodes
    /\ "clock" \notin Fault => q.LastUTC <= t

\* Every prefix of a log is a session.
LogGood(lines, s, t) ==
    /\ lines \in Seq(LogLine)
    /\ \A k \in 0 .. Len(lines) : GoodState(SequenceStates(lines)[k], s, k, t)

FileInv(s) ==
    /\ LogGood(file[s], s, now) /\ synced[s] \in 0 .. Len(file[s])
    /\ s > session => file[s] = << >>
    /\ MaxSeq > 0 => Len(file[s]) <= MaxSeq

\* The metadata summarise a prefix of the log.
Consistent(meta) ==
    meta.State # "disabled" =>
        LET k == meta.Last.LastSeq IN
        /\ k <= Len(file[meta.SessionID])
        /\ meta = Metadata(meta, SequenceStates(file[meta.SessionID])[k])

MetaType(meta) ==
    /\ meta \in SessionMetadata
    /\ meta.State # "disabled" => meta.SessionID \in 1 .. session /\ meta.Last.LastSeq > 0

ProcessFields == {"at", "meta", "sequence", "event", "next"}

TypeOK ==
    /\ manifest \in BOOLEAN /\ session \in 0 .. MaxSession /\ now \in Nat
    /\ DOMAIN file = 1 .. MaxSession /\ DOMAIN synced = 1 .. MaxSession
    /\ active # None => MetaType(active)
    /\ proc.at \in {"none", "init", "idle", "write", "sync", "save", "clear"}
    /\ DOMAIN proc = ProcessFields
    /\ unsynced \in {"no", "counted", "lost"}
    /\ proc.at = "clear" => acked = {} /\ lab = "cleared"
    /\ \A e \in acked : e.SessionID \in 1 .. MaxSession

\* The metadata on disk are behind the log, unless a power loss took a line
\* that Status had counted; those that count only synced lines stay behind it.
ActiveInv ==
    lab \in {"init", "started"} =>
        /\ active # None
        /\ unsynced # "lost" => Consistent(active)
        /\ unsynced = "no" /\ active.State # "disabled" =>
               active.Last.LastSeq <= synced[active.SessionID]

Appending == proc.at \in {"write", "sync", "save"}
InSession == Appending \/ (proc.at = "idle" /\ proc.meta # None /\ proc.meta.State # "disabled")

\* What a process knows of its session: the log is whole and ends in the state
\* that the process has, before or after the event that it appends.
ProcInv ==
    LET s == proc.meta.SessionID
        end == SequenceStates(file[s])[Len(file[s])]
    IN
    /\ proc.at = "idle" /\ proc.meta = None => proc = Idle
    /\ InSession =>
           /\ MetaType(proc.meta) /\ proc.meta.State # "disabled" /\ Whole(file[s])
           /\ active # None /\ Consistent(active)
           /\ active.State = "disabled" \/ active.SessionID = s
    /\ InSession /\ ~Appending => proc.sequence = end /\ proc.meta = Metadata(proc.meta, end)
    /\ Appending =>
           /\ proc.event \in ReplayEvent /\ proc.event.SessionID = s
           /\ proc.meta = Metadata(proc.meta, proc.next)
    /\ proc.at = "write" =>
           /\ Accepts(end, proc.event) /\ proc.next = Accept(end, proc.event)
           /\ proc.event.EpisodeID \in end.SeenEpisodes
                  \/ proc.event.EpisodeID.n = Cardinality(end.SeenEpisodes)
           /\ proc.event.Seq = Len(file[s]) + 1 /\ (MaxSeq > 0 => Len(file[s]) < MaxSeq)
           /\ "clock" \notin Fault => proc.event.UTC <= now
    /\ proc.at \in {"sync", "save"} =>
           /\ proc.next = end /\ file[s] # << >>
           /\ file[s][Len(file[s])] = Line(proc.event, "whole")
    /\ proc.at = "save" => synced[s] = Len(file[s])

StoreInv ==
    /\ TypeOK /\ (\A s \in 1 .. MaxSession : FileInv(s))
    /\ ActiveInv /\ ProcInv /\ AckedReadable

-----------------------------------------------------------------------------
(* Scanning a log. *)

\* A set of numbers that is not empty has a least one.
LEMMA MinExists ==
    ASSUME NEW S, S \subseteq Nat, S # {}
    PROVE  \E i \in S : \A j \in S : i <= j
<1> DEFINE R == OpToRel(<, Nat)
<1>1. IsWellFoundedOn(R, Nat)
  BY NatLessThanWellFounded, Zenon
<1> HIDE DEF R
<1>2. PICK i \in S : \A j \in S : ~(<<j, i>> \in R)
  BY <1>1, WFMin, Zenon
<1>3. \A j \in S : ~(j < i)
  BY <1>2, Zenon DEF R, OpToRel
<1> QED
  BY <1>3

\* One step of scanSession.
NextState(q, event) == IF q # None /\ Accepts(q, event) THEN Accept(q, event) ELSE None

\* What is after event n of f, which holds the states before it.
StateAt(f, lines, n) ==
    IF n = 0 THEN EmptySequence ELSE NextState(f[n - 1], lines[n].event)

\* The recursion of scanSession defines a function: a state for every line.
LEMMA ScanDefined ==
    ASSUME NEW lines, Len(lines) \in Nat
    PROVE  SequenceStates(lines) =
               [n \in 0 .. Len(lines) |-> StateAt(SequenceStates(lines), lines, n)]
<1> DEFINE Scan(f, k) == f = [n \in 0 .. k |-> StateAt(f, lines, n)]
           Bad == {k \in Nat : ~\E f : Scan(f, k)}
<1>1. Bad = {}
  <2> SUFFICES ASSUME Bad # {} PROVE FALSE
    OBVIOUS
  <2>1. PICK k \in Bad : \A j \in Bad : k <= j
    BY MinExists, Zenon
  <2>2. k # 0
    <3>1. Scan([n \in 0 .. 0 |-> EmptySequence], 0)
      BY DEF StateAt
    <3> QED
      BY <2>1, <3>1, Zenon
  <2>3. k - 1 \in Nat /\ k - 1 \notin Bad
    BY <2>1, <2>2
  <2>4. PICK f : Scan(f, k - 1)
    BY <2>3
  <2> DEFINE g == [n \in 0 .. k |-> IF n = k THEN StateAt(f, lines, k) ELSE f[n]]
  <2>5. ASSUME NEW n \in 0 .. k PROVE g[n] = StateAt(g, lines, n)
    <3>1. n # 0 => n - 1 \in 0 .. k - 1 /\ g[n - 1] = f[n - 1]
      BY <2>1
    <3>2. StateAt(g, lines, n) = StateAt(f, lines, n)
      BY <3>1 DEF StateAt
    <3>3. ASSUME n # k PROVE n \in 0 .. k - 1 /\ f[n] = StateAt(f, lines, n)
      <4> DEFINE h == [m \in 0 .. k - 1 |-> StateAt(f, lines, m)]
      <4>1. n \in 0 .. k - 1
        BY <2>1, <3>3
      <4>2. h[n] = StateAt(f, lines, n)
        BY <4>1
      <4>3. f = h
        BY <2>4
      <4> HIDE DEF h
      <4> QED
        BY <4>1, <4>2, <4>3
    <3> QED
      BY <3>2, <3>3
  <2>6. Scan(g, k)
    BY <2>5
  <2> QED
    BY <2>1, <2>6, Zenon
<1>2. PICK f : Scan(f, Len(lines))
  BY <1>1
<1>3. SequenceStates(lines) = CHOOSE h : Scan(h, Len(lines))
  BY DEF SequenceStates, StateAt, NextState
<1> HIDE DEF Scan
<1>4. Scan(CHOOSE h : Scan(h, Len(lines)), Len(lines))
  BY <1>2
<1> QED
  BY <1>3, <1>4 DEF Scan

\* The state after n lines is that before line n, continued by its event.
LEMMA ScanStep ==
    ASSUME NEW lines, Len(lines) \in Nat, NEW n \in 0 .. Len(lines)
    PROVE  SequenceStates(lines)[n] =
               IF n = 0 THEN EmptySequence
               ELSE NextState(SequenceStates(lines)[n - 1], lines[n].event)
<1> DEFINE f == SequenceStates(lines)
           h == [m \in 0 .. Len(lines) |-> StateAt(f, lines, m)]
<1>1. f = h
  BY ScanDefined
<1>2. h[n] = StateAt(f, lines, n)
  OBVIOUS
<1> HIDE DEF f, h
<1>3. f[n] = StateAt(f, lines, n)
  BY <1>1, <1>2
<1> QED
  BY <1>3 DEF f, StateAt

\* The state after n lines depends on the events of those lines alone: an
\* append or a lost tail changes no state before it.
LEMMA ScanAgrees ==
    ASSUME NEW a, NEW b, Len(a) \in Nat, Len(b) \in Nat, NEW n \in Nat,
           n <= Len(a), n <= Len(b), \A i \in 1 .. n : a[i].event = b[i].event
    PROVE  \A k \in 0 .. n : SequenceStates(a)[k] = SequenceStates(b)[k]
<1> DEFINE Bad == {k \in 0 .. n : SequenceStates(a)[k] # SequenceStates(b)[k]}
<1> SUFFICES ASSUME Bad # {} PROVE FALSE
  OBVIOUS
<1>1. Bad \subseteq Nat
  OBVIOUS
<1>2. PICK k \in Bad : \A j \in Bad : k <= j
  <2> HIDE DEF Bad
  <2> QED
    BY <1>1, MinExists, Zenon
<1>3. /\ k \in 0 .. Len(a) /\ k \in 0 .. Len(b)
      /\ SequenceStates(a)[k] # SequenceStates(b)[k]
  BY <1>2
<1>4. SequenceStates(a)[k] = IF k = 0 THEN EmptySequence
                             ELSE NextState(SequenceStates(a)[k - 1], a[k].event)
  BY <1>3, ScanStep
<1>5. SequenceStates(b)[k] = IF k = 0 THEN EmptySequence
                             ELSE NextState(SequenceStates(b)[k - 1], b[k].event)
  BY <1>3, ScanStep
<1>6. k # 0
  BY <1>3, <1>4, <1>5
<1>7. k \in 1 .. n /\ k - 1 \in 0 .. n /\ k - 1 \notin Bad
  BY <1>2, <1>6
<1>8. SequenceStates(a)[k - 1] = SequenceStates(b)[k - 1] /\ a[k].event = b[k].event
  BY <1>7
<1> HIDE DEF Bad
<1> QED
  BY <1>3, <1>4, <1>5, <1>6, <1>8

\* An event that continues the sequence, with an identifier that was seen or is
\* the next one.
Follows(event, q, s, k, t) ==
    /\ event \in ReplayEvent /\ event.SessionID = s /\ event.Seq = k + 1
    /\ event.EpisodeID \in q.SeenEpisodes \/ event.EpisodeID.n = Cardinality(q.SeenEpisodes)
    /\ "clock" \notin Fault => event.UTC <= t

\* Accept of sequence.go leads from a good state to a good one.
LEMMA AcceptGood ==
    ASSUME NEW q, NEW s, NEW k \in Nat, NEW t, NEW event,
           GoodState(q, s, k, t), Follows(event, q, s, k, t)
    PROVE  GoodState(Accept(q, event), s, k + 1, t)
<1> DEFINE r == Accept(q, event)
<1>1. /\ r.LastSeq = k + 1 /\ r.SessionID = s /\ r.LastEpisodeID = event.EpisodeID
      /\ r.SeenEpisodes = q.SeenEpisodes \cup {event.EpisodeID} /\ r.LastUTC = event.UTC
  BY DEF Accept, Follows
<1>2. r \in SequenceState
  <2>1. EpisodeClosedAfter(q, event) \in BOOLEAN
    BY Zenon DEF EpisodeClosedAfter, GoodState, SequenceState
  <2>2. (event.Type # "resume" /\ (q.Paused \/ event.Type = "pause")) \in BOOLEAN
    OBVIOUS
  <2>3. /\ event.SessionID \in Nat /\ event.EpisodeID \in Identifier /\ event.Seq \in Nat
        /\ event.MonotonicUS \in Nat /\ event.UTC \in Nat
        /\ q.SeenEpisodes \cup {event.EpisodeID} \subseteq Identifier
    BY DEF Follows, GoodState, ReplayEvent, SequenceState
  <2> QED
    BY <2>1, <2>2, <2>3 DEF Accept, SequenceState
<1>3. Cardinality(q.SeenEpisodes) \in Nat
  BY FS_CardinalityType DEF GoodState
<1>4. /\ IsFiniteSet(r.SeenEpisodes)
      /\ Cardinality(r.SeenEpisodes) = IF event.EpisodeID \in q.SeenEpisodes
                                       THEN Cardinality(q.SeenEpisodes)
                                       ELSE Cardinality(q.SeenEpisodes) + 1
  <2>1. IsFiniteSet(q.SeenEpisodes)
    BY DEF GoodState
  <2>2. /\ IsFiniteSet(q.SeenEpisodes \cup {event.EpisodeID})
        /\ Cardinality(q.SeenEpisodes \cup {event.EpisodeID})
               = IF event.EpisodeID \in q.SeenEpisodes THEN Cardinality(q.SeenEpisodes)
                 ELSE Cardinality(q.SeenEpisodes) + 1
    BY <2>1, FS_AddElement
  <2> HIDE DEF r
  <2> QED
    BY <1>1, <2>2
<1>5. ASSUME NEW id \in r.SeenEpisodes PROVE id.n < Cardinality(r.SeenEpisodes)
  <2>1. id \in Identifier /\ id.n \in Nat
    BY <1>2 DEF SequenceState, Identifier
  <2>2. CASE id \in q.SeenEpisodes
    BY <1>3, <1>4, <2>1, <2>2 DEF GoodState
  <2>3. CASE id \notin q.SeenEpisodes
    BY <1>1, <1>3, <1>4, <2>1, <2>3 DEF Follows
  <2> QED
    BY <2>2, <2>3
<1>6. Cardinality(r.SeenEpisodes) <= k + 1
  BY <1>3, <1>4 DEF GoodState
<1>7. "clock" \notin Fault => r.LastUTC <= t
  BY <1>1 DEF Follows
<1> HIDE DEF r
<1>8. k + 1 # 0 /\ r.LastEpisodeID \in r.SeenEpisodes
  BY <1>1
<1>9. GoodState(r, s, k + 1, t)
  BY <1>1, <1>2, <1>4, <1>5, <1>6, <1>7, <1>8 DEF GoodState
<1> QED
  BY <1>9 DEF r

\* Logs of a session that agree on the events of a prefix.
LEMMA PrefixGood ==
    ASSUME NEW lines, NEW s, NEW t, LogGood(lines, s, t),
           NEW m \in Seq(LogLine), Len(m) <= Len(lines),
           \A i \in 1 .. Len(m) : m[i].event = lines[i].event
    PROVE  /\ LogGood(m, s, t)
           /\ \A k \in 0 .. Len(m) : SequenceStates(m)[k] = SequenceStates(lines)[k]
<1>1. Len(m) \in Nat /\ Len(lines) \in Nat
  BY DEF LogGood
<1>2. \A k \in 0 .. Len(m) : SequenceStates(m)[k] = SequenceStates(lines)[k]
  BY <1>1, ScanAgrees
<1>3. ASSUME NEW k \in 0 .. Len(m) PROVE GoodState(SequenceStates(m)[k], s, k, t)
  BY <1>1, <1>2 DEF LogGood
<1> QED
  BY <1>2, <1>3 DEF LogGood

\* Later, a log is as good as before.
LEMMA LaterGood ==
    ASSUME NEW lines, NEW s, NEW t \in Nat, NEW u \in Nat, LogGood(lines, s, t),
           "clock" \notin Fault => t <= u
    PROVE  LogGood(lines, s, u)
<1>1. ASSUME NEW k \in 0 .. Len(lines) PROVE GoodState(SequenceStates(lines)[k], s, k, u)
  <2>1. GoodState(SequenceStates(lines)[k], s, k, t) /\ SequenceStates(lines)[k].LastUTC \in Nat
    BY DEF LogGood, GoodState, SequenceState
  <2> QED
    BY <2>1 DEF GoodState
<1> QED
  BY <1>1 DEF LogGood

\* The log m holds the lines and then the event, whose state is next.
Extends(m, lines, s, t, event, form, next) ==
    /\ LogGood(m, s, t) /\ Len(m) = Len(lines) + 1
    /\ \A k \in 0 .. Len(lines) : SequenceStates(m)[k] = SequenceStates(lines)[k]
    /\ SequenceStates(m)[Len(m)] = next
    /\ m[Len(m)] = Line(event, form) /\ \A i \in 1 .. Len(lines) : m[i] = lines[i]

\* An event that the sequence accepts is written at the end, in full or not.
LEMMA AppendGood ==
    ASSUME NEW lines, NEW s, NEW t, LogGood(lines, s, t),
           NEW event, NEW form \in {"whole", "torn"}, NEW q,
           q = SequenceStates(lines)[Len(lines)],
           Accepts(q, event), Follows(event, q, s, Len(lines), t),
           NEW m, m = Append(lines, Line(event, form))
    PROVE  Extends(m, lines, s, t, event, form, Accept(q, event))
<1>1. Line(event, form) \in LogLine /\ lines \in Seq(LogLine)
  BY DEF Line, LogLine, Follows, LogGood
<1>2. /\ m \in Seq(LogLine) /\ Len(m) = Len(lines) + 1 /\ Len(lines) \in Nat
      /\ m[Len(m)] = Line(event, form) /\ \A i \in 1 .. Len(lines) : m[i] = lines[i]
  BY <1>1
<1>3. \A k \in 0 .. Len(lines) : SequenceStates(m)[k] = SequenceStates(lines)[k]
  <2>1. \A i \in 1 .. Len(lines) : m[i].event = lines[i].event
    BY <1>2
  <2>2. /\ Len(m) \in Nat /\ Len(lines) \in Nat
        /\ Len(lines) <= Len(m) /\ Len(lines) <= Len(lines)
    BY <1>2
  <2> QED
    BY <2>1, <2>2, ScanAgrees, Zenon
<1>4. GoodState(q, s, Len(lines), t)
  BY <1>2 DEF LogGood
<1>5. q # None
  BY <1>4, NoneAssumption DEF GoodState
<1>6. SequenceStates(m)[Len(m)] = Accept(q, event)
  <2>1. Len(m) \in 0 .. Len(m) /\ Len(m) # 0 /\ Len(m) - 1 = Len(lines) /\ Len(m) \in Nat
    BY <1>2
  <2>2. SequenceStates(m)[Len(m)] = NextState(SequenceStates(m)[Len(lines)], m[Len(m)].event)
    BY <2>1, ScanStep, Zenon
  <2>3. SequenceStates(m)[Len(lines)] = q /\ m[Len(m)].event = event
    BY <1>2, <1>3 DEF Line
  <2> QED
    BY <1>5, <2>2, <2>3 DEF NextState
<1>7. ASSUME NEW k \in 0 .. Len(m) PROVE GoodState(SequenceStates(m)[k], s, k, t)
  <2>1. CASE k \in 0 .. Len(lines)
    BY <1>3, <2>1 DEF LogGood
  <2>2. CASE k = Len(lines) + 1
    BY <1>2, <1>4, <1>6, <2>2, AcceptGood
  <2> QED
    BY <1>2, <2>1, <2>2
<1> QED
  BY <1>2, <1>3, <1>6, <1>7 DEF LogGood, Extends

-----------------------------------------------------------------------------
(* Steps that leave the logs. *)

\* Where the processes are that a step begins or ends.
LEMMA ProcessAt ==
    /\ NoProcess.at = "none" /\ Idle.at = "idle" /\ Idle.meta = None
    /\ [NoProcess EXCEPT !.at = "init"].at = "init"
    /\ [NoProcess EXCEPT !.at = "clear"].at = "clear"
    /\ DOMAIN NoProcess = ProcessFields /\ DOMAIN Idle = ProcessFields
    /\ \A v : DOMAIN [NoProcess EXCEPT !.at = v] = ProcessFields
  BY DEF NoProcess, Idle, ProcessFields

\* Logs that stay as they are, while sessions are only added.
LEMMA FilesSame ==
    ASSUME StoreInv, UNCHANGED <<file, synced, now>>,
           session' \in 0 .. MaxSession, session <= session'
    PROVE  \A s \in 1 .. MaxSession : FileInv(s)'
<1>1. ASSUME NEW s \in 1 .. MaxSession PROVE FileInv(s)'
  <2>1. FileInv(s) /\ session \in Nat
    BY DEF StoreInv, TypeOK
  <2>2. session \in Int /\ session' \in Int /\ s \in Int
    BY <2>1, BoundsAssumption, SMTT(30)
  <2> QED
    BY <2>1, <2>2 DEF FileInv
<1> QED
  BY <1>1

\* Nobody works on a session.
LEMMA NoSession ==
    ASSUME proc'.at \in {"none", "init", "clear"}
    PROVE  ProcInv'
  BY DEF ProcInv, InSession, Appending

\* Metadata that stay as they are, beside logs that do.
LEMMA ActiveSame ==
    ASSUME StoreInv, UNCHANGED <<active, file, synced, lab, unsynced>>
    PROVE  ActiveInv'
<1>1. Consistent(active) <=> Consistent(active)'
  BY DEF Consistent
<1> QED
  BY <1>1 DEF StoreInv, ActiveInv

\* A process that ends leaves everything as it is on disk.
LEMMA EndStep ==
    ASSUME StoreInv, End, UNCHANGED <<disk, acked, session, lab, unsynced, now>>
    PROVE  StoreInv'
<1>1. proc'.at = "none" /\ DOMAIN proc' = ProcessFields
  BY ProcessAt DEF End
<1>2. TypeOK'
  BY <1>1 DEF StoreInv, TypeOK, MetaType, disk
<1>3. \A s \in 1 .. MaxSession : FileInv(s)'
  <2>1. session' \in 0 .. MaxSession /\ session <= session'
    BY BoundsAssumption DEF StoreInv, TypeOK
  <2> QED
    BY <2>1, FilesSame DEF disk
<1>4. ActiveInv'
  BY ActiveSame DEF disk
<1>5. ProcInv'
  BY <1>1, NoSession
<1>6. AckedReadable'
  BY DEF StoreInv, AckedReadable, Line, disk
<1> QED
  BY <1>2, <1>3, <1>4, <1>5, <1>6 DEF StoreInv

\* A lab that is being initialized promises nothing yet.
LEMMA InitManifestStep ==
    ASSUME StoreInv, InitManifest
    PROVE  StoreInv'
<1>1. proc'.at = "init" /\ DOMAIN proc' = ProcessFields
  BY ProcessAt DEF InitManifest
<1>2. TypeOK'
  BY <1>1 DEF StoreInv, TypeOK, MetaType, InitManifest
<1>3. \A s \in 1 .. MaxSession : FileInv(s)'
  <2>1. session' \in 0 .. MaxSession /\ session <= session'
    BY BoundsAssumption DEF StoreInv, TypeOK, InitManifest
  <2> QED
    BY <2>1, FilesSame DEF InitManifest
<1>4. ActiveInv' /\ ProcInv'
  BY <1>1, NoSession DEF ActiveInv, InitManifest
<1>5. AckedReadable'
  BY DEF StoreInv, AckedReadable, Line, InitManifest
<1> QED
  BY <1>2, <1>3, <1>4, <1>5 DEF StoreInv

\* The metadata of a lab without a session.
LEMMA DisabledMeta ==
    Disabled \in SessionMetadata /\ Disabled.State = "disabled" /\ Disabled # None
<1>1. EmptySequence \in SequenceState
  BY DEF EmptySequence, SequenceState
<1>2. Disabled \in SessionMetadata /\ Disabled.State = "disabled"
  BY <1>1 DEF Disabled, SessionMetadata
<1> QED
  BY <1>2, NoneAssumption

\* An initialized lab has no session.
LEMMA InitActiveStep ==
    ASSUME StoreInv, InitActive
    PROVE  StoreInv'
<1>1. proc'.at = "none" /\ DOMAIN proc' = ProcessFields
  BY ProcessAt DEF InitActive, End
<1>2. TypeOK'
  BY <1>1, DisabledMeta DEF StoreInv, TypeOK, MetaType, InitActive
<1>3. \A s \in 1 .. MaxSession : FileInv(s)'
  <2>1. session' \in 0 .. MaxSession /\ session <= session'
    BY BoundsAssumption DEF StoreInv, TypeOK, InitActive
  <2> QED
    BY <2>1, FilesSame DEF InitActive
<1>4. ActiveInv' /\ ProcInv'
  BY <1>1, NoSession, DisabledMeta DEF ActiveInv, InitActive, Consistent
<1>5. AckedReadable'
  BY DEF StoreInv, AckedReadable, Line, InitActive
<1> QED
  BY <1>2, <1>3, <1>4, <1>5 DEF StoreInv

\* A process that opened the lab knows nothing of it yet.
LEMMA OpenStep ==
    ASSUME StoreInv, Open
    PROVE  StoreInv'
<1>1. proc' = Idle /\ proc'.at = "idle" /\ proc'.meta = None /\ DOMAIN proc' = ProcessFields
  BY ProcessAt DEF Open
<1>2. TypeOK'
  BY <1>1 DEF StoreInv, TypeOK, MetaType, Open, disk
<1>3. \A s \in 1 .. MaxSession : FileInv(s)'
  <2>1. session' \in 0 .. MaxSession /\ session <= session'
    BY BoundsAssumption DEF StoreInv, TypeOK, Open
  <2> QED
    BY <2>1, FilesSame DEF Open, disk
<1>4. ActiveInv'
  BY ActiveSame DEF Open, disk
<1>5. ProcInv'
  BY <1>1 DEF ProcInv, InSession, Appending
<1>6. AckedReadable'
  BY DEF StoreInv, AckedReadable, Line, Open, disk
<1> QED
  BY <1>2, <1>3, <1>4, <1>5, <1>6 DEF StoreInv

\* A lab that is being cleared promises nothing any more.
LEMMA ClearStep ==
    ASSUME StoreInv, Clear
    PROVE  StoreInv'
<1>1. proc'.at = "clear" /\ DOMAIN proc' = ProcessFields
  BY ProcessAt DEF Clear
<1>2. TypeOK'
  BY <1>1 DEF StoreInv, TypeOK, MetaType, Clear, disk
<1>3. \A s \in 1 .. MaxSession : FileInv(s)'
  <2>1. session' \in 0 .. MaxSession /\ session <= session'
    BY BoundsAssumption DEF StoreInv, TypeOK, Clear
  <2> QED
    BY <2>1, FilesSame DEF Clear, disk
<1>4. ActiveInv' /\ ProcInv' /\ AckedReadable'
  BY <1>1, NoSession DEF ActiveInv, Clear, AckedReadable
<1> QED
  BY <1>2, <1>3, <1>4 DEF StoreInv

\* The clock moves on; without the fault "clock", forwards.
LEMMA TickStep ==
    ASSUME StoreInv, Tick
    PROVE  StoreInv'
<1>1. now \in Nat /\ now' \in Nat /\ ("clock" \notin Fault => now <= now')
  BY BoundsAssumption DEF StoreInv, TypeOK, Tick
<1>2. UNCHANGED <<manifest, active, file, synced, proc, acked, session, lab, unsynced>>
  BY DEF Tick, disk
<1>3. TypeOK'
  BY <1>1, <1>2 DEF StoreInv, TypeOK, MetaType
<1>4. ASSUME NEW s \in 1 .. MaxSession PROVE FileInv(s)'
  <2>1. LogGood(file[s], s, now')
    BY <1>1, LaterGood DEF StoreInv, FileInv
  <2> QED
    BY <1>2, <2>1 DEF StoreInv, FileInv
<1>5. ActiveInv'
  BY <1>2, ActiveSame
<1>6. ProcInv'
  <2>1. ProcInv /\ (Consistent(active) <=> Consistent(active)')
        /\ (MetaType(proc.meta) <=> MetaType(proc.meta)')
    BY <1>2 DEF StoreInv, Consistent, MetaType
  <2>2. ASSUME proc.at = "write", "clock" \notin Fault PROVE proc.event.UTC <= now'
    <3>1. proc.event.UTC <= now /\ proc.event.UTC \in Nat
      BY <2>1, <2>2 DEF ProcInv, Appending, ReplayEvent
    <3> QED
      BY <1>1, <2>2, <3>1
  <2> QED
    BY <1>2, <2>1, <2>2, ZenonT(30) DEF ProcInv, InSession, Appending
<1>7. AckedReadable'
  BY <1>2 DEF StoreInv, AckedReadable
<1> QED
  BY <1>3, <1>4, <1>5, <1>6, <1>7 DEF StoreInv

\* A log that was removed, or not yet begun.
LEMMA EmptyGood ==
    ASSUME NEW s, NEW t \in Nat
    PROVE  LogGood(<< >>, s, t) /\ SequenceStates(<< >>)[0] = EmptySequence
<1>1. Len(<< >>) = 0 /\ << >> \in Seq(LogLine)
  OBVIOUS
<1>2. SequenceStates(<< >>)[0] = EmptySequence
  <2>1. Len(<< >>) \in Nat /\ 0 \in 0 .. Len(<< >>)
    BY <1>1
  <2> QED
    BY <2>1, ScanStep
<1>3. EmptySequence \in SequenceState /\ EmptySequence.LastSeq = 0
      /\ EmptySequence.SeenEpisodes = {} /\ EmptySequence.LastUTC = 0
  BY DEF EmptySequence, SequenceState
<1>4. GoodState(EmptySequence, s, 0, t)
  BY <1>3, FS_EmptySet DEF GoodState
<1>5. ASSUME NEW k \in 0 .. 0 PROVE GoodState(SequenceStates(<< >>)[k], s, k, t)
  BY <1>2, <1>4
<1> QED
  BY <1>1, <1>2, <1>5 DEF LogGood

\* A file is removed.
LEMMA RemoveAllStep ==
    ASSUME StoreInv, RemoveAll
    PROVE  StoreInv'
<1>1. proc.at = "clear" /\ acked = {} /\ lab = "cleared"
  BY DEF RemoveAll, StoreInv, TypeOK
<1>2. UNCHANGED <<acked, session, lab, unsynced, now>> 
      /\ proc'.at \in {"clear", "none"} /\ DOMAIN proc' = ProcessFields
  BY <1>1, ProcessAt DEF RemoveAll, End, StoreInv, TypeOK
<1>3. manifest' \in BOOLEAN /\ active' \in {active, None}
  BY Zenon DEF RemoveAll, disk, StoreInv, TypeOK
<1>4. /\ DOMAIN file' = 1 .. MaxSession /\ DOMAIN synced' = 1 .. MaxSession
      /\ \A s \in 1 .. MaxSession : \/ file'[s] = file[s] /\ synced'[s] = synced[s]
                                    \/ file'[s] = << >> /\ synced'[s] = 0
  BY Zenon DEF RemoveAll, disk, StoreInv, TypeOK
<1>5. TypeOK'
  BY <1>1, <1>2, <1>3, <1>4 DEF StoreInv, TypeOK, MetaType
<1>6. ASSUME NEW s \in 1 .. MaxSession PROVE FileInv(s)'
  <2>1. CASE file'[s] = file[s] /\ synced'[s] = synced[s]
    BY <1>2, <2>1 DEF StoreInv, FileInv
  <2>2. CASE file'[s] = << >> /\ synced'[s] = 0
    <3>1. LogGood(<< >>, s, now) /\ Len(<< >>) = 0
      BY EmptyGood DEF StoreInv, TypeOK
    <3> QED
      BY <1>2, <2>2, <3>1, BoundsAssumption DEF FileInv
  <2> QED
    BY <1>4, <2>1, <2>2
<1>7. ActiveInv' /\ ProcInv' /\ AckedReadable'
  BY <1>1, <1>2, NoSession DEF ActiveInv, AckedReadable
<1> QED
  BY <1>5, <1>6, <1>7 DEF StoreInv

-----------------------------------------------------------------------------
(* Metadata. *)

\* Metadata of store.go sets the state and the summary of the sequence.
LEMMA MetadataFields ==
    ASSUME NEW meta \in SessionMetadata, NEW q \in SequenceState
    PROVE  /\ Metadata(meta, q) \in SessionMetadata /\ Metadata(meta, q) # None
           /\ Metadata(meta, q).State = StateName(q) /\ Metadata(meta, q).State # "disabled"
           /\ Metadata(meta, q).SessionID = meta.SessionID
           /\ Metadata(meta, q).Last.LastSeq = q.LastSeq
           /\ Metadata(meta, q).Last.LastEpisodeID = q.LastEpisodeID
           /\ Metadata(meta, q).Last.LastMonotonicUS = q.LastMonotonicUS
           /\ \A p : Metadata(Metadata(meta, q), p) = Metadata(meta, p)
<1>1. /\ Summary(q) \in SequenceState /\ Summary(q).LastSeq = q.LastSeq
      /\ Summary(q).LastEpisodeID = q.LastEpisodeID
      /\ Summary(q).LastMonotonicUS = q.LastMonotonicUS
  BY DEF Summary, SequenceState
<1>2. StateName(q) \in {"running", "paused"}
  BY DEF StateName
<1>3. /\ Metadata(meta, q) \in SessionMetadata /\ Metadata(meta, q).State = StateName(q)
      /\ Metadata(meta, q).SessionID = meta.SessionID /\ Metadata(meta, q).Last = Summary(q)
  BY <1>1, <1>2, Zenon DEF Metadata, SessionMetadata
<1>4. \A p : Metadata(Metadata(meta, q), p) = Metadata(meta, p)
  BY Zenon DEF Metadata, SessionMetadata
<1> QED
  BY <1>1, <1>2, <1>3, <1>4, NoneAssumption

\* The session of metadata that have one.
LEMMA MetaSession ==
    ASSUME StoreInv, NEW meta, MetaType(meta), meta.State # "disabled"
    PROVE  /\ meta.SessionID \in 1 .. MaxSession /\ meta.SessionID \in 1 .. session
           /\ meta \in SessionMetadata /\ meta.Last.LastSeq \in Nat \ {0}
<1>1. session \in 0 .. MaxSession /\ MaxSession \in Nat
  BY BoundsAssumption DEF StoreInv, TypeOK
<1>2. /\ meta \in SessionMetadata /\ meta.SessionID \in 1 .. session
      /\ meta.Last.LastSeq > 0
  BY DEF MetaType
<1>3. meta.Last.LastSeq \in Nat
  BY <1>2 DEF SessionMetadata, SequenceState
<1>4. meta.SessionID \in 1 .. MaxSession
  BY <1>1, <1>2
<1> QED
  BY <1>2, <1>3, <1>4

\* Metadata on disk that stay as they are, beside a log that keeps the states
\* that they summarise.
LEMMA ActiveKept ==
    ASSUME Consistent(active), UNCHANGED active,
           active.State # "disabled" =>
               /\ active.Last.LastSeq <= Len(file'[active.SessionID])
               /\ SequenceStates(file'[active.SessionID])[active.Last.LastSeq]
                      = SequenceStates(file[active.SessionID])[active.Last.LastSeq]
    PROVE  Consistent(active)'
  BY Zenon DEF Consistent

\* What a log ends with.
LEMMA EndGood ==
    ASSUME StoreInv, NEW s \in 1 .. MaxSession
    PROVE  /\ Len(file[s]) \in Nat /\ file[s] \in Seq(LogLine)
           /\ GoodState(SequenceStates(file[s])[Len(file[s])], s, Len(file[s]), now)
           /\ SequenceStates(file[s])[Len(file[s])] \in SequenceState
           /\ SequenceStates(file[s])[Len(file[s])].LastSeq = Len(file[s])
<1>1. LogGood(file[s], s, now)
  BY DEF StoreInv, FileInv
<1>2. file[s] \in Seq(LogLine) /\ Len(file[s]) \in Nat /\ Len(file[s]) \in 0 .. Len(file[s])
  BY <1>1 DEF LogGood
<1>3. GoodState(SequenceStates(file[s])[Len(file[s])], s, Len(file[s]), now)
  BY <1>1, <1>2 DEF LogGood
<1> QED
  BY <1>2, <1>3 DEF GoodState

-----------------------------------------------------------------------------
(* Writing an event. *)

\* The line that a process writes continues the log, in full or cut short.
LEMMA WriteLog ==
    ASSUME StoreInv, proc.at = "write", NEW form \in {"whole", "torn"},
           NEW s, s = proc.meta.SessionID,
           file' = [file EXCEPT ![proc.event.SessionID] = Written(form)],
           UNCHANGED <<active, synced, acked, session, lab, unsynced, now>>
    PROVE  /\ s \in 1 .. MaxSession /\ DOMAIN file' = 1 .. MaxSession
           /\ Len(file'[s]) = Len(file[s]) + 1 /\ Len(file[s]) \in Nat
           /\ SequenceStates(file'[s])[Len(file'[s])] = proc.next
           /\ file'[s][Len(file'[s])] = Line(proc.event, form)
           /\ \A i \in 1 .. Len(file[s]) : file'[s][i] = file[s][i]
           /\ \A r \in 1 .. MaxSession : FileInv(r)'
           /\ Consistent(active)' /\ ActiveInv' /\ AckedReadable'
<1> DEFINE end == SequenceStates(file[s])[Len(file[s])]
<1>1. /\ MetaType(proc.meta) /\ proc.meta.State # "disabled" /\ Whole(file[s])
      /\ active # None /\ Consistent(active)
      /\ active.State = "disabled" \/ active.SessionID = s
      /\ proc.event \in ReplayEvent /\ proc.event.SessionID = s
      /\ Accepts(end, proc.event) /\ proc.next = Accept(end, proc.event)
      /\ \/ proc.event.EpisodeID \in end.SeenEpisodes
         \/ proc.event.EpisodeID.n = Cardinality(end.SeenEpisodes)
      /\ proc.event.Seq = Len(file[s]) + 1 /\ (MaxSeq > 0 => Len(file[s]) < MaxSeq)
      /\ "clock" \notin Fault => proc.event.UTC <= now
  BY Zenon DEF StoreInv, ProcInv, InSession, Appending
<1>2. s \in 1 .. MaxSession /\ s \in 1 .. session /\ DOMAIN file = 1 .. MaxSession
  <2>1. s \in 1 .. MaxSession /\ s \in 1 .. session
    BY <1>1, MetaSession, Zenon
  <2> QED
    BY <2>1 DEF StoreInv, TypeOK
<1>3. LogGood(file[s], s, now) /\ file[s] \in Seq(LogLine) /\ Len(file[s]) \in Nat
  BY <1>2, EndGood DEF StoreInv, FileInv
<1>4. Written(form) = Append(file[s], Line(proc.event, form))
  <2>1. file[s] # << >> => file[s][Len(file[s])].form = "whole"
    <3>1. Whole(file[s]) /\ file[s] \in Seq(LogLine)
      BY <1>1, <1>3
    <3> QED
      BY <3>1, SMTT(30) DEF Whole
  <2> QED
    BY <1>1, <2>1, Zenon DEF Written, log
<1>5. file'[s] = Append(file[s], Line(proc.event, form))
  BY <1>1, <1>2, <1>4, Zenon
<1>6. Follows(proc.event, end, s, Len(file[s]), now)
  BY <1>1 DEF Follows
<1>7. Extends(file'[s], file[s], s, now, proc.event, form, Accept(end, proc.event))
  <2> HIDE DEF end
  <2>1. end = SequenceStates(file[s])[Len(file[s])]
    BY DEF end
  <2>2. Accepts(end, proc.event) /\ LogGood(file[s], s, now)
    BY <1>1, <1>3
  <2> QED
    BY <1>5, <1>6, <2>1, <2>2, AppendGood, ZenonT(30)
<1> HIDE DEF end
<1>8. ASSUME NEW r \in 1 .. MaxSession PROVE FileInv(r)'
  <2>1. CASE r = s
    <3>1. synced'[s] \in 0 .. Len(file[s])
      BY <1>2, Zenon DEF StoreInv, FileInv
    <3>2. LogGood(file'[s], s, now')
      BY <1>7 DEF Extends
    <3>3. ~(s > session')
      <4>1. session \in Nat /\ s \in 1 .. session /\ session' = session
        BY <1>2 DEF StoreInv, TypeOK
      <4> QED
        BY <4>1
    <3>4. synced'[s] \in 0 .. Len(file'[s]) /\ (MaxSeq > 0 => Len(file'[s]) <= MaxSeq)
      <4>1. MaxSeq > 0 => Len(file[s]) < MaxSeq
        BY <1>1, Zenon
      <4>2. Len(file'[s]) = Len(file[s]) + 1 /\ Len(file[s]) \in Nat
        BY <1>3, <1>7 DEF Extends
      <4> QED
        BY <3>1, <4>1, <4>2, BoundsAssumption, SMTT(30)
    <3> QED
      BY <2>1, <3>2, <3>3, <3>4 DEF FileInv
  <2>2. CASE r # s
    <3>1. file'[r] = file[r]
      BY <1>1, <1>2, <2>2, Zenon
    <3> QED
      BY <3>1, Zenon DEF StoreInv, FileInv
  <2> QED
    BY <2>1, <2>2
<1>9. Consistent(active)'
  <2>1. ASSUME active.State # "disabled"
        PROVE  active.SessionID = s /\ active.Last.LastSeq \in 0 .. Len(file[s])
    <3>1. MetaType(active) /\ Consistent(active) /\ active.SessionID = s
      BY <1>1, <2>1 DEF StoreInv, TypeOK
    <3>2. active.Last.LastSeq \in Nat
      BY <2>1, <3>1, MetaSession, Zenon
    <3>3. active.Last.LastSeq <= Len(file[s])
      BY <2>1, <3>1, Zenon DEF Consistent
    <3> QED
      BY <1>3, <3>1, <3>2, <3>3, SMTT(30)
  <2>2. active.State # "disabled" =>
            /\ active.Last.LastSeq <= Len(file'[active.SessionID])
            /\ SequenceStates(file'[active.SessionID])[active.Last.LastSeq]
                   = SequenceStates(file[active.SessionID])[active.Last.LastSeq]
    <3>1. /\ Len(file'[s]) = Len(file[s]) + 1
          /\ \A k \in 0 .. Len(file[s]) : SequenceStates(file'[s])[k] = SequenceStates(file[s])[k]
      BY <1>7, Zenon DEF Extends
    <3>2. \A k \in 0 .. Len(file[s]) : k <= Len(file'[s])
      BY <1>3, <3>1, SMTT(30)
    <3> QED
      BY <2>1, <3>1, <3>2, Zenon
  <2>3. Consistent(active)
    BY <1>1, Zenon
  <2> QED
    BY <2>2, <2>3, ActiveKept
<1>10. ActiveInv'
  BY <1>1, <1>9 DEF StoreInv, ActiveInv
<1>11. AckedReadable'
  <2>1. ASSUME NEW e \in acked, NEW i \in 1 .. synced[e.SessionID],
               file[e.SessionID][i] = Line(e, "whole")
        PROVE  file'[e.SessionID][i] = Line(e, "whole")
    <3>1. e.SessionID \in 1 .. MaxSession
      BY Zenon DEF StoreInv, TypeOK
    <3>2. CASE e.SessionID = s
      <4>1. i \in 1 .. Len(file[s])
        BY <1>2, <1>3, <3>2, SMTT(30) DEF StoreInv, FileInv
      <4> QED
        BY <1>7, <2>1, <3>2, <4>1, Zenon DEF Extends
    <3>3. CASE e.SessionID # s
      BY <1>1, <1>2, <2>1, <3>1, <3>3, Zenon
    <3> QED
      BY <3>2, <3>3
  <2> QED
    BY <2>1 DEF StoreInv, AckedReadable, Line
<1> QED
  BY <1>1, <1>2, <1>3, <1>7, <1>8, <1>9, <1>10, <1>11, Zenon DEF Extends

\* The line is in the log, whole, and not yet synced.
LEMMA WriteEventStep ==
    ASSUME StoreInv, WriteEvent
    PROVE  StoreInv'
<1> DEFINE s == proc.meta.SessionID
<1>1. /\ s \in 1 .. MaxSession /\ DOMAIN file' = 1 .. MaxSession
      /\ Len(file'[s]) = Len(file[s]) + 1 /\ Len(file[s]) \in Nat
      /\ SequenceStates(file'[s])[Len(file'[s])] = proc.next
      /\ file'[s][Len(file'[s])] = Line(proc.event, "whole")
      /\ \A i \in 1 .. Len(file[s]) : file'[s][i] = file[s][i]
      /\ \A r \in 1 .. MaxSession : FileInv(r)'
      /\ Consistent(active)' /\ ActiveInv' /\ AckedReadable'
  BY WriteLog, Zenon DEF WriteEvent
<1>2. /\ proc'.at = "sync" /\ DOMAIN proc' = ProcessFields /\ proc'.meta = proc.meta
      /\ proc'.event = proc.event /\ proc'.next = proc.next
  BY DEF WriteEvent, StoreInv, TypeOK, ProcessFields
<1>3. UNCHANGED <<manifest, active, synced, acked, session, lab, unsynced, now>>
  BY Zenon DEF WriteEvent
<1>4. TypeOK'
  BY <1>1, <1>2, <1>3 DEF StoreInv, TypeOK, MetaType
<1>5. ProcInv'
  <2>1. /\ MetaType(proc.meta) /\ proc.meta.State # "disabled" /\ Whole(file[s])
        /\ active # None /\ (active.State = "disabled" \/ active.SessionID = s)
        /\ proc.event \in ReplayEvent /\ proc.event.SessionID = s
        /\ proc.meta = Metadata(proc.meta, proc.next)
    BY DEF StoreInv, ProcInv, InSession, Appending, WriteEvent
  <2>2. MetaType(proc.meta)'
    BY <1>2, <1>3, <2>1 DEF MetaType
  <2>3. file'[s] \in Seq(LogLine) /\ file'[s] # << >>
    <3>1. /\ s \in 1 .. MaxSession /\ Len(file'[s]) = Len(file[s]) + 1 /\ Len(file[s]) \in Nat
          /\ \A r \in 1 .. MaxSession : FileInv(r)'
      BY <1>1
    <3>2. \A r \in 1 .. MaxSession : FileInv(r)' => file'[r] \in Seq(LogLine)
      BY DEF FileInv, LogGood
    <3>3. Len(file'[s]) # 0
      BY <3>1
    <3> QED
      BY <3>1, <3>2, <3>3, SMTT(30)
  <2>4. Whole(file'[s])
    <3>1. file[s] \in Seq(LogLine) /\ Whole(file[s])
      BY <1>1, <2>1, EndGood, Zenon
    <3>2. /\ Len(file'[s]) = Len(file[s]) + 1 /\ Len(file[s]) \in Nat
          /\ file'[s][Len(file'[s])] = Line(proc.event, "whole")
          /\ \A i \in 1 .. Len(file[s]) : file'[s][i] = file[s][i]
      BY <1>1
    <3>3. \A i \in 1 .. Len(file[s]) : file[s][i].form = "whole"
      BY <3>1 DEF Whole
    <3>4. Line(proc.event, "whole").form = "whole"
      BY DEF Line
    <3> HIDE DEF s
    <3>5. ASSUME NEW i \in DOMAIN file'[s] PROVE file'[s][i].form = "whole"
      <4>1. i \in 1 .. Len(file[s]) \/ i = Len(file'[s])
        BY <2>3, <3>2
      <4> QED
        BY <3>2, <3>3, <3>4, <4>1
    <3> QED
      BY <3>5 DEF Whole
  <2> QED
    BY <1>1, <1>2, <1>3, <2>1, <2>2, <2>3, <2>4, Zenon DEF ProcInv, InSession, Appending
<1> QED
  BY <1>1, <1>4, <1>5, Zenon DEF StoreInv

\* The disk is full: the process ends, and a line that was cut short ends the log.
LEMMA WriteFailsStep ==
    ASSUME StoreInv, "open" \notin Fault, WriteFails
    PROVE  StoreInv'
<1>1. UNCHANGED <<manifest, active, synced, acked, session, lab, unsynced, now>> /\ End
      /\ proc.at = "write"
  BY DEF WriteFails
<1>2. CASE UNCHANGED file
  BY <1>1, <1>2, EndStep DEF disk
<1>3. CASE file' = [file EXCEPT ![proc.event.SessionID] = Written("torn")]
  <2>1. /\ DOMAIN file' = 1 .. MaxSession /\ \A r \in 1 .. MaxSession : FileInv(r)'
        /\ ActiveInv' /\ AckedReadable'
    BY <1>1, <1>3, WriteLog
  <2>2. proc'.at = "none" /\ DOMAIN proc' = ProcessFields
    BY <1>1, ProcessAt DEF End
  <2>3. TypeOK'
    BY <1>1, <2>1, <2>2 DEF StoreInv, TypeOK, MetaType
  <2> QED
    BY <2>1, <2>2, <2>3, NoSession, Zenon DEF StoreInv
<1> QED
  BY <1>2, <1>3 DEF WriteFails

\* All of the log is on stable storage, and the metadata are behind it.
LEMMA SyncEventStep ==
    ASSUME StoreInv, SyncEvent
    PROVE  StoreInv'
<1> DEFINE s == proc.meta.SessionID
<1>1. UNCHANGED <<manifest, active, file, acked, session, lab, now>> /\ proc.at = "sync"
      /\ unsynced' = "no"
  BY DEF SyncEvent
<1>2. /\ proc'.at = "save" /\ DOMAIN proc' = ProcessFields /\ proc'.meta = proc.meta
      /\ proc'.event = proc.event /\ proc'.next = proc.next
  BY DEF SyncEvent, StoreInv, TypeOK, ProcessFields
<1>3. /\ MetaType(proc.meta) /\ proc.meta.State # "disabled" /\ Whole(file[s])
      /\ active # None /\ Consistent(active)
      /\ active.State = "disabled" \/ active.SessionID = s
      /\ proc.event \in ReplayEvent /\ proc.event.SessionID = s
      /\ proc.meta = Metadata(proc.meta, proc.next)
      /\ proc.next = SequenceStates(file[s])[Len(file[s])] /\ file[s] # << >>
      /\ file[s][Len(file[s])] = Line(proc.event, "whole")
  BY <1>1, Zenon DEF StoreInv, ProcInv, InSession, Appending
<1>4. s \in 1 .. MaxSession
  BY <1>3, MetaSession, Zenon
<1>5. Len(file[s]) \in Nat
  BY <1>4, EndGood
<1>6. /\ DOMAIN synced' = 1 .. MaxSession /\ synced'[s] = Len(file[s])
      /\ \A r \in 1 .. MaxSession : r # s => synced'[r] = synced[r]
  BY <1>3, <1>4 DEF SyncEvent, log, StoreInv, TypeOK
<1>7. TypeOK'
  BY <1>1, <1>2, <1>6 DEF StoreInv, TypeOK, MetaType
<1>8. ASSUME NEW r \in 1 .. MaxSession PROVE FileInv(r)'
  <2>1. FileInv(r)
    BY DEF StoreInv
  <2>2. synced'[r] \in 0 .. Len(file[r])
    <3>1. CASE r = s
      BY <1>5, <1>6, <3>1
    <3>2. CASE r # s
      BY <1>6, <2>1, <3>2, Zenon DEF FileInv
    <3> QED
      BY <3>1, <3>2
  <2> QED
    BY <1>1, <2>1, <2>2 DEF FileInv
<1>9. Consistent(active)'
  BY <1>1, <1>3, Zenon DEF Consistent
<1>10. ActiveInv'
  BY <1>1, <1>3, <1>6, <1>9 DEF ActiveInv, Consistent
<1>11. ProcInv'
  <2>1. MetaType(proc.meta)'
    BY <1>1, <1>2, <1>3, Zenon DEF MetaType
  <2> QED
    BY <1>1, <1>2, <1>3, <1>6, <1>9, <2>1, Zenon DEF ProcInv, InSession, Appending
<1>12. AckedReadable'
  <2>1. ASSUME NEW e \in acked, NEW i \in 1 .. synced[e.SessionID]
        PROVE  i \in 1 .. synced'[e.SessionID]
    <3>1. e.SessionID \in 1 .. MaxSession
      BY Zenon DEF StoreInv, TypeOK
    <3>2. synced[s] \in 0 .. Len(file[s])
      BY <1>4, Zenon DEF StoreInv, FileInv
    <3> QED
      BY <1>5, <1>6, <3>1, <3>2
  <2> QED
    BY <1>1, <2>1 DEF StoreInv, AckedReadable
<1> QED
  BY <1>7, <1>8, <1>10, <1>11, <1>12 DEF StoreInv

\* A process that is idle in a session whose log it knows to the end.
LEMMA IdleProcess ==
    ASSUME \A r \in 1 .. MaxSession : FileInv(r)', TypeOK',
           NEW s \in 1 .. MaxSession, proc'.at = "idle",
           proc'.meta # None, active' = proc'.meta, MetaType(active)',
           active'.State # "disabled", active'.SessionID = s, Whole(file'[s]),
           NEW end, end = SequenceStates(file'[s])[Len(file'[s])],
           proc'.sequence = end, active' = Metadata(active', end),
           active'.Last.LastSeq = Len(file'[s])
    PROVE  ProcInv' /\ Consistent(active)'
<1>1. Len(file'[s]) \in Nat
  <2>1. LogGood(file'[s], s, now')
    BY Zenon DEF FileInv
  <2> QED
    BY <2>1, SMTT(30) DEF LogGood
<1>2. Consistent(active)'
  BY <1>1 DEF Consistent
<1>3. MetaType(proc.meta)'
  BY DEF MetaType
<1> QED
  BY <1>2, <1>3, Zenon DEF ProcInv, InSession, Appending

\* The metadata count the event, which is in the log and synced.
LEMMA SaveMetadataStep ==
    ASSUME StoreInv, saveMetadata
    PROVE  StoreInv'
<1> DEFINE s == proc.meta.SessionID
           end == SequenceStates(file[s])[Len(file[s])]
<1>1. /\ UNCHANGED <<manifest, file, synced, session, lab, unsynced, now>> /\ proc.at = "save"
      /\ active' = proc.meta /\ acked' = acked \cup {proc.event}
  BY DEF saveMetadata
<1>2. /\ proc'.at = "idle" /\ DOMAIN proc' = ProcessFields /\ proc'.meta = proc.meta
      /\ proc'.sequence = proc.next
  BY DEF saveMetadata, StoreInv, TypeOK, ProcessFields
<1>3. /\ MetaType(proc.meta) /\ proc.meta.State # "disabled" /\ Whole(file[s])
      /\ proc.event \in ReplayEvent /\ proc.event.SessionID = s
      /\ proc.meta = Metadata(proc.meta, proc.next)
      /\ proc.next = end /\ file[s] # << >>
      /\ file[s][Len(file[s])] = Line(proc.event, "whole") /\ synced[s] = Len(file[s])
  BY <1>1, Zenon DEF StoreInv, ProcInv, InSession, Appending
<1>4. s \in 1 .. MaxSession
  BY <1>3, MetaSession, Zenon
<1>5. Len(file[s]) \in Nat /\ file[s] \in Seq(LogLine) /\ end \in SequenceState
      /\ end.LastSeq = Len(file[s])
  BY <1>4, EndGood, Zenon
<1>6. proc.meta.Last.LastSeq = Len(file[s]) /\ proc.meta # None
  <2> HIDE DEF end
  <2> QED
    BY <1>3, <1>5, MetadataFields, SMTT(30) DEF MetaType
<1>7. MetaType(active)'
  BY <1>1, <1>3 DEF MetaType
<1>8. TypeOK'
  BY <1>1, <1>2, <1>3, <1>4, <1>7, Zenon DEF StoreInv, TypeOK
<1>9. \A r \in 1 .. MaxSession : FileInv(r)'
  <2>1. session' \in 0 .. MaxSession /\ session <= session'
    BY <1>1, BoundsAssumption, SMTT(30) DEF StoreInv, TypeOK
  <2> QED
    BY <1>1, <2>1, FilesSame
<1>10. ProcInv' /\ Consistent(active)'
  <2>1. end = SequenceStates(file'[s])[Len(file'[s])]
    BY <1>1
  <2> HIDE DEF end, s
  <2>2. active'.SessionID = s
    BY <1>1 DEF s
  <2> QED
    BY <1>1, <1>2, <1>3, <1>4, <1>6, <1>7, <1>8, <1>9, <2>1, <2>2, IdleProcess
<1>11. ActiveInv'
  <2>1. /\ active' # None /\ active'.SessionID = s /\ active'.Last.LastSeq = Len(file[s])
        /\ synced'[s] = Len(file[s]) /\ Len(file[s]) \in Nat
    BY <1>1, <1>3, <1>5, <1>6, Zenon
  <2> HIDE DEF s
  <2> QED
    BY <1>10, <2>1, SMTT(30) DEF ActiveInv
<1>12. AckedReadable'
  <2>1. ASSUME NEW e \in acked
        PROVE  \E i \in 1 .. synced'[e.SessionID] : file'[e.SessionID][i] = Line(e, "whole")
    BY <1>1, Zenon DEF StoreInv, AckedReadable
  <2>2. \E i \in 1 .. synced'[s] : file'[s][i] = Line(proc.event, "whole")
    <3>1. Len(file[s]) \in 1 .. synced'[s]
      <4>1. synced'[s] = Len(file[s]) /\ Len(file[s]) \in Nat /\ file[s] \in Seq(LogLine)
            /\ file[s] # << >>
        BY <1>1, <1>3, <1>5
      <4>2. Len(file[s]) # 0
        BY <4>1
      <4> QED
        BY <4>1, <4>2, SMTT(30)
    <3> QED
      BY <1>1, <1>3, <3>1
  <2> QED
    BY <1>1, <1>3, <2>1, <2>2, ZenonT(30) DEF AckedReadable
<1> QED
  BY <1>8, <1>9, <1>10, <1>11, <1>12 DEF StoreInv

\* Without the fault "open", a log that the scanner reads is whole.
LEMMA ReadableWhole ==
    ASSUME NEW lines \in Seq(LogLine), Readable(lines)
    PROVE  Whole(lines)
<1>1. ASSUME NEW i \in DOMAIN lines PROVE lines[i].form = "whole"
  <2>1. lines[i] \in LogLine
    OBVIOUS
  <2> QED
    BY <2>1 DEF Readable, LogLine
<1> QED
  BY <1>1 DEF Whole

\* Status: the metadata become a summary of the whole log, synced or not.
LEMMA StatusStep ==
    ASSUME StoreInv, Status
    PROVE  StoreInv'
<1>1. UNCHANGED <<manifest, file, synced, acked, session, lab, now>> /\ proc.at = "idle"
  BY DEF Status
<1>2. CASE active = None \/ Loaded(active) = None
  BY <1>1, <1>2, EndStep DEF Status, disk
<1>3. CASE active # None /\ Loaded(active) # None
  <2>1. /\ active' = Loaded(active).meta
        /\ unsynced' = IF active'.SessionID # None /\ synced[active'.SessionID] < active'.Last.LastSeq
                       THEN "counted" ELSE unsynced
        /\ proc' = [proc EXCEPT !.meta = active', !.sequence = Loaded(active).sequence]
    BY <1>3 DEF Status
  <2>2. /\ proc'.at = "idle" /\ DOMAIN proc' = ProcessFields /\ proc'.meta = active'
        /\ proc'.sequence = Loaded(active).sequence
    BY <1>1, <2>1 DEF StoreInv, TypeOK, ProcessFields
  <2>3. MetaType(active) /\ active \in SessionMetadata /\ session \in Nat
    BY <1>3 DEF StoreInv, TypeOK, MetaType
  <2>4. \A r \in 1 .. MaxSession : FileInv(r)'
    <3>1. session' \in 0 .. MaxSession /\ session <= session'
      BY <1>1, BoundsAssumption, SMTT(30) DEF StoreInv, TypeOK
    <3> QED
      BY <1>1, <3>1, FilesSame
  <2>5. AckedReadable'
    BY <1>1 DEF StoreInv, AckedReadable
  <2>6. unsynced' \in {"no", "counted", "lost"}
    BY <2>1 DEF StoreInv, TypeOK
  <2>7. CASE active.State = "disabled"
    <3>1. Loaded(active).meta = active
      BY <2>7 DEF Loaded
    <3>2. active' = active
      BY <2>1, <3>1, Zenon
    <3>3. TypeOK'
      BY <1>1, <2>2, <2>3, <2>6, <3>2 DEF StoreInv, TypeOK, MetaType
    <3>4. ActiveInv' /\ ProcInv'
      BY <1>3, <2>2, <2>7, <3>2, Zenon DEF ActiveInv, Consistent, ProcInv, InSession, Appending
    <3> QED
      BY <2>4, <2>5, <3>3, <3>4 DEF StoreInv
  <2>8. CASE active.State # "disabled"
    <3> DEFINE s == active.SessionID
               end == SequenceStates(file[s])[Len(file[s])]
    <3>1. s \in 1 .. MaxSession /\ s \in 1 .. session
      BY <2>3, <2>8, BoundsAssumption DEF MetaType, StoreInv, TypeOK
    <3>2. Len(file[s]) \in Nat /\ file[s] \in Seq(LogLine) /\ end \in SequenceState
          /\ end.LastSeq = Len(file[s])
      BY <3>1, EndGood
    <3>3. /\ Readable(file[s]) /\ Loaded(active).meta = Metadata(active, end)
          /\ Loaded(active).sequence = end /\ ~(end.LastSeq < active.Last.LastSeq)
      BY <1>3, <2>8, Zenon DEF Loaded, scanSession
    <3>4. Whole(file[s])
      BY <3>2, <3>3, ReadableWhole, Zenon
    <3>5. s # None
      BY <3>1, NoneAssumption
    <3>6. active.Last.LastSeq \in Nat /\ active.Last.LastSeq > 0
      BY <2>3, <2>8 DEF MetaType, SessionMetadata, SequenceState
    <3> HIDE DEF end
    <3>7. /\ active' \in SessionMetadata /\ active' # None /\ active'.State # "disabled"
          /\ active'.SessionID = s /\ active'.Last.LastSeq = Len(file[s])
          /\ active' = Metadata(active', end)
      BY <2>1, <2>3, <3>2, <3>3, MetadataFields
    <3>8. MetaType(active)'
      BY <1>1, <3>1, <3>2, <3>3, <3>6, <3>7, SMTT(30) DEF MetaType
    <3>9. TypeOK'
      BY <1>1, <2>2, <2>6, <3>8, Zenon DEF StoreInv, TypeOK
    <3>10. ProcInv' /\ Consistent(active)'
      <4>1. end = SequenceStates(file'[s])[Len(file'[s])]
        BY <1>1 DEF end
      <4> HIDE DEF s
      <4> QED
        BY <1>1, <2>2, <2>4, <3>1, <3>3, <3>4, <3>7, <3>8, <3>9, <4>1, IdleProcess
    <3>11. ActiveInv'
      <4>1. unsynced' = "no" => ~(synced[s] < Len(file[s]))
        BY <2>1, <3>5, <3>7
      <4>2. synced[s] \in Nat
        BY <3>1, <3>2 DEF StoreInv, FileInv
      <4> QED
        BY <1>1, <3>2, <3>7, <3>10, <4>1, <4>2 DEF ActiveInv
    <3> QED
      BY <2>4, <2>5, <3>9, <3>10, <3>11 DEF StoreInv
  <2> QED
    BY <2>7, <2>8
<1> QED
  BY <1>2, <1>3

-----------------------------------------------------------------------------
(* Commands that append. *)

\* Start: a new session, whose log is empty, and its first event.
LEMMA StartStep ==
    ASSUME StoreInv, Start
    PROVE  StoreInv'
<1> DEFINE s == session + 1
           event == Event(s, NewID, 1, 0, "resume")
           next == Accept(EmptySequence, event)
           meta == [Disabled EXCEPT !.SessionID = s, !.Started = now]
<1>1. /\ UNCHANGED <<manifest, active, file, synced, acked, unsynced, now>> /\ session' = s
      /\ proc.at = "idle" /\ proc.meta = None /\ session < MaxSession
      /\ active # None /\ active.State = "disabled"
  BY DEF Start, disk
<1>2. proc = Idle /\ session \in Nat /\ now \in Nat
  <2>1. proc = Idle
    BY <1>1, Zenon DEF StoreInv, ProcInv
  <2>2. session \in Nat /\ now \in Nat
    BY BoundsAssumption DEF StoreInv, TypeOK
  <2> QED
    BY <2>1, <2>2
<1>3. s \in 1 .. MaxSession /\ s \in 1 .. session' /\ s > session /\ s \in Nat
  BY <1>1, <1>2, BoundsAssumption, SMTT(30)
<1>4. NewID \in Identifier /\ NewID.n = 0
  BY <1>2, FS_EmptySet, SMTT(30) DEF NewID, Idle, EmptySequence, Identifier
<1>5. /\ event \in ReplayEvent /\ event.SessionID = s /\ event.Seq = 1 /\ event.UTC = now
      /\ event.EpisodeID = NewID /\ event.Type = "resume"
  BY <1>2, <1>3, <1>4 DEF Event, ReplayEvent, AllTypes
<1>6. /\ file[s] = << >> /\ Len(file[s]) = 0
      /\ SequenceStates(file[s])[Len(file[s])] = EmptySequence
  <2>1. file[s] = << >>
    BY <1>3, Zenon DEF StoreInv, FileInv
  <2> QED
    BY <1>2, <2>1, EmptyGood
<1>7. GoodState(EmptySequence, s, 0, now)
  BY <1>3, <1>6, EndGood, Zenon
<1> HIDE DEF event
<1>8. Accepts(EmptySequence, event)
  <2>1. /\ EmptySequence.SessionID = None /\ EmptySequence.SeenEpisodes = {}
        /\ EmptySequence.LastEpisodeID = None /\ ~EmptySequence.EpisodeClosed
        /\ ~EmptySequence.Paused /\ EmptySequence.LastSeq = 0
    BY DEF EmptySequence
  <2>2. Cardinality({}) < MaxEpisodes
    BY FS_EmptySet, EpisodesAssumption, SMTT(30)
  <2> QED
    BY <1>5, <2>1, <2>2 DEF Accepts, Continues, MayOpenEpisode, MayContinue
<1>9. next \in SequenceState /\ next.LastSeq = 1
  <2>1. EmptySequence.SeenEpisodes = {} /\ Cardinality({}) = 0
    BY FS_EmptySet DEF EmptySequence
  <2>2. Follows(event, EmptySequence, s, 0, now)
    BY <1>2, <1>4, <1>5, <2>1 DEF Follows
  <2>3. GoodState(next, s, 0 + 1, now)
    BY <1>7, <2>2, AcceptGood
  <2> QED
    BY <2>3 DEF GoodState
<1>10. meta \in SessionMetadata /\ meta.SessionID = s
  <2>1. EmptySequence \in SequenceState
    BY DEF EmptySequence, SequenceState
  <2> QED
    BY <1>2, <1>3, <2>1, Zenon DEF Disabled, SessionMetadata
<1> HIDE DEF meta, next
<1>11. /\ Metadata(meta, next) \in SessionMetadata /\ Metadata(meta, next).State # "disabled"
       /\ Metadata(meta, next).SessionID = s /\ Metadata(meta, next).Last.LastSeq = 1
       /\ Metadata(meta, next) = Metadata(Metadata(meta, next), next)
  BY <1>9, <1>10, MetadataFields, SMTT(30)
<1>12. /\ proc' = [Idle EXCEPT !.at = "write", !.event = event, !.next = next,
                               !.meta = Metadata(meta, next)]
       /\ lab' = "started"
  BY <1>1 DEF Start, event, next, meta
<1>13. /\ proc'.at = "write" /\ DOMAIN proc' = ProcessFields /\ proc'.event = event
       /\ proc'.next = next /\ proc'.meta = Metadata(meta, next)
  BY <1>12, Zenon DEF Idle, ProcessFields
<1>14. TypeOK'
  <2>1. session' \in 0 .. MaxSession
    BY <1>1, <1>3, BoundsAssumption, SMTT(30)
  <2>2. MetaType(active)'
    BY <1>1, <1>2, Zenon DEF MetaType, StoreInv, TypeOK
  <2> QED
    BY <1>1, <1>13, <2>1, <2>2 DEF StoreInv, TypeOK
<1>15. \A r \in 1 .. MaxSession : FileInv(r)'
  <2>1. session' \in 0 .. MaxSession /\ session <= session'
    <3>1. session' = session + 1 /\ session < MaxSession /\ session \in Nat /\ MaxSession \in Nat
      BY <1>1, <1>2, BoundsAssumption, Zenon
    <3> QED
      BY <3>1
  <2> QED
    BY <1>1, <2>1, FilesSame
<1>16. Consistent(active)' /\ ActiveInv'
  BY <1>1 DEF Consistent, ActiveInv
<1>17. ProcInv'
  <2>1. MetaType(proc.meta)'
    <3>1. /\ proc'.meta \in SessionMetadata /\ proc'.meta.SessionID \in 1 .. session'
          /\ proc'.meta.Last.LastSeq = 1
      BY <1>3, <1>11, <1>13
    <3> QED
      BY <3>1, SMTT(30) DEF MetaType
  <2>2. Whole(file[s])
    BY <1>6 DEF Whole
  <2>3. MaxSeq > 0 => Len(file[s]) < MaxSeq
    BY <1>6, Zenon
  <2>4. \/ event.EpisodeID \in EmptySequence.SeenEpisodes
        \/ event.EpisodeID.n = Cardinality(EmptySequence.SeenEpisodes)
    BY <1>4, <1>5, FS_EmptySet DEF EmptySequence
  <2>5. next = Accept(EmptySequence, event) /\ event.UTC <= now /\ event.Seq = Len(file[s]) + 1
    BY <1>2, <1>5, <1>6 DEF next
  <2> HIDE DEF s
  <2>6. proc'.meta.SessionID = s /\ proc'.meta.State # "disabled"
        /\ proc'.meta = Metadata(proc'.meta, proc'.next)
    BY <1>11, <1>13
  <2> QED
    BY <1>1, <1>5, <1>6, <1>8, <1>13, <1>16, <2>1, <2>2, <2>3, <2>4, <2>5, <2>6, ZenonT(30)
    DEF ProcInv, InSession, Appending
<1>18. AckedReadable'
  BY <1>1 DEF StoreInv, AckedReadable
<1> QED
  BY <1>14, <1>15, <1>16, <1>17, <1>18 DEF StoreInv

\* What a process that may append knows of its session.
LEMMA ReadyFacts ==
    ASSUME StoreInv, Ready({"running", "paused"}), NEW s, s = proc.meta.SessionID
    PROVE  /\ s \in 1 .. MaxSession /\ MetaType(proc.meta) /\ proc.meta \in SessionMetadata
           /\ proc.meta.State # "disabled" /\ Whole(file[s])
           /\ active # None /\ Consistent(active)
           /\ active.State = "disabled" \/ active.SessionID = s
           /\ proc.sequence = SequenceStates(file[s])[Len(file[s])]
           /\ proc.meta = Metadata(proc.meta, proc.sequence)
           /\ proc.sequence \in SequenceState
           /\ GoodState(proc.sequence, s, Len(file[s]), now)
           /\ proc.meta.Last.LastSeq = Len(file[s]) /\ Len(file[s]) \in Nat \ {0}
           /\ proc.meta.State = StateName(proc.sequence)
           /\ proc.meta.Last.LastEpisodeID = proc.sequence.LastEpisodeID
           /\ proc.meta.Last.LastMonotonicUS = proc.sequence.LastMonotonicUS
<1>1. /\ MetaType(proc.meta) /\ proc.meta.State # "disabled" /\ Whole(file[s])
      /\ active # None /\ Consistent(active)
      /\ active.State = "disabled" \/ active.SessionID = s
      /\ proc.sequence = SequenceStates(file[s])[Len(file[s])]
      /\ proc.meta = Metadata(proc.meta, proc.sequence)
  BY Zenon DEF StoreInv, ProcInv, InSession, Appending, Ready
<1>2. /\ s \in 1 .. MaxSession /\ proc.meta \in SessionMetadata
      /\ proc.meta.Last.LastSeq \in Nat \ {0}
  BY <1>1, MetaSession, Zenon
<1>3. /\ proc.sequence \in SequenceState /\ proc.sequence.LastSeq = Len(file[s])
      /\ GoodState(proc.sequence, s, Len(file[s]), now) /\ Len(file[s]) \in Nat
  BY <1>1, <1>2, EndGood, Zenon
<1>4. /\ proc.meta.Last.LastSeq = Len(file[s]) /\ proc.meta.State = StateName(proc.sequence)
      /\ proc.meta.Last.LastEpisodeID = proc.sequence.LastEpisodeID
      /\ proc.meta.Last.LastMonotonicUS = proc.sequence.LastMonotonicUS
  <2>1. /\ proc.meta = Metadata(proc.meta, proc.sequence) /\ proc.meta \in SessionMetadata
        /\ proc.sequence \in SequenceState /\ proc.sequence.LastSeq = Len(file[s])
    BY <1>1, <1>2, <1>3, Zenon
  <2>2. /\ Metadata(proc.meta, proc.sequence).State = StateName(proc.sequence)
        /\ Metadata(proc.meta, proc.sequence).Last.LastSeq = proc.sequence.LastSeq
        /\ Metadata(proc.meta, proc.sequence).Last.LastEpisodeID = proc.sequence.LastEpisodeID
        /\ Metadata(proc.meta, proc.sequence).Last.LastMonotonicUS
               = proc.sequence.LastMonotonicUS
    BY <2>1, MetadataFields
  <2> QED
    BY <2>1, <2>2, Zenon
<1>5. Len(file[s]) # 0
  BY <1>2, <1>4, Zenon
<1> QED
  BY <1>1, <1>2, <1>3, <1>4, <1>5, Zenon

\* The events that the commands make: of the process's session, now, with the
\* last identifier or a new one.
Makes(event) ==
    /\ event \in ReplayEvent /\ event.SessionID = proc.meta.SessionID /\ event.UTC = now
    /\ event.EpisodeID \in {NewID, proc.meta.Last.LastEpisodeID}

\* Every event of a command is one of them.
LEMMA EventMade ==
    ASSUME StoreInv, Ready({"running", "paused"}), NEW seq \in Nat, NEW mono \in Nat,
           NEW type \in AllTypes, NEW episode \in {NewID, proc.meta.Last.LastEpisodeID}
    PROVE  Makes(Event(proc.meta.SessionID, episode, seq, mono, type))
<1> DEFINE s == proc.meta.SessionID
           q == proc.sequence
<1>1. /\ s \in 1 .. MaxSession /\ q \in SequenceState /\ Len(file[s]) \in Nat \ {0}
      /\ GoodState(q, s, Len(file[s]), now) /\ proc.meta.Last.LastEpisodeID = q.LastEpisodeID
  BY ReadyFacts, Zenon
<1>2. IsFiniteSet(q.SeenEpisodes) /\ q.LastEpisodeID \in q.SeenEpisodes
      /\ q.SeenEpisodes \subseteq Identifier
  BY <1>1 DEF GoodState, SequenceState
<1>3. session \in Nat /\ now \in Nat /\ Cardinality(q.SeenEpisodes) \in Nat
  BY <1>2, FS_CardinalityType, BoundsAssumption DEF StoreInv, TypeOK
<1>4. episode \in Identifier
  BY <1>1, <1>2, <1>3 DEF NewID, Identifier
<1> QED
  BY <1>1, <1>3, <1>4, Zenon DEF Event, ReplayEvent, Makes

\* Append: an event that continues the session will be written; another ends
\* the process.
LEMMA AppendStep ==
    ASSUME StoreInv, Ready({"running", "paused"}), NEW event, Makes(event), AppendEvent(event),
           UNCHANGED <<disk, acked, session, lab, unsynced, now>>
    PROVE  StoreInv'
<1> DEFINE s == proc.meta.SessionID
           q == proc.sequence
           next == Accept(q, event)
<1>1. CASE ~Accepts(q, event)
  BY <1>1, EndStep, Zenon DEF AppendEvent
<1>2. /\ q.SessionID = s /\ s # None /\ q.LastSeq = Len(file[s])
      /\ q.LastEpisodeID \in q.SeenEpisodes
  <2>1. GoodState(q, s, Len(file[s]), now) /\ Len(file[s]) \in Nat \ {0} /\ s \in 1 .. MaxSession
    BY ReadyFacts
  <2> QED
    BY <2>1, NoneAssumption, SMTT(30) DEF GoodState
<1>3. CASE Accepts(q, event)
  <2>1. /\ s \in 1 .. MaxSession /\ MetaType(proc.meta) /\ proc.meta \in SessionMetadata
        /\ proc.meta.State # "disabled"
        /\ Whole(file[s]) /\ active # None /\ Consistent(active)
        /\ active.State = "disabled" \/ active.SessionID = s
        /\ q = SequenceStates(file[s])[Len(file[s])] /\ q \in SequenceState
        /\ GoodState(q, s, Len(file[s]), now)
        /\ proc.meta.Last.LastSeq = Len(file[s]) /\ Len(file[s]) \in Nat \ {0}
        /\ proc.meta.Last.LastEpisodeID = q.LastEpisodeID
    BY ReadyFacts
  <2>2. /\ proc' = [proc EXCEPT !.at = "write", !.event = event, !.next = next,
                                !.meta = Metadata(proc.meta, next)]
        /\ proc.meta.Last.LastSeq < MaxSeq
    BY <1>3, Zenon DEF AppendEvent
  <2>3. event.Seq = Len(file[s]) + 1
    BY <1>3, <1>2, Zenon DEF Accepts, Continues
  <2>4. \/ event.EpisodeID \in q.SeenEpisodes
        \/ event.EpisodeID.n = Cardinality(q.SeenEpisodes)
    <3>1. NewID.n = Cardinality(q.SeenEpisodes)
      BY Zenon DEF NewID
    <3>2. event.EpisodeID \in {NewID, q.LastEpisodeID}
      BY <2>1, Zenon DEF Makes
    <3> QED
      BY <1>2, <3>1, <3>2
  <2>5. now \in Nat
    BY Zenon DEF StoreInv, TypeOK
  <2>6. next \in SequenceState /\ next.LastSeq = Len(file[s]) + 1
    <3>1. Follows(event, q, s, Len(file[s]), now)
      BY <2>3, <2>4, <2>5 DEF Follows, Makes
    <3>2. GoodState(next, s, Len(file[s]) + 1, now)
      BY <2>1, <3>1, AcceptGood, Zenon
    <3> QED
      BY <3>2, Zenon DEF GoodState
  <2> HIDE DEF next
  <2>7. /\ Metadata(proc.meta, next) \in SessionMetadata
        /\ Metadata(proc.meta, next).State # "disabled"
        /\ Metadata(proc.meta, next).SessionID = s
        /\ Metadata(proc.meta, next).Last.LastSeq = Len(file[s]) + 1
        /\ Metadata(proc.meta, next) = Metadata(Metadata(proc.meta, next), next)
    <3>1. proc.meta \in SessionMetadata /\ next \in SequenceState
      BY <2>1, <2>6
    <3>2. next.LastSeq = Len(file[s]) + 1
      BY <2>6
    <3> QED
      BY <3>1, <3>2, MetadataFields, SMTT(30)
  <2>8. /\ proc'.at = "write" /\ DOMAIN proc' = ProcessFields /\ proc'.event = event
        /\ proc'.next = next /\ proc'.meta = Metadata(proc.meta, next)
    BY <2>2 DEF StoreInv, TypeOK, ProcessFields
  <2>9. TypeOK'
    BY <2>8, Zenon DEF StoreInv, TypeOK, MetaType, disk
  <2>10. \A r \in 1 .. MaxSession : FileInv(r)'
    <3>1. session' \in 0 .. MaxSession /\ session <= session'
      BY BoundsAssumption, SMTT(30) DEF StoreInv, TypeOK
    <3> QED
      BY <3>1, FilesSame DEF disk
  <2>11. ActiveInv' /\ AckedReadable'
    BY ActiveSame DEF StoreInv, AckedReadable, disk
  <2>12. ProcInv'
    <3>1. MetaType(proc.meta)'
      <4>1. proc.meta.SessionID \in 1 .. session /\ Len(file[s]) \in Nat
        BY <2>1, MetaSession, Zenon
      <4>2. Len(file[s]) + 1 > 0
        BY <4>1, SMTT(30)
      <4>3. /\ proc'.meta \in SessionMetadata /\ proc'.meta.SessionID \in 1 .. session'
            /\ proc'.meta.Last.LastSeq > 0
        BY <2>7, <2>8, <4>1, <4>2
      <4> QED
        BY <4>3 DEF MetaType
    <3>2. Consistent(active)'
      BY <2>1, Zenon DEF Consistent, disk
    <3>3. UNCHANGED <<active, file, synced, now>>
      BY Zenon DEF disk
    <3>4. /\ (MaxSeq > 0 => Len(file[s]) < MaxSeq) /\ event.UTC <= now
          /\ event \in ReplayEvent /\ event.SessionID = s /\ next = Accept(q, event)
      <4>1. Len(file[s]) < MaxSeq
        BY <2>1, <2>2, Zenon
      <4> QED
        BY <2>5, <4>1, SMTT(30) DEF next, Makes
    <3> HIDE DEF s
    <3>5. proc'.meta.SessionID = s /\ proc'.meta.State # "disabled"
          /\ proc'.meta = Metadata(proc'.meta, proc'.next)
      BY <2>7, <2>8
    <3> QED
      BY <1>3, <2>1, <2>3, <2>4, <2>8, <3>1, <3>2, <3>3, <3>4, <3>5, ZenonT(30)
      DEF ProcInv, InSession, Appending
  <2> QED
    BY <2>9, <2>10, <2>11, <2>12, Zenon DEF StoreInv
<1> QED
  BY <1>1, <1>3

\* The clock of the control events is a number.
LEMMA ControlMonoType ==
    ASSUME StoreInv, Ready({"running", "paused"})
    PROVE  controlMono(proc.meta) \in Nat
<1>1. proc.meta \in SessionMetadata /\ now \in Nat
  BY ReadyFacts, Zenon DEF StoreInv, TypeOK
<1>2. proc.meta.Started \in Nat /\ proc.meta.Last.LastMonotonicUS \in Nat
  BY <1>1 DEF SessionMetadata, SequenceState
<1> QED
  BY <1>1, <1>2 DEF controlMono

\* Pause and Resume append a control event, Ingest one of the sidecar's.
LEMMA CommandStep ==
    ASSUME StoreInv, Pause \/ Resume \/ Ingest
    PROVE  StoreInv'
<1>1. Ready({"running", "paused"}) /\ UNCHANGED <<disk, acked, session, lab, unsynced, now>>
  BY Zenon DEF Pause, Resume, Ingest, Ready
<1>2. /\ proc.meta.Last.LastSeq \in Nat /\ proc.meta.Last.LastMonotonicUS \in Nat
      /\ controlMono(proc.meta) \in Nat
  BY <1>1, ReadyFacts, ControlMonoType DEF SessionMetadata, SequenceState
<1>3. CASE Pause
  <2>1. Makes(pauseEvent)
    BY <1>1, <1>2, EventMade DEF pauseEvent, controlEvent, AllTypes
  <2> QED
    BY <1>1, <1>3, <2>1, AppendStep, Zenon DEF Pause
<1>4. CASE Resume
  <2>1. Makes(resumeEvent)
    BY <1>1, <1>2, EventMade, SMTT(30) DEF resumeEvent, controlEvent, AllTypes
  <2> QED
    BY <1>1, <1>4, <2>1, AppendStep, Zenon DEF Resume
<1>5. CASE Ingest
  <2>1. PICK type \in {"composition_snapshot", "commit"}, again \in {0, 1},
             episode \in {NewID, proc.meta.Last.LastEpisodeID} :
               AppendEvent(Event(proc.meta.SessionID, episode,
                                 proc.meta.Last.LastSeq + 1 - again,
                                 proc.meta.Last.LastMonotonicUS + 1 - again, type))
    BY <1>5 DEF Ingest
  <2>2. /\ proc.meta.Last.LastSeq + 1 - again \in Nat /\ type \in AllTypes
        /\ proc.meta.Last.LastMonotonicUS + 1 - again \in Nat
    BY <1>2, SMTT(30) DEF AllTypes
  <2>3. Makes(Event(proc.meta.SessionID, episode, proc.meta.Last.LastSeq + 1 - again,
                    proc.meta.Last.LastMonotonicUS + 1 - again, type))
    BY <1>1, <2>2, EventMade
  <2> QED
    BY <1>1, <2>1, <2>3, AppendStep, Zenon
<1> QED
  BY <1>3, <1>4, <1>5, Zenon

-----------------------------------------------------------------------------
(* Power loss. *)

\* The log m is what a power loss left of lines, u of which were synced.
CutTo(m, lines, u, n) ==
    \/ m = SubSeq(lines, 1, n)
    \/ n > u /\ m = [SubSeq(lines, 1, n) EXCEPT ![n].form = "torn"]

\* What was synced is left, and it is a session.
LEMMA CutGood ==
    ASSUME NEW lines, NEW s, NEW t, LogGood(lines, s, t), NEW u \in 0 .. Len(lines),
           NEW n \in u .. Len(lines), NEW m, CutTo(m, lines, u, n)
    PROVE  /\ LogGood(m, s, t) /\ Len(m) = n
           /\ \A i \in 1 .. u : m[i] = lines[i]
           /\ \A k \in 0 .. n : SequenceStates(m)[k] = SequenceStates(lines)[k]
<1> DEFINE cut == SubSeq(lines, 1, n)
<1>1. lines \in Seq(LogLine) /\ Len(lines) \in Nat /\ n \in 0 .. Len(lines) /\ u <= n /\ u \in Nat
  BY SMTT(30) DEF LogGood
<1>2. cut \in Seq(LogLine) /\ Len(cut) = n /\ \A i \in 1 .. n : cut[i] = lines[i]
  BY <1>1
<1> HIDE DEF cut
<1>3. /\ m \in Seq(LogLine) /\ Len(m) = n /\ \A i \in 1 .. u : m[i] = lines[i]
      /\ \A i \in 1 .. n : m[i].event = lines[i].event
  <2>1. CASE m = cut
    BY <1>1, <1>2, <2>1
  <2>2. CASE n > u /\ m = [cut EXCEPT ![n].form = "torn"]
    <3> DEFINE last == [cut[n] EXCEPT !.form = "torn"]
    <3>1. n \in 1 .. Len(cut) /\ cut[n] \in LogLine
      BY <1>1, <1>2, <2>2
    <3>2. last \in LogLine /\ last.event = cut[n].event
      BY <3>1 DEF LogLine
    <3>3. m = [cut EXCEPT ![n] = last]
      BY <2>2
    <3> HIDE DEF last
    <3>4. m \in Seq(LogLine) /\ Len(m) = n
      BY <1>2, <3>1, <3>2, <3>3
    <3>5. ASSUME NEW i \in 1 .. n PROVE m[i] = IF i = n THEN last ELSE lines[i]
      BY <1>1, <1>2, <3>1, <3>3
    <3> QED
      BY <1>1, <1>2, <2>2, <3>1, <3>2, <3>4, <3>5
  <2> QED
    BY <2>1, <2>2, Zenon DEF cut, CutTo
<1>4. LogGood(m, s, t) /\ \A k \in 0 .. Len(m) : SequenceStates(m)[k] = SequenceStates(lines)[k]
  <2>1. Len(m) <= Len(lines) /\ \A i \in 1 .. Len(m) : m[i].event = lines[i].event
    BY <1>1, <1>3
  <2> QED
    BY <1>3, <2>1, PrefixGood, Zenon
<1> QED
  BY <1>3, <1>4

\* Unless Status had counted a line that is lost now, the metadata are behind
\* what is left.
LEMMA PowerLossStep ==
    ASSUME StoreInv, PowerLoss
    PROVE  StoreInv'
<1> DEFINE Cut(s, n) ==
             /\ \/ file' = [file EXCEPT ![s] = SubSeq(@, 1, n)]
                \/ /\ n > synced[s] /\ "torn" \in Fault
                   /\ file' = [file EXCEPT ![s] = [SubSeq(@, 1, n) EXCEPT ![n].form = "torn"]]
             /\ synced' = [synced EXCEPT ![s] = Len(file'[s])]
<1>1. PICK s \in 1 .. MaxSession : \E n \in synced[s] .. Len(file[s]) : Cut(s, n)
  BY Zenon DEF PowerLoss
<1>2. PICK n \in synced[s] .. Len(file[s]) : Cut(s, n)
  BY <1>1, Zenon
<1>3. /\ UNCHANGED <<manifest, active, acked, session, lab, now>> /\ End
      /\ unsynced' = IF unsynced = "counted" THEN "lost" ELSE unsynced
  BY Zenon DEF PowerLoss
<1>4. /\ DOMAIN file = 1 .. MaxSession /\ DOMAIN synced = 1 .. MaxSession
      /\ LogGood(file[s], s, now) /\ synced[s] \in 0 .. Len(file[s]) /\ Len(file[s]) \in Nat
  BY EndGood DEF StoreInv, TypeOK, FileInv
<1>5. CutTo(file'[s], file[s], synced[s], n)
  BY <1>2, <1>4, Zenon DEF CutTo
<1>6. /\ LogGood(file'[s], s, now) /\ Len(file'[s]) = n
      /\ \A i \in 1 .. synced[s] : file'[s][i] = file[s][i]
      /\ \A k \in 0 .. n : SequenceStates(file'[s])[k] = SequenceStates(file[s])[k]
  BY <1>4, <1>5, CutGood, SMTT(30)
<1>7. /\ DOMAIN file' = 1 .. MaxSession /\ DOMAIN synced' = 1 .. MaxSession
      /\ \A r \in 1 .. MaxSession : r # s => file'[r] = file[r] /\ synced'[r] = synced[r]
  BY <1>2, <1>4, Zenon
<1>8. synced'[s] = n /\ n \in 0 .. Len(file[s]) /\ synced[s] <= n /\ synced[s] \in Nat
  BY <1>2, <1>4, <1>6
<1>9. proc'.at = "none" /\ DOMAIN proc' = ProcessFields
  BY <1>3, ProcessAt DEF End
<1>10. TypeOK'
  BY <1>3, <1>7, <1>9, Zenon DEF StoreInv, TypeOK, MetaType
<1>11. ASSUME NEW r \in 1 .. MaxSession PROVE FileInv(r)'
  <2>1. FileInv(r)
    BY Zenon DEF StoreInv
  <2>2. CASE r = s
    <3>1. synced'[s] \in 0 .. Len(file'[s]) /\ Len(file'[s]) <= Len(file[s])
      <4>1. /\ Len(file'[s]) = n /\ synced'[s] = n /\ n \in 0 .. Len(file[s])
            /\ Len(file[s]) \in Nat
        BY <1>4, <1>6, <1>8
      <4> QED
        BY <4>1, SMTT(30)
    <3>2. s > session => file'[s] = << >>
      <4>1. ASSUME s > session PROVE file'[s] = << >>
        <5>1. file[s] = << >>
          BY <2>1, <2>2, <4>1, Zenon DEF FileInv
        <5>2. Len(file'[s]) = 0 /\ file'[s] \in Seq(LogLine)
          BY <1>6, <1>8, <5>1, SMTT(30) DEF LogGood
        <5> QED
          BY <5>2, SMTT(30)
      <4> QED
        BY <4>1
    <3>3. MaxSeq > 0 => Len(file'[s]) <= MaxSeq
      BY <1>4, <1>6, <1>8, <2>1, <2>2, BoundsAssumption, SMTT(30) DEF FileInv
    <3> QED
      BY <1>3, <1>6, <2>2, <3>1, <3>2, <3>3 DEF FileInv
  <2>3. CASE r # s
    BY <1>3, <1>7, <2>1, <2>3, Zenon DEF FileInv
  <2> QED
    BY <2>2, <2>3
<1>12. ActiveInv'
  <2> SUFFICES ASSUME lab \in {"init", "started"}
               PROVE  /\ active # None
                      /\ unsynced' # "lost" => Consistent(active)'
                      /\ unsynced' = "no" /\ active.State # "disabled" =>
                             active.Last.LastSeq <= synced'[active.SessionID]
    BY <1>3, Zenon DEF ActiveInv
  <2>1. active # None
    BY Zenon DEF StoreInv, ActiveInv
  <2>2. ASSUME unsynced' # "lost" \/ unsynced' = "no"
        PROVE  /\ Consistent(active)
               /\ active.State # "disabled" =>
                      active.Last.LastSeq <= synced[active.SessionID]
    BY <1>3, <2>2 DEF StoreInv, TypeOK, ActiveInv
  <2>3. ASSUME active.State # "disabled"
        PROVE  active.SessionID \in 1 .. MaxSession /\ active.Last.LastSeq \in Nat
    <3>1. MetaType(active)
      BY <2>1, Zenon DEF StoreInv, TypeOK
    <3> QED
      BY <2>3, <3>1, MetaSession
  <2>4. ASSUME unsynced' # "lost" \/ unsynced' = "no", active.State # "disabled"
        PROVE  /\ active.Last.LastSeq <= synced'[active.SessionID]
               /\ active.Last.LastSeq <= Len(file'[active.SessionID])
               /\ SequenceStates(file'[active.SessionID])[active.Last.LastSeq]
                      = SequenceStates(file[active.SessionID])[active.Last.LastSeq]
    <3>1. CASE active.SessionID = s
      BY <1>6, <1>8, <2>2, <2>3, <2>4, <3>1, SMTT(30)
    <3>2. CASE active.SessionID # s
      BY <1>7, <2>2, <2>3, <2>4, <3>2, Zenon DEF Consistent
    <3> QED
      BY <3>1, <3>2, Zenon
  <2>5. unsynced' # "lost" => Consistent(active)'
    BY <1>3, <2>2, <2>4, ActiveKept, Zenon
  <2> QED
    BY <2>1, <2>4, <2>5, Zenon
<1>13. AckedReadable'
  <2>1. ASSUME NEW e \in acked, NEW i \in 1 .. synced[e.SessionID]
        PROVE  i \in 1 .. synced'[e.SessionID] /\ file'[e.SessionID][i] = file[e.SessionID][i]
    <3>1. e.SessionID \in 1 .. MaxSession
      BY DEF StoreInv, TypeOK
    <3> QED
      BY <1>6, <1>7, <1>8, <3>1
  <2> QED
    BY <1>3, <2>1, Zenon DEF StoreInv, AckedReadable
<1> QED
  BY <1>9, <1>10, <1>11, <1>12, <1>13, NoSession DEF StoreInv

-----------------------------------------------------------------------------
(* The theorems. *)

\* The lab that was never initialized.
LEMMA StoreInit ==
    ASSUME Init
    PROVE  StoreInv
<1>1. TypeOK
  <2>1. DOMAIN file = 1 .. MaxSession /\ DOMAIN synced = 1 .. MaxSession
    BY DEF Init
  <2>2. proc.at = "none" /\ DOMAIN proc = ProcessFields
    BY ProcessAt DEF Init
  <2>3. manifest \in BOOLEAN /\ session = 0 /\ now = 0 /\ active = None /\ acked = {}
        /\ unsynced = "no"
    BY Zenon DEF Init
  <2>4. session \in 0 .. MaxSession /\ now \in Nat
    BY <2>3, BoundsAssumption
  <2> QED
    BY <2>1, <2>2, <2>3, <2>4 DEF TypeOK
<1>2. ASSUME NEW s \in 1 .. MaxSession PROVE FileInv(s)
  <2>1. file[s] = << >> /\ synced[s] = 0 /\ now = 0
    BY DEF Init
  <2>2. LogGood(<< >>, s, now) /\ Len(<< >>) = 0
    BY <2>1, EmptyGood
  <2> QED
    BY <2>1, <2>2, BoundsAssumption DEF FileInv
<1>3. ActiveInv /\ ProcInv /\ AckedReadable
  BY ProcessAt DEF Init, ActiveInv, ProcInv, InSession, Appending, AckedReadable
<1> QED
  BY <1>1, <1>2, <1>3 DEF StoreInv

\* Every command, failure and crash keeps the invariant.
LEMMA StoreNext ==
    ASSUME StoreInv, "open" \notin Fault, [Next]_vars
    PROVE  StoreInv'
<1>1. CASE InitManifest \/ InitActive \/ Open \/ Clear \/ RemoveAll \/ Tick
  BY <1>1, InitManifestStep, InitActiveStep, OpenStep, ClearStep, RemoveAllStep, TickStep
<1>2. CASE Command
  BY <1>2, StartStep, CommandStep, StatusStep DEF Command
<1>3. CASE Write
  <2>1. CASE IOFails
    BY <2>1, EndStep DEF IOFails
  <2> QED
    BY <1>3, <2>1, WriteEventStep, WriteFailsStep, SyncEventStep, SaveMetadataStep DEF Write
<1>4. CASE Exit
  BY <1>4, EndStep DEF Exit
<1>5. CASE PowerLoss
  BY <1>5, PowerLossStep
<1>6. CASE UNCHANGED vars
  <2>1. UNCHANGED <<manifest, active, file, synced, proc, acked, session, lab, unsynced, now>>
    BY <1>6, Zenon DEF vars
  <2>2. TypeOK'
    BY <2>1, Zenon DEF StoreInv, TypeOK, MetaType
  <2>3. \A s \in 1 .. MaxSession : FileInv(s)'
    BY <2>1 DEF StoreInv, FileInv
  <2>4. ActiveInv'
    BY <2>1, ActiveSame
  <2>5. ProcInv'
    <3>1. \A meta : /\ Consistent(meta)' <=> Consistent(meta)
                    /\ MetaType(meta)' <=> MetaType(meta)
      BY <2>1 DEF Consistent, MetaType
    <3>2. (InSession' <=> InSession) /\ (Appending' <=> Appending)
      BY <2>1 DEF InSession, Appending
    <3>3. ProcInv
      BY DEF StoreInv
    <3>4. /\ proc' = proc /\ file' = file /\ active' = active /\ synced' = synced /\ now' = now
          /\ (Consistent(active)' <=> Consistent(active))
          /\ (MetaType(proc.meta)' <=> MetaType(proc.meta))
      BY <2>1, <3>1, Zenon
    <3> QED
      BY <3>2, <3>3, <3>4, ZenonT(40) DEF ProcInv
  <2>6. AckedReadable'
    BY <2>1 DEF StoreInv, AckedReadable
  <2> QED
    BY <2>2, <2>3, <2>4, <2>5, <2>6 DEF StoreInv
<1> QED
  BY <1>1, <1>2, <1>3, <1>4, <1>5, <1>6 DEF Next

\* Whatever the commands of store.go do, and wherever they are killed, fail or
\* lose power: every prefix of every log is a session, and the metadata on disk
\* summarise one unless Status had counted a line that the power loss took.
THEOREM StoreInvariant == ASSUME "open" \notin Fault PROVE Spec => []StoreInv
<1>1. Init => StoreInv
  BY StoreInit
<1>2. StoreInv /\ [Next]_vars => StoreInv'
  BY StoreNext
<1> QED
  BY <1>1, <1>2, PTL DEF Spec

\* An event whose append was reported as done stays in its log, whole and on
\* stable storage, until the lab is cleared: appendEventFile syncs the line
\* before saveMetadata and the answer, and later writes only append.
THEOREM AckedStaysReadable == ASSUME "open" \notin Fault PROVE Spec => []AckedReadable
<1>1. StoreInv => AckedReadable
  BY DEF StoreInv
<1> QED
  BY <1>1, StoreInvariant, PTL

\* Status recovers from every crash and failure, unless the log ends in a line
\* that was cut short or lost a line that Status had counted: the metadata are
\* never ahead of the log.
THEOREM StatusAlwaysRecovers == ASSUME "open" \notin Fault PROVE Spec => []StatusRecovers
<1>1. ASSUME StoreInv PROVE StatusRecovers
  <2> SUFFICES ASSUME lab \in {"init", "started"}, unsynced # "lost",
                      active.SessionID # None => Readable(file[active.SessionID])
               PROVE  Loaded(active) # None
    BY Zenon DEF StatusRecovers
  <2>1. active # None /\ Consistent(active) /\ active \in SessionMetadata /\ MetaType(active)
    BY <1>1 DEF StoreInv, ActiveInv, TypeOK, MetaType
  <2>2. CASE active.State = "disabled"
    <3>1. EmptySequence \in SequenceState
      BY DEF EmptySequence, SequenceState
    <3>2. Loaded(active) \in [meta : SessionMetadata, sequence : SequenceState]
      BY <2>1, <2>2, <3>1, Zenon DEF Loaded
    <3> QED
      BY <3>2, NoneAssumption, Zenon
  <2>3. CASE active.State # "disabled"
    <3> DEFINE s == active.SessionID
               end == SequenceStates(file[s])[Len(file[s])]
    <3>1. s \in 1 .. MaxSession /\ active.Last.LastSeq \in Nat
      BY <1>1, <2>1, <2>3, MetaSession
    <3>2. s # None
      BY <3>1, NoneAssumption, SMTT(30)
    <3>3. end \in SequenceState /\ end.LastSeq = Len(file[s]) /\ Len(file[s]) \in Nat
      BY <1>1, <3>1, EndGood, Zenon
    <3>4. scanSession(file[s]) = end /\ end # None
      BY <3>2, <3>3, NoneAssumption, Zenon DEF scanSession
    <3>5. /\ active.Last.LastSeq <= Len(file[s])
          /\ active.Last.LastSeq = Len(file[s]) => Metadata(active, end) = active
      BY <2>1, <2>3, Zenon DEF Consistent
    <3> HIDE DEF end
    <3>6. Metadata(active, end) \in SessionMetadata
      BY <2>1, <3>3, MetadataFields, Zenon
    <3>7. Loaded(active) = [meta |-> Metadata(active, end), sequence |-> end]
      BY <2>3, <3>1, <3>3, <3>4, <3>5, SMTT(30) DEF Loaded
    <3>8. Loaded(active) \in [meta : SessionMetadata, sequence : SequenceState]
      BY <3>3, <3>6, <3>7
    <3> QED
      BY <3>8, NoneAssumption
  <2> QED
    BY <2>2, <2>3
<1> QED
  BY <1>1, StoreInvariant, PTL

\* While the clock does not go back, the store's own events continue the
\* session: pause always, resume until the session has as many episodes as
\* sequence.go allows.
LEMMA ControlAccepted ==
    ASSUME StoreInv, "clock" \notin Fault
    PROVE  /\ Ready({"running"}) => Accepts(proc.sequence, pauseEvent)
           /\ Ready({"paused"}) /\ Cardinality(proc.sequence.SeenEpisodes) < MaxEpisodes =>
                  Accepts(proc.sequence, resumeEvent)
<1> SUFFICES ASSUME Ready({"running", "paused"})
             PROVE  /\ Ready({"running"}) => Accepts(proc.sequence, pauseEvent)
                    /\ Ready({"paused"}) /\ Cardinality(proc.sequence.SeenEpisodes) < MaxEpisodes =>
                           Accepts(proc.sequence, resumeEvent)
  BY Zenon DEF Ready
<1> DEFINE s == proc.meta.SessionID
           q == proc.sequence
<1>1. /\ s \in 1 .. MaxSession /\ q \in SequenceState /\ proc.meta \in SessionMetadata
      /\ GoodState(q, s, Len(file[s]), now) /\ Len(file[s]) \in Nat \ {0}
      /\ proc.meta.State = StateName(q) /\ proc.meta.Last.LastSeq = Len(file[s])
      /\ proc.meta.Last.LastEpisodeID = q.LastEpisodeID
      /\ proc.meta.Last.LastMonotonicUS = q.LastMonotonicUS
  BY ReadyFacts, Zenon
<1>2. /\ q.SessionID = s /\ s # None /\ q.LastSeq = Len(file[s]) /\ q.LastSeq # 0
      /\ q.LastEpisodeID \in q.SeenEpisodes /\ q.LastUTC <= now
      /\ \A id \in q.SeenEpisodes : id.n < Cardinality(q.SeenEpisodes)
      /\ Cardinality(q.SeenEpisodes) \in Nat
  BY <1>1, NoneAssumption, FS_CardinalityType, SMTT(30) DEF GoodState
<1>3. q.LastUTC \in Nat /\ q.LastMonotonicUS \in Nat /\ now \in Nat /\ proc.meta.Started \in Nat
  BY <1>1, Zenon DEF SequenceState, SessionMetadata, StoreInv, TypeOK
<1>4. controlMono(proc.meta) >= q.LastMonotonicUS
  BY <1>1, <1>3 DEF controlMono
<1>5. ASSUME NEW type, NEW episode
      PROVE  Continues(q, controlEvent(type, episode))
  BY <1>1, <1>2, <1>3, <1>4, Zenon DEF Continues, controlEvent, Event
<1>6. ASSUME Ready({"running"}) PROVE Accepts(q, pauseEvent)
  <2>1. ~q.Paused
    BY <1>1, <1>6, Zenon DEF Ready, StateName
  <2>2. pauseEvent.Type = "pause" /\ pauseEvent.EpisodeID = q.LastEpisodeID
    BY <1>1 DEF pauseEvent, controlEvent, Event
  <2>3. Continues(q, pauseEvent)
    BY <1>5, Zenon DEF pauseEvent
  <2> QED
    BY <2>1, <2>2, <2>3, Zenon DEF Accepts, MayOpenEpisode, MayContinue, newEpisode
<1>7. ASSUME Ready({"paused"}), Cardinality(q.SeenEpisodes) < MaxEpisodes
      PROVE  Accepts(q, resumeEvent)
  <2>1. q.Paused
    BY <1>1, <1>7, Zenon DEF Ready, StateName
  <2>2. /\ resumeEvent.Type = "resume" /\ resumeEvent.EpisodeID = NewID
        /\ NewID.n = Cardinality(q.SeenEpisodes)
    BY Zenon DEF resumeEvent, controlEvent, Event, NewID
  <2>3. NewID \notin q.SeenEpisodes /\ NewID # q.LastEpisodeID
    BY <1>2, <2>2
  <2>4. Continues(q, resumeEvent)
    BY <1>5 DEF resumeEvent
  <2> QED
    BY <1>7, <2>1, <2>2, <2>3, <2>4, Zenon DEF Accepts, MayOpenEpisode, MayContinue, newEpisode
<1> QED
  BY <1>6, <1>7, Zenon

\* A running lab can be paused and a paused one resumed, as long as sessions are
\* shorter than the number of episodes that sequence.go allows and the wall
\* clock does not go back (controlMono and the UTC of Pause and Resume).
THEOREM ControlAlwaysAccepted ==
    ASSUME Fault \cap {"open", "clock"} = {}, MaxSeq \in 1 .. MaxEpisodes - 1
    PROVE  Spec => []CanControl
<1>1. ASSUME StoreInv PROVE CanControl
  <2>1. ASSUME Ready({"paused"}) PROVE Cardinality(proc.sequence.SeenEpisodes) < MaxEpisodes
    <3> DEFINE s == proc.meta.SessionID
    <3>1. Ready({"running", "paused"})
      BY <2>1, Zenon DEF Ready
    <3>2. /\ s \in 1 .. MaxSession /\ Len(file[s]) \in Nat
          /\ GoodState(proc.sequence, s, Len(file[s]), now)
      BY <1>1, <3>1, ReadyFacts
    <3>3. Len(file[s]) <= MaxSeq
      BY <1>1, <3>2, EpisodesAssumption, SMTT(30) DEF StoreInv, FileInv
    <3>4. /\ Cardinality(proc.sequence.SeenEpisodes) \in Nat
          /\ Cardinality(proc.sequence.SeenEpisodes) <= Len(file[s])
      BY <3>2, FS_CardinalityType DEF GoodState
    <3> QED
      BY <3>2, <3>3, <3>4, EpisodesAssumption
  <2> QED
    BY <1>1, <2>1, ControlAccepted DEF CanControl
<1>2. "open" \notin Fault
  OBVIOUS
<1> QED
  BY <1>1, <1>2, StoreInvariant, PTL
=============================================================================
