--------------------------- MODULE CandidateMerge ---------------------------
(***************************************************************************)
(* The candidate menu of the filter: at most two private phrases lead, a   *)
(* window of upstream candidates that fills the first page follows, and    *)
(* the rest of the upstream translation is streamed as the user pages.     *)
(* The window is reordered by session scores, keeps at most one automatic  *)
(* correction of a long input, and may give up a learned word that         *)
(* overtakes the private phrases.  The menu is what Peek returned before   *)
(* each Next.                                                              *)
(***************************************************************************)
EXTENDS Integers, FiniteSets, SequencesExt

CONSTANTS
    Offer,                \* upstream candidates: text, kind, commit count
    PrivateHead,          \* sequences of private phrases the snapshot returns
    Long,                 \* texts of at least three CJK characters
    ScoreOf,              \* possible correction scores of the texts
    NoSession,            \* the scores when session learning is off
    kCandidatePageSize,
    MaxUpstream           \* bound on the upstream translation

VARIABLES
    query,                \* the upstream candidates, private head and guards
    opened,               \* the merged translation is constructed
    front, upstream_window, upstream,   \* what each source has still to give
    menu                  \* the candidates shown so far

vars == <<query, opened, front, upstream_window, upstream, menu>>

\* An upstream candidate carries its place, to tell equal ones apart.
Placed(offers) == [i \in DOMAIN offers |->
    [text |-> offers[i].text, kind |-> offers[i].kind,
     commit_count |-> offers[i].commit_count, place |-> i]]

Init ==
    /\ query \in [upstream : {Placed(s) : s \in UNION {[1..n -> Offer] : n \in 0..MaxUpstream}},
                  front : PrivateHead, scores : ScoreOf,
                  short_input : BOOLEAN, protect : BOOLEAN]
    /\ ~(query.short_input /\ query.protect)   \* at most 2 letters, at least 6
    /\ opened = FALSE
    /\ front = <<>> /\ upstream_window = <<>> /\ upstream = <<>> /\ menu = <<>>

-----------------------------------------------------------------------------
IsPrivate(candidate) == candidate.kind = "private"
IsCorrection(candidate) == candidate.kind = "correction"
IsOrdinary(candidate) == ~IsPrivate(candidate) /\ ~IsCorrection(candidate)

CorrectionScore(text) == IF query.scores = NoSession THEN 0 ELSE query.scores[text]

Overlong(candidate) == query.short_input /\ candidate.text \in Long

Suppressed(candidate, discard) ==
    \/ \E p \in Range(query.front) : p.text = candidate.text
    \/ Overlong(candidate)
    \/ discard /\ query.protect /\ IsCorrection(candidate)

\* What remains from the first candidate that is shown.
SkipSuppressed(rest) ==
    LET shown == {i \in DOMAIN rest : ~Suppressed(rest[i], TRUE)}
    IN IF shown = {} THEN <<>> ELSE SubSeq(rest, Min(shown), Len(rest))

\* The upstream candidates taken to fill the page behind the private ones.
Taken ==
    LET kept(n) == {i \in 1..n : ~Suppressed(query.upstream[i], FALSE)}
    IN SubSeq(query.upstream, 1,
              Max({n \in 0..Len(query.upstream) :
                      n = 0 \/ Cardinality(kept(n - 1)) < kCandidatePageSize - Len(query.front)}))

Evidence ==
    LET seen == SelectSeq(Taken, LAMBDA c : ~Overlong(c))
    IN SubSeq(seen, 1, Min({Len(seen), kCandidatePageSize}))

ScoreSort_Unstable(window) ==
    LET scored(n) == SelectSeq(window, LAMBDA c : CorrectionScore(c.text) = n)
    IN scored(1) \o Reverse(scored(0)) \o scored(-1)

\* A stable sort; scores are -1, 0 and 1.
ScoreSort(window) ==
    LET scored(n) == SelectSeq(window, LAMBDA c : CorrectionScore(c.text) = n)
    IN scored(1) \o scored(0) \o scored(-1)


\* One correction at most, behind the first ordinary candidate.
ProtectLongCorrections(window) ==
    LET ordered == SelectSeq(window, IsOrdinary)
        corrections == SelectSeq(window, IsCorrection)
    IN CASE ~query.protect -> window
         [] query.protect /\ (ordered = <<>> \/ corrections = <<>> \/ Len(query.front) >= 2) -> ordered
         [] OTHER -> <<Head(ordered), Head(corrections)>> \o Tail(ordered)

Window == ProtectLongCorrections(ScoreSort(SelectSeq(Taken, LAMBDA c : ~Suppressed(c, FALSE))))

-----------------------------------------------------------------------------
\* An exact match of the dictionary or the user's own words.
ExactPhrase(candidate) == candidate.kind \in {"word", "user_phrase"}

\* The learned words that overtake the private head: one that upstream ranks
\* before its own copy of the head, or that was committed as often.
Overtaking ==
    LET injected == Head(query.front)
        native == {i \in DOMAIN Evidence : /\ Evidence[i].text = injected.text
                                           /\ ExactPhrase(Evidence[i])}
    IN {i \in DOMAIN Evidence :
            /\ Evidence[i].kind = "user_phrase"
            /\ IF native # {} THEN i < Min(native)
               ELSE /\ injected.synced_learning /\ Evidence[i].commit_count > 0
                    /\ Evidence[i].commit_count >= injected.use_count}

Promotes ==
    /\ query.front # <<>>
    /\ ~Head(query.front).pinned /\ Head(query.front).correction_score <= 0
    /\ Overtaking # {}

Promoted == Evidence[Min(Overtaking)]

Without(candidates, text) == SelectSeq(candidates, LAMBDA c : c.text # text)

Apply_KeepCopy ==
    /\ ~opened /\ opened' = TRUE
    /\ front' = IF Promotes THEN <<Promoted>> \o Without(query.front, Promoted.text)
                ELSE query.front
    /\ upstream_window' = Window
    /\ upstream' = SkipSuppressed(SubSeq(query.upstream, Len(Taken) + 1, Len(query.upstream)))
    /\ UNCHANGED <<query, menu>>

Apply ==
    /\ ~opened /\ opened' = TRUE
    /\ IF query.front = <<>> /\ ~query.short_input /\ ~query.protect /\ query.scores = NoSession
       THEN front' = <<>> /\ upstream_window' = <<>> /\ upstream' = query.upstream
       ELSE /\ front' = IF Promotes THEN <<Promoted>> \o Without(query.front, Promoted.text)
                        ELSE query.front
            /\ upstream_window' = IF Promotes THEN Without(Window, Promoted.text) ELSE Window
            /\ upstream' = SkipSuppressed(SubSeq(query.upstream, Len(Taken) + 1, Len(query.upstream)))
    /\ UNCHANGED <<query, menu>>

\* Next moves past the current candidate of the first source that has one.
NextFront ==
    /\ opened /\ front # <<>>
    /\ menu' = Append(menu, Head(front)) /\ front' = Tail(front)
    /\ UNCHANGED <<query, opened, upstream_window, upstream>>

NextWindow ==
    /\ opened /\ front = <<>> /\ upstream_window # <<>>
    /\ menu' = Append(menu, Head(upstream_window)) /\ upstream_window' = Tail(upstream_window)
    /\ upstream' = IF upstream_window' = <<>> THEN SkipSuppressed(upstream) ELSE upstream
    /\ UNCHANGED <<query, opened, front>>

NextUpstream ==
    /\ opened /\ front = <<>> /\ upstream_window = <<>> /\ upstream # <<>>
    /\ menu' = Append(menu, Head(upstream)) /\ upstream' = SkipSuppressed(Tail(upstream))
    /\ UNCHANGED <<query, opened, front, upstream_window>>

Next == Apply \/ NextFront \/ NextWindow \/ NextUpstream

Spec == Init /\ [][Next]_vars

-----------------------------------------------------------------------------
Exhausted == opened /\ front = <<>> /\ upstream_window = <<>> /\ upstream = <<>>

Times(candidates, text) == Cardinality({i \in DOMAIN candidates : candidates[i].text = text})

\* Paging to the end of the menu shows every private phrase exactly once and
\* every upstream text, except what the short-input guard hides and the
\* corrections the long-input guard discards; and no text more often than
\* upstream gives it.  Windowing, promotion and streaming lose and repeat
\* nothing.
ShowsEachText ==
    Exhausted =>
        /\ \A p \in Range(query.front) : Times(menu, p.text) = 1
        /\ \A c \in Range(query.upstream) :
            LET times == Times(menu, c.text) IN
            \/ \E p \in Range(query.front) : p.text = c.text
            \/ /\ times <= Times(query.upstream, c.text)
               /\ Overlong(c) => times = 0
               /\ ~Overlong(c) /\ ~(query.protect /\ IsCorrection(c)) => times > 0


\* Ordinary candidates with the same score keep their upstream order, in the
\* window and across its end, whatever is hidden or moved between them; only
\* the one learned word at the head of the menu may overtake.
KeepsUpstreamOrder ==
    \A i, j \in DOMAIN menu :
        (/\ i < j /\ IsOrdinary(menu[i]) /\ IsOrdinary(menu[j])
         /\ CorrectionScore(menu[i].text) = CorrectionScore(menu[j].text)
         /\ i = 1 => query.front = <<>>)
        => menu[i].place < menu[j].place
=============================================================================
