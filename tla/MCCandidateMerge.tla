-------------------------- MODULE MCCandidateMerge --------------------------
(***************************************************************************)
(* Private phrases p and q; upstream offers p itself, two other words, a   *)
(* correction, a learned word and a long prediction.                       *)
(***************************************************************************)
EXTENDS CandidateMerge

Candidate(text, kind, count) == [text |-> text, kind |-> kind, commit_count |-> count]

MCOffer == {Candidate("p", "word", 0), Candidate("x", "user_phrase", 1),
            Candidate("y", "other", 0), Candidate("z", "correction", 0),
            Candidate("y", "correction", 0), Candidate("l", "user_phrase", 1)}

Private(text, pinned, synced, uses) ==
    [text |-> text, kind |-> "private", pinned |-> pinned, correction_score |-> 0,
     synced_learning |-> synced, use_count |-> uses]

Corrected == [Private("p", FALSE, TRUE, 1) EXCEPT !.correction_score = 1]

MCPrivateHead == {<<>>} \cup UNION {{<<head>>, <<head, Private("q", FALSE, FALSE, 0)>>} :
    head \in {Private("p", TRUE, TRUE, 1), Corrected, Private("p", FALSE, FALSE, 1),
              Private("p", FALSE, TRUE, 1), Private("p", FALSE, TRUE, 2)}}

MCLong == {"l"}
MCNoSession == <<>>
MCScoreOf == {MCNoSession,
              [t \in {"p", "q", "x", "y", "z", "l"} |->
                CASE t = "x" -> -1 [] t = "z" -> 1 [] OTHER -> 0]}
=============================================================================
