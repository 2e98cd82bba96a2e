------------------------ MODULE MCSessionLearning ------------------------
(***************************************************************************)
(* A phrase of two scalars and one of one share a pinyin; one looks        *)
(* sensitive and is never recorded.  Another pinyin is no beginning of it. *)
(***************************************************************************)
EXTENDS SessionLearning

MCScalars == [p \in Phrase |-> IF p = "long" THEN 2 ELSE 1]
MCCommitInput == {<<"r", "sep", "i">>, <<"i">>, <<"r", "bad">>}
MCInput == {<<>>, <<"r">>, <<"i">>, <<"sep">>}
=============================================================================
