--------------------------- MODULE MCReplayReport ---------------------------
EXTENDS ReplayReport

Text(t, correction, highlighted) ==
    [Text |-> t, IsCorrection |-> correction, Highlighted |-> highlighted]

\* Two snapshots of one pinyin that differ in what is highlighted.
MCComposition ==
    {[NormalizedPinyin |-> "p", ExactPathAvailable |-> TRUE,
      Candidates |-> <<Text("x", FALSE, h = 1), Text("y", FALSE, h = 2)>>] : h \in {0, 2}}
=============================================================================
