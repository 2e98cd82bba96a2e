CONSTANTS
    Phrase = {"long", "short", "url"}
    Monitorable = {"long", "short"}
    Date = {1, 2}
    NoSelection = NoSelection
    NoCommit = NoCommit
    Scalars <- MCScalars
    CommitInput <- MCCommitInput
    Input <- MCInput
    correction_window = 1
    kMaxHabitStatEntries = 3
    kMaxTrackedEntries = 3
    kMaxSessionCorrectionScore = 10
    MaxTime = 2
    MaxHistory = 4
    MaxCorrection = 2
SPECIFICATION Spec
INVARIANT
    ScoresAreNetFeedback
PROPERTY
    LearnsOnlyProven
CHECK_DEADLOCK FALSE
