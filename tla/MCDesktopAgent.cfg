CONSTANTS
    Process = {p1, p2}
    NoProcess = NoProcess
    Setup = setup
    Interval = 7
    MinBackoff = 5
    MaxBackoff = 12
    Word = 2048
    Percent = {90, 110}
    MaxFailures = 3
    NotFound = NotFound
    Partial = Partial
    Saved = Saved
    Failed = Failed
    Pending = Pending
    MaxAttempt = 2
SPECIFICATION Spec
INVARIANTS
    AttemptsSpaced
    CredentialIsComplete
    CallsAreAtomic
PROPERTY
    RunsUntilCancelled
