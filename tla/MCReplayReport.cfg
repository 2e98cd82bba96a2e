CONSTANTS
    Composition <- MCComposition
    FinalText = {"x"}
    Time = {1, 2}
    MaxFrames = 4
    MaxEvents = 5
    MaxEpisodes = 2
    None = None
SPECIFICATION Spec
INVARIANTS
    ReportIsExact
    AcceptIsExact
    
CHECK_DEADLOCK FALSE
