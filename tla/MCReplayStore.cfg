CONSTANTS
    Fault = {"kill", "power", "io", "torn"}
    MaxSession = 2
    MaxSeq = 3
    MaxTime = 1
    MaxEpisodes = 9
    None = None
SPECIFICATION Spec
INVARIANTS
    AckedReadable
    StatusRecovers
    CanControl
