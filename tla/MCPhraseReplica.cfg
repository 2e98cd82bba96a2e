CONSTANTS
    Device = {1, 2}
    CounterMax = 1
    Source = {0, 1}
    Object = {o1}
    NoRow = NoRow
    CountMax = 2
    GenMax = 2
    Wall = {1}
    Wanted = {2}
    MaxOps = 4
SPECIFICATION Spec
INVARIANTS
    ClockDominates
    ClocksNameOneWrite
    RowIsJoin
    RemoveWins
    PinLostOnlyToCreation
PROPERTIES
    RowsOnlyGrow
CHECK_DEADLOCK FALSE
