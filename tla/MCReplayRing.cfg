CONSTANTS
    kReplayRingCapacity = 3
    MaxOffers = 6
    Invalid = {2}
    Large = {3, 5}
SPECIFICATION FairSpec
INVARIANTS
    NoSlotRace
PROPERTIES
    ImplementsQueue
    EveryEventReported
