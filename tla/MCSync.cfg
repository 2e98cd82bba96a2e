CONSTANTS
    d1 = d1
    d2 = d2
    w1 = w1
    w2 = w2
    Device <- MCDevice
    Object = {o1}
    Runner = {w1, w2}
    OneShot = {}
    Home <- MCHome
    Trusted <- MCTrusted
    Account = acct
    PageLimit = 2
    MaxMutations <- MCMutations
    MaxFaults = 1
    None = None
    NoHash = NoHash
SPECIFICATION FairSpec
INVARIANTS
    UploadsAccepted
    NoLostMutation
    NoSkippedPage
    VerifiedOnly
PROPERTIES
    ImplementsReplicated
    Converges
