CONSTANTS
    d1 = d1
    r1 = r1
    s1 = s1
    Device = {d1}
    Object = {o1}
    Runner = {r1}
    OneShot = {s1}
    Home <- MCHome
    Trusted <- MCTrusted
    Account = acct
    PageLimit = 1
    MaxMutations <- MCTwo
    MaxFaults = 0
    None = None
    NoHash = NoHash
SPECIFICATION Spec
INVARIANTS
    NoLostMutation
