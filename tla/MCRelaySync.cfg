CONSTANTS
    d1 = d1
    d2 = d2
    d3 = d3
    Device = {d1, d2, d3}
    AccountOf <- MCAccounts
    MaxSeq <- MCSeq
    Variant = {"x", "y"}
    Size <- MCSize
    maxDownloadBytes = 2
    Limit = {1, 3}
    MaxBatch = 2
    NoHash = NoHash
SPECIFICATION Spec
INVARIANTS
    StoredIsAccepted
    ExtensionAccepted
    PagesComplete
