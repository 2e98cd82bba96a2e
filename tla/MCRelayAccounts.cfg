CONSTANTS
    Account = {a1, a2}
    Device = {d1, d2, d3}
    Pairing = {p1}
    Client = {c1, c2}
    Request = {r1, r2}
    Epoch = {1}
    Box = {b1, b2}
    pairingLifetime = 1
    MaxTime = 1
    None = None
SYMMETRY Interchangeable
SPECIFICATION Spec
CHECK_DEADLOCK FALSE
INVARIANTS
    SealedForClaimant
    PairingAddsOneDevice
    KeyringAgreement
    LockoutOnlyByOverlap
