CONSTANTS
    Offer <- MCOffer
    PrivateHead <- MCPrivateHead
    Long <- MCLong
    ScoreOf <- MCScoreOf
    NoSession <- MCNoSession
    kCandidatePageSize = 3
    MaxUpstream = 4
SPECIFICATION Spec
INVARIANTS
    ShowsEachText
    
    KeepsUpstreamOrder
CHECK_DEADLOCK FALSE
