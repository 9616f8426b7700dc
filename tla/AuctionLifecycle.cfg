CONSTANTS
    b1 = b1
    b2 = b2
    b3 = b3
    s1 = s1
    s2 = s2
    Bidder = {b1, b2, b3}
    Seller = {s1, s2}
    NoOne = NoOne
    NoAuction = NoAuction
    NoResult = NoResult
    NoBid = NoBid
    MaxAmount = 2
    MaxVersion = 5
    Reserve = 2
    Requests <- MCRequests
    Strip <- MCStrip
SPECIFICATION Spec
INVARIANTS
    TypeOK
    NeverCorrupted
    ResultFollowsHistory
    OrdersFollowAcceptance
    OverdueCanBeRevealed
PROPERTIES
    RevealedIsFinal
    ReplacementLosesItsPlace
CHECK_DEADLOCK FALSE
