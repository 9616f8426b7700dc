CONSTANTS
    i1 = i1
    i2 = i2
    a1 = a1
    x = x
    y = y
    v = v
    Id = {i1, i2}
    Op = {x, y, v}
    Auction = {a1}
    IdOf <- MCIdOf
    AuctionOf <- MCAuctionOf
    Tombstoned = {}
    NoAuction = NoAuction
SYMMETRY ReuseSymmetry
SPECIFICATION Spec
INVARIANTS
    TypeOK
    AcknowledgedOnBothReplicas
    AppliedAtMostOnce
    BackupFollowsPrimary
    LagIsOnePendingDecision
PROPERTY LedgerSpec
