CONSTANTS
    create = create
    bid = bid
    reveal = reveal
    sweep = sweep
    r1 = r1
    w1 = w1
    Op = {create, bid, reveal, sweep}
    Create = {create}
    Reveal = {reveal, sweep}
    Sweep = sweep
    Requested = {bid, reveal}
    Created <- MCCreated
    Reader = {}
    Watcher = {}
    MayEnd = FALSE
    RetryLimit = 2
    MaxEpoch = 2
    MaxQueued = 1
SPECIFICATION Spec
INVARIANTS
    TypeOK
    SettledFailureIsFinal
PROPERTIES
    LedgerSpec
CHECK_DEADLOCK FALSE
