CONSTANTS
    create = create
    bid = bid
    reveal = reveal
    sweep = sweep
    r1 = r1
    w1 = w1
    Op = {create, bid, reveal, sweep}
    Create = {create}
    Reveal = {reveal, sweep}
    Sweep = sweep
    Requested = {bid}
    Created <- MCCreated
    Reader = {r1}
    Watcher = {w1}
    MayEnd = TRUE
    RetryLimit = 2
    MaxEpoch = 2
    MaxQueued = 0
SPECIFICATION Spec
INVARIANTS
    ReadSeesAcknowledged
PROPERTIES
    CallsAreAnswered
    WatchCompletes
CHECK_DEADLOCK FALSE
