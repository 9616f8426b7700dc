CONSTANTS
    w1 = w1
    w2 = w2
    w3 = w3
    Node = {1, 2, 3}
    Worker = {w1, w2}
    Monitor = Monitor
    NoNode = NoNode
    NotRegistered = NotRegistered
    NoAssignment = NoAssignment
    AnyEligible = AnyEligible
    Eviction = 1
    MaxEpoch = 3
    MaxGeneration = 1
    Op = {}
    NoOp = NoOp
    Boot = Boot
    Orphan = Orphan
    Unreliable = {1, 2}
    Stopped = {1}
    Restarting = {}
    MaxLate = 1
SYMMETRY WorkerSymmetry
SPECIFICATION Spec
INVARIANTS
    OnePrimaryPerEpoch
    PublishedIsActivated
CHECK_DEADLOCK FALSE
