CONSTANTS
    w1 = w1
    w2 = w2
    Node = {1, 2, 3}
    Worker = {w1, w2}
    Monitor = Monitor
    NoNode = NoNode
    NotRegistered = NotRegistered
    NoAssignment = NoAssignment
    AnyEligible = AnyEligible
    Eviction = 1
    MaxEpoch = 3
    MaxGeneration = 1
    MaxRegistration = 4
SYMMETRY WorkerSymmetry
SPECIFICATION StableSpec
PROPERTY PublishedHeldState
CHECK_DEADLOCK FALSE
