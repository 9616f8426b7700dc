CONSTANTS
    w1 = w1
    w2 = w2
    w3 = w3
    Node = {1, 2, 3}
    Worker = {w1, w2, w3}
    Monitor = Monitor
    NoNode = NoNode
    NotRegistered = NotRegistered
    NoAssignment = NoAssignment
    AnyEligible = AnyEligible
    Eviction = 1
    MaxEpoch = 1
    MaxGeneration = 2
    Op = {}
    NoOp = NoOp
    Boot = Boot
    Orphan = Orphan
    Unreliable = {2}
    Stopped = {}
    Restarting = {}
    MaxLate = 0
SYMMETRY WorkerSymmetry
SPECIFICATION Spec
INVARIANTS
    AgreedBackup
CHECK_DEADLOCK FALSE
