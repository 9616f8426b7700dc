CONSTANTS
    w1 = w1
    w2 = w2
    w3 = w3
    Node = {1, 2, 3}
    Worker = {w1, w2}
    Monitor = Monitor
    NoNode = NoNode
    NotRegistered = NotRegistered
    NoAssignment = NoAssignment
    AnyEligible = AnyEligible
    Eviction = 1
    MaxEpoch = 2
    MaxGeneration = 1
    Op = {m1}
    NoOp = NoOp
    Boot = Boot
    Orphan = Orphan
    Unreliable = {1}
    Stopped = {}
    Restarting = {1}
    MaxLate = 0
SYMMETRY WorkerSymmetry
SPECIFICATION Spec
INVARIANTS
    TypeOK
    AcknowledgedRecoverable
    OnePrimaryPerEpoch
    PublishedIsActivated
    ReadyBackupFollows
PROPERTIES
    LedgerSpec
CHECK_DEADLOCK FALSE
