SPECIFICATION Spec
CONSTANTS
    w1 = w1
    w2 = w2
    Workers <- TwoWorkers
    MaxTurns = 2
    MaxAttempts = 3
    SnapshotsMayFail = TRUE
CONSTRAINT InTime
SYMMETRY WorkerSymmetry
INVARIANTS
    CheckpointInv
    NeverReplayed
    SnapshotKept
    QueuedIsResumable
CHECK_DEADLOCK FALSE
