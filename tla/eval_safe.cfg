CONSTANTS
    NEvals = 1
    NItems = 2
    Workers = {w1, w2}
    Free = Free
    Orphan = Orphan
    MaxEvaluations = 1
    MaxProcessing = 1
    Ops = {"pause", "resume", "retry", "delete"}
    MaxRequests = 1
    Faults = {"crash", "redeliver", "error", "slow_item", "slow_batch"}
    MaxFaults = 1
    MaxCopies = 1
SYMMETRY WorkerSymmetry
SPECIFICATION Spec
INVARIANT TypeOK OneWorkerPerRound CompletedIsDone
CHECK_DEADLOCK FALSE
