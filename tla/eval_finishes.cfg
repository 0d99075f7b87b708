CONSTANTS
    NEvals = 1
    NItems = 2
    Workers = {w1, w2}
    Free = Free
    Orphan = Orphan
    MaxEvaluations = 1
    MaxProcessing = 1
    Ops = {}
    MaxRequests = 0
    Faults = {"crash", "redeliver", "error"}
    MaxFaults = 1
    MaxCopies = 1
SPECIFICATION FairSpec
INVARIANTS CompletedIsExact BatchesExclusive
PROPERTY EvaluationFinishes
CHECK_DEADLOCK FALSE
