CONSTANTS
    IndexTypes = {VECTOR}
    ConfiguredTypes = {VECTOR}
    Reconcilers = {r1}
    Workers = {w1}
    NoOne = NoOne
    Sessions = {s1, s2}
    Ops = {"confirm", "rebuild", "rebuild_failed", "delete", "expire"}
    InitialDocs = {"UPLOADED", "PENDING"}
    MaxRetries = 1
    MaxRequests = 2
    MaxFaults = 1
SPECIFICATION FairSpec
INVARIANT UnconfirmedNeverActive
PROPERTIES OnlyCurrentActivates CallbacksRespectDeletion PendingIsPickedUp TasksEnd
CHECK_DEADLOCK FALSE
