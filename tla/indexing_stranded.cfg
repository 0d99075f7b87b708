CONSTANTS
    IndexTypes = {VECTOR}
    ConfiguredTypes = {VECTOR}
    Reconcilers = {r1}
    Workers = {w1}
    NoOne = NoOne
    Sessions = {s1}
    Ops = {"delete"}
    InitialDocs = {"PENDING"}
    MaxRetries = 0
    MaxRequests = 1
    MaxFaults = 0
SPECIFICATION FairSpec
PROPERTY DeletionResolves
CHECK_DEADLOCK FALSE
