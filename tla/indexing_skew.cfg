CONSTANTS
    IndexTypes = {VECTOR, FULLTEXT}
    ConfiguredTypes = {VECTOR, FULLTEXT}
    Reconcilers = {r1}
    Workers = {w1, w2}
    NoOne = NoOne
    Sessions = {s1}
    Ops = {"confirm"}
    InitialDocs = {"UPLOADED"}
    MaxRetries = 0
    MaxRequests = 1
    MaxFaults = 0
SPECIFICATION Spec
INVARIANT AllBuiltIsComplete
CHECK_DEADLOCK FALSE
