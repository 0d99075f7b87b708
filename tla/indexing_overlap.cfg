CONSTANTS
    IndexTypes = {VECTOR}
    ConfiguredTypes = {VECTOR}
    Reconcilers = {r1, r2}
    Workers = {w1, w2}
    NoOne = NoOne
    Sessions = {s1}
    Ops = {"rebuild", "delete"}
    InitialDocs = {"PENDING"}
    MaxRetries = 0
    MaxRequests = 2
    MaxFaults = 1
SPECIFICATION Spec
INVARIANTS TypeOK ClaimedOncePerRequest CreateClaimExact
PROPERTY OnlyCurrentActivates
CHECK_DEADLOCK FALSE
SYMMETRY ActorSymmetry
