CONSTANTS
    Collections = {c1}
    Bots = {b1}
    Documents = {d1, d2}
    Requests = {q1, q2}
    NoOne = NoOne
    Limits <- MCLimits
    PerCollection = 1
    NewLimits = {0}
    Ops = {"create", "delete", "upload", "add", "confirm", "remove", "expire", "recount", "limit"}
    MaxRequests = 3
SPECIFICATION FairSpec
INVARIANTS TypeOK CollectionFits
PROPERTIES KeepsLedger RequestsEnd
CHECK_DEADLOCK FALSE
