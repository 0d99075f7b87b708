CONSTANTS
    Collections = {c1}
    Requests = {q1}
    Reconcilers = {r1, r2}
    Tasks = {t1, t2}
    Nobody = Nobody
    MaxRequests = 2
    MaxFaults = 1
SPECIFICATION FairSpec
INVARIANTS TypeOK ClaimsHold
PROPERTIES DescribesTheSummary PendingIsClaimed
CHECK_DEADLOCK FALSE
