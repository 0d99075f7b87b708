CONSTANTS
    Collections = {c1}
    Requests = {q1}
    Reconcilers = {r1}
    Tasks = {t1}
    Nobody = Nobody
    MaxRequests = 1
    MaxFaults = 0
SPECIFICATION FairSpec
PROPERTIES RequestedIsGenerated
CHECK_DEADLOCK FALSE
