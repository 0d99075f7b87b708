CONSTANTS
    d1 = d1
    d2 = d2
    c1 = c1
    c2 = c2
    shared = shared
    x = x
    y = y
    z = z
    Docs = {d1, d2}
    Chunks = {c1, c2, shared}
    Entities = {x, y, z}
    Workers = {w1, w2}
    Nobody = Nobody
    ChunksOf <- TwoDocuments
    Mentions <- SomeMentions
    Relations <- SomeRelations
    MaxTasks = 3
    MaxFaults = 2
SPECIFICATION Spec
INVARIANTS TypeOK NothingLeftBehind Represented EndpointsExist LocksAreHeld
CHECK_DEADLOCK FALSE
