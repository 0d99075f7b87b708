CONSTANTS
    Nodes = {"vector_search", "fulltext_search", "graph_search", "vision_search", "merge", "rerank", "p1", "p2", "p3", "p4", "p5"}
    Unregistered = {"p5"}
    NoOutput = NoOutput
    Flows <- MCFlows
    Run <- RunSearch
    MayRaise <- SearchMayRaise
    Documents <- MCDocuments
    Hits <- MCHits
    VisionHits <- MCVisionHits
    TopK = 1
    Requests <- MCRequests
SPECIFICATION FairSpec
INVARIANTS TypeOK InputsReady OnlyCyclesRefused EndedIsComplete SearchAnswers FallbackOrders ImagesOnce SearchBinds
PROPERTIES NothingStartsAfterFailure FlowEnds
CHECK_DEADLOCK FALSE
