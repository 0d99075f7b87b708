----------------------------- MODULE MCSearchFlow -----------------------------
(***************************************************************************)
(* Small graphs, with and without cycles, and searches of two kinds.       *)
(***************************************************************************)
EXTENDS SearchFlow

Doc(text, recall, score) == [text |-> text, recall |-> recall, score |-> score]

Image(text, score, asset, method) ==
    [text |-> text, recall |-> "vision_search", score |-> score, asset |-> asset, method |-> method]

\* Graph search returns one document without a score.
MCHits(kind) ==
    IF kind = "graph_search" THEN {<<Doc("t3", kind, 0)>>, <<Doc("t1", kind, 0)>>}
    ELSE {<<Doc("t1", kind, 1), Doc("t2", kind, 1)>>, <<Doc("t2", kind, 2), Doc("t1", kind, 0)>>}

\* The embedding of an image is stored without a text.
MCVisionHits ==
    LET images == {Image("t1", 2, "a1", "vision_to_text"), Image("", 1, "a1", "multimodal_embedding"),
                   Image("", 0, "a2", "multimodal_embedding")}
    IN {<<a, b>> : a, b \in images}

MCDocuments ==
    UNION {Range(docs) : docs \in MCVisionHits \cup UNION {MCHits(s) : s \in Searches \ {"vision_search"}}}

MCRequests == {{"vector_search", "graph_search"}, {"vector_search", "fulltext_search"}, {"vision_search"}}

Graph(N, E, U) == [nodes |-> N, edges |-> E, uses |-> U]

\* The empty graph, every graph of three nodes, two chains of two with any edges between, two nodes that
\* refer to each other with or without an edge, and a node nobody can run.
MCFlows ==
    SearchFlows
        \cup {Graph({}, {}, {})}
        \cup {Graph({"p1", "p2", "p3"}, E, {}) : E \in SUBSET ({"p1", "p2", "p3"} \X {"p1", "p2", "p3"})}
        \cup {Graph({"p1", "p2", "p3", "p4"}, E \cup {<<"p1", "p2">>, <<"p3", "p4">>}, {}) :
                E \in SUBSET {<<"p1", "p3">>, <<"p1", "p4">>, <<"p2", "p3">>, <<"p2", "p4">>}}
        \cup {Graph({"p1", "p2"}, E, {<<"p2", "p1">>}) : E \in SUBSET {<<"p1", "p2">>, <<"p2", "p1">>}}
        \cup {Graph({"p1", "p5"}, E, {}) : E \in SUBSET {<<"p1", "p5">>, <<"p5", "p1">>}}
===============================================================================
