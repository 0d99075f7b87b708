------------------------------ MODULE SearchFlow ------------------------------
(***************************************************************************)
(* The flow that a search of a collection runs on the engine: the searches *)
(* the request asks for, side by side, then the merge of what they found,  *)
(* then its reranking by a model or, without one, by the order of recall   *)
(* and score.                                                              *)
(***************************************************************************)
EXTENDS FlowEngine, Functions

CONSTANTS
    Documents,      \* what a search may find
    Hits(_),        \* the lists of documents a kind of search may find
    Requests,       \* the sets of searches a request may ask for
    VisionHits,     \* the lists of images the vector store may find
    TopK            \* top_k of the vision search

Searches == {"vector_search", "fulltext_search", "graph_search", "summary_search", "vision_search"}

ASSUME RequestsAssumption == Requests \subseteq SUBSET Searches

\* The documents that have an asset and a method as well.
Images == {d \in Documents : d.recall = "vision_search"}

ASSUME DocumentsAssumption ==
    /\ \A d \in Documents : d.score \in Int
    /\ \A d \in Images : d.method \in {"vision_to_text", "multimodal_embedding"}
    /\ \A search \in Searches \ {"vision_search"} : Hits(search) \subseteq Seq(Documents)
    /\ VisionHits \subseteq Seq(Images)
    /\ NoOutput \notin Seq(Documents)

\* Mutant: the rerank node is not connected with the merge.
FlowUnconnected(request) ==
    LET edges == request \X {"merge"}
    IN [nodes |-> request \cup {"merge", "rerank"},
        edges |-> edges,
        uses |-> {<<e[2], e[1]>> : e \in edges \cup {<<"merge", "rerank">>}}]

\* execute_search_flow: the flow of a request.
FlowOf(request) ==
    LET edges == (request \X {"merge"}) \cup {<<"merge", "rerank">>}
    IN [nodes |-> request \cup {"merge", "rerank"},
        edges |-> edges,
        uses |-> {<<e[2], e[1]>> : e \in edges}]

SearchFlows == {FlowOf(request) : request \in Requests}

-----------------------------------------------------------------------------
(* Lists, as Python's comprehensions and sorts make them                   *)

\* The entries of a list at the indices I, the first of each pair of R before
\* the second.
Arranged(list, I, R) ==
    [k \in 1..Cardinality(I) |-> list[CHOOSE i \in I : Cardinality({j \in I : <<j, i>> \in R}) = k - 1]]

\* The entries at the indices I, in the order of the list.
Kept(list, I) == Arranged(list, I, {p \in I \X I : p[1] < p[2]})

-----------------------------------------------------------------------------
(* The runners.  A document is [text, recall, score].                      *)

Texts(docs) == {docs[i].text : i \in DOMAIN docs}

\* Mutant: a document is dropped when the one before it has its text.
UniqueNeighbours(docs) == Kept(docs, {i \in DOMAIN docs : i > 1 => docs[i - 1].text # docs[i].text})

\* MergeNodeRunner keeps the first document of each text.
Unique(docs) == Kept(docs, {i \in DOMAIN docs : \A j \in 1..(i - 1) : docs[j].text # docs[i].text})

Found(f, outs) ==
    LET docs(search) == IF search \in f.nodes THEN outs[search] ELSE <<>>
    IN docs("vector_search") \o docs("fulltext_search") \o docs("graph_search")
           \o docs("summary_search") \o docs("vision_search")

Merge(f, outs) == Unique(Found(f, outs))

\* Mutant: sorted in ascending order.
ByScoreAscending(docs) ==
    LET places == DOMAIN docs
        before(i, j) == docs[i].score < docs[j].score \/ (docs[i].score = docs[j].score /\ i < j)
    IN Arranged(docs, places, {p \in places \X places : before(p[1], p[2])})

\* list.sort(reverse=True) keeps the order of equal scores.
ByScore(docs) ==
    LET places == DOMAIN docs
        before(i, j) == docs[i].score > docs[j].score \/ (docs[i].score = docs[j].score /\ i < j)
    IN Arranged(docs, places, {p \in places \X places : before(p[1], p[2])})

\* _apply_fallback_strategy
Fallback(docs) ==
    LET graph == {i \in DOMAIN docs : docs[i].recall = "graph_search"}
    IN Kept(docs, graph) \o ByScore(Kept(docs, DOMAIN docs \ graph))

\* The service answers with indices, of which none is given twice.
Reranked(docs) ==
    UNION {{[i \in 1..k |-> docs[p[i]]] : p \in Injection(1..k, DOMAIN docs)} : k \in 0..Len(docs)}

\* Mutant: nothing is removed.
BothMethods(docs) == docs

\* _deduplicate_vision_results: an image found by its description is not also
\* returned for its embedding.  An image is a document with asset and method.
OneMethodEach(docs) ==
    LET described == {i \in DOMAIN docs : docs[i].method = "vision_to_text"}
    IN Kept(docs, {i \in DOMAIN docs : i \in described \/ \A j \in described : docs[i].asset # docs[j].asset})

\* top_k is doubled for the query; the cut of the answer to top_k comes when
\* it has been doubled and cuts nothing.
VisionSearch == {<<>>} \cup {OneMethodEach(docs) : docs \in {d \in VisionHits : Len(d) <= 2 * TopK}}

\* Every error of the service ends in the fallback.
Rerank(docs) == {Fallback(docs)} \cup Reranked(docs)

\* Without the collection every search finds nothing.  An error in a vector,
\* summary or vision search ends in nothing found as well.
VectorSearch == {<<>>} \cup Hits("vector_search")

SummarySearch == {<<>>} \cup Hits("summary_search")

FulltextSearch == {<<>>} \cup Hits("fulltext_search")

\* The context of the query, as one document without a score.
GraphSearch == {<<>>} \cup {docs \in Hits("graph_search") : Len(docs) = 1 /\ docs[1].score = 0}

RunSearch(f, n, outs) ==
    IF f \notin SearchFlows THEN {<<>>}
    ELSE CASE n = "vector_search" -> VectorSearch
           [] n = "fulltext_search" -> FulltextSearch
           [] n = "graph_search" -> GraphSearch
           [] n = "summary_search" -> SummarySearch
           [] n = "vision_search" -> VisionSearch
           [] n = "merge" -> {Merge(f, outs)}
           [] n = "rerank" -> Rerank(outs["merge"])

\* The searches query the collection outside of any handler, and fulltext and
\* graph search handle nothing; reranking falls back on every exception.
SearchMayRaise(f, n) == f \in SearchFlows => n \notin {"merge", "rerank"}

-----------------------------------------------------------------------------
(* Properties                                                              *)

Ended == phase = "ended" /\ flow \in SearchFlows

AllFound == UNION {Texts(output[s]) : s \in flow.nodes \ {"merge", "rerank"}}

\* What the searches found comes back: the merge holds every text exactly
\* once, and the answer nothing that nobody found (MergeNodeRunner,
\* RerankNodeRunner).
SearchAnswers ==
    Ended =>
        /\ Texts(output["merge"]) = AllFound
        /\ \A i, j \in DOMAIN output["merge"] :
             i < j => output["merge"][i].text # output["merge"][j].text
        /\ Range(output["rerank"]) \subseteq Range(output["merge"])
        /\ Len(output["rerank"]) <= Len(output["merge"])

\* Without a reranking model nothing is lost and nothing worse comes before
\* something better: graph results first, the others by falling score, and
\* equals in the order of the merge (_apply_fallback_strategy).
FallbackOrders ==
    Ended =>
        LET docs == output["merge"]
            answer == Fallback(docs)
            at(d) == CHOOSE i \in DOMAIN docs : docs[i] = d
            better(a, b) ==
                IF (a.recall = "graph_search") # (b.recall = "graph_search") THEN a.recall = "graph_search"
                ELSE IF a.recall = "graph_search" \/ a.score = b.score THEN at(a) < at(b)
                ELSE a.score > b.score
        IN /\ Len(answer) = Len(docs) /\ Range(answer) = Range(docs)
           /\ \A i, j \in DOMAIN answer : i < j => better(answer[i], answer[j])

\* No image comes back both for its description and for its embedding, in
\* whatever order the store lists them (_deduplicate_vision_results).
ImagesOnce ==
    Ended /\ "vision_search" \in flow.nodes =>
        LET docs == output["vision_search"] IN
        \A i, j \in DOMAIN docs : docs[i].asset = docs[j].asset => docs[i].method = docs[j].method

\* A search never fails because of an input that is not there yet: its edges
\* put every output before the node that refers to it.
SearchBinds == flow \in SearchFlows => \A n \in flow.nodes : n \in group /\ node[n] = "waiting" => Bound(n)
===============================================================================
