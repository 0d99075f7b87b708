------------------------------ MODULE GraphIndex ------------------------------
(***************************************************************************)
(* The knowledge graph of one collection: the rows of chunks, nodes, edges *)
(* and of the vectors of entities and relations, built document by         *)
(* document (LightRAG's ainsert_and_chunk_document, aprocess_graph_indexing *)
(* and the merges of operate.py) and taken back (adelete_by_doc_id) by the *)
(* threads of one worker process.                                          *)
(*                                                                         *)
(* A node, an edge or a vector is modelled by its sources, the chunks it   *)
(* was extracted from; it exists while it has one.  What the model finds   *)
(* in a chunk is an input that a rebuild finds again.                      *)
(*                                                                         *)
(* Granularity.  Every call of a storage is a step (it is awaited, and a   *)
(* transaction of its own), but that a deletion reads the graph in one     *)
(* step: it reads node by node, which differs only when others write, and  *)
(* what is claimed of deletions is claimed of those that run alone.        *)
(***************************************************************************)
EXTENDS Integers, FiniteSets

CONSTANTS
    Docs,
    Chunks,          \* names of chunks: the hash of their text
    Entities,
    Workers,         \* threads that run graph tasks of the collection
    Nobody,
    ChunksOf(_),     \* the chunks of a document; documents may share one
    Mentions(_),     \* the entities extracted from a chunk
    Relations(_),    \* the pairs of entities related by a chunk
    MaxTasks,        \* bound: tasks in a behaviour
    MaxFaults        \* bound: tasks that fail or are killed, removals that fail in silence

ASSUME BoundAssumption == MaxTasks \in Nat /\ MaxFaults \in Nat
ASSUME NobodyAssumption ==
    Nobody \notin Docs \cup Workers \cup Entities \cup UNION {Relations(c) : c \in Chunks}
ASSUME DocumentAssumption == \A d \in Docs : ChunksOf(d) # {} /\ ChunksOf(d) \subseteq Chunks
ASSUME ExtractionAssumption ==
    \A c \in Chunks : /\ Mentions(c) \subseteq Entities
                      /\ \A p \in Relations(c) : p \subseteq Entities /\ Cardinality(p) = 2

VARIABLES
    chunk,           \* the document each chunk's row names; Nobody when there is no row
    node, edge,      \* sources in the graph storage
    entityVector, relationVector,    \* sources in the vector storage
    lock,            \* who holds the lock of an entity or of a relation
    worker,          \* local state of each thread
    tasks,           \* tasks so far
    faults,          \* faults so far
    lost,            \* history: entities whose vector a storage failed to drop, in silence,
                     \* since it was last written by a build
    built,           \* history: documents whose chunks are merged, by builds that ended well
    overlapped       \* history: a deletion has run while another task did

store == <<chunk, node, edge, entityVector, relationVector, lost>>
vars == <<store, lock, worker, tasks, faults, built, overlapped>>

-----------------------------------------------------------------------------
Pairs == UNION {Relations(c) : c \in Chunks}

\* The last four fields are what a deletion is about to write: pairs of an
\* item and its new sources.
Idle == [phase |-> "idle", doc |-> Nobody, rest |-> {}, entities |-> {}, edges |-> {},
         item |-> Nobody, sources |-> {}, ends |-> {}, end |-> Nobody, gone |-> {},
         entityWrites |-> {}, relationWrites |-> {}, nodeWrites |-> {}, edgeWrites |-> {}]

Init ==
    /\ chunk = [c \in Chunks |-> Nobody]
    /\ node = [e \in Entities |-> {}] /\ entityVector = [e \in Entities |-> {}]
    /\ edge = [p \in Pairs |-> {}] /\ relationVector = [p \in Pairs |-> {}]
    /\ lock = [x \in Entities \cup Pairs |-> Nobody]
    /\ worker = [w \in Workers |-> Idle]
    /\ tasks = 0 /\ faults = 0
    /\ lost = {} /\ built = {} /\ overlapped = FALSE

\* What a document's chunks name, and where.
Mentioned(d) == UNION {Mentions(c) : c \in ChunksOf(d)}
Related(d) == UNION {Relations(c) : c \in ChunksOf(d)}
EntitySources(d, e) == {c \in ChunksOf(d) : e \in Mentions(c)}
EdgeSources(d, p) == {c \in ChunksOf(d) : p \in Relations(c)}

\* _find_connected_components: what is reached from an entity by relations.
Closed(d, S) == \A p \in Related(d) : p \cap S # {} => p \subseteq S

Component(d, e) == {x \in Entities : \A S \in SUBSET Entities : e \in S /\ Closed(d, S) => x \in S}

Components(d) == {Component(d, e) : e \in Mentioned(d) \cup UNION Related(d)}

-----------------------------------------------------------------------------
(* Tasks                                                                   *)

Others(w) == {v \in Workers \ {w} : worker[v].phase # "idle"}

Start(w, d, phase) ==
    /\ worker[w].phase = "idle" /\ tasks < MaxTasks
    /\ tasks' = tasks + 1
    /\ worker' = [worker EXCEPT ![w] = [Idle EXCEPT !.phase = phase, !.doc = d]]
    /\ UNCHANGED <<store, lock, faults>>

Deleting(v) == worker[v].phase \in {"select", "scan", "entityVectors", "relationVectors", "dropNodes",
                                    "nodes", "dropEdges", "edges", "chunks"}

StartBuild(w) ==
    /\ \E d \in Docs : Start(w, d, "insert")
    /\ overlapped' = (overlapped \/ \E v \in Others(w) : Deleting(v))
    /\ UNCHANGED built

StartDeletion(w) ==
    \E d \in Docs :
        /\ Start(w, d, "select")
        /\ overlapped' = (overlapped \/ Others(w) # {})
        /\ built' = built \ {d}

\* Mutant: the lock is not released on the way out.
LeaveWith(w) == worker' = [worker EXCEPT ![w] = Idle] /\ UNCHANGED lock

\* The locks are context managers: they are released however the task ends.
Leave(w) ==
    /\ worker' = [worker EXCEPT ![w] = Idle]
    /\ lock' = [x \in DOMAIN lock |-> IF lock[x] = w THEN Nobody ELSE lock[x]]

\* The model, a storage or the process fails; what was written stays.
Fail(w) ==
    /\ worker[w].phase # "idle" /\ faults < MaxFaults
    /\ faults' = faults + 1
    /\ Leave(w)
    /\ UNCHANGED <<store, tasks, built, overlapped>>

-----------------------------------------------------------------------------
(* Building                                                                *)

\* The rows of the chunks name the document that was built last.  A chunk may
\* have gone with another document: then this one has to be built again.
InsertChunks(w) ==
    LET d == worker[w].doc IN
    /\ worker[w].phase = "insert"
    /\ chunk' = [c \in Chunks |-> IF c \in ChunksOf(d) THEN d ELSE chunk[c]]
    /\ worker' = [worker EXCEPT ![w] = [worker[w] EXCEPT !.phase = "merge", !.rest = Components(d)]]
    /\ built' = IF \A c \in ChunksOf(d) : chunk[c] \in built THEN built ELSE built \ {d}
    /\ UNCHANGED <<node, edge, entityVector, relationVector, lost, lock, tasks, faults, overlapped>>

\* One component at a time (the semaphore has one permit).
NextComponent(w) ==
    LET d == worker[w].doc IN
    /\ worker[w].phase = "merge" /\ worker[w].entities = {} /\ worker[w].edges = {}
    /\ \E component \in worker[w].rest :
          worker' = [worker EXCEPT ![w] = [worker[w] EXCEPT !.rest = @ \ {component},
                       !.entities = component \cap Mentioned(d),
                       !.edges = {p \in Related(d) : p \subseteq component}]]
    /\ UNCHANGED <<store, lock, tasks, faults, built, overlapped>>

FinishBuild(w) ==
    /\ worker[w].phase = "merge"
    /\ worker[w].rest = {} /\ worker[w].entities = {} /\ worker[w].edges = {}
    /\ built' = built \cup {worker[w].doc}
    /\ Leave(w)
    /\ UNCHANGED <<store, tasks, faults, overlapped>>

\* _merge_nodes_then_upsert reads the node, adds its sources ...
ReadNode(w) ==
    \E e \in worker[w].entities :
        /\ worker[w].phase = "merge"
        /\ lock[e] = Nobody
        /\ lock' = [lock EXCEPT ![e] = w]
        /\ worker' = [worker EXCEPT ![w] = [worker[w] EXCEPT !.phase = "writeNode", !.entities = @ \ {e}, !.item = e,
                        !.sources = node[e] \cup EntitySources(worker[w].doc, e)]]
        /\ UNCHANGED <<store, tasks, faults, built, overlapped>>

\* ... and replaces it.
WriteNode(w) ==
    /\ worker[w].phase = "writeNode"
    /\ node' = [node EXCEPT ![worker[w].item] = worker[w].sources]
    /\ worker' = [worker EXCEPT ![w] = [worker[w] EXCEPT !.phase = "writeEntityVector"]]
    /\ UNCHANGED <<chunk, edge, entityVector, relationVector, lost, lock, tasks, faults, built, overlapped>>

Unlock(w) ==
    /\ lock' = [lock EXCEPT ![worker[w].item] = Nobody]
    /\ worker' = [worker EXCEPT ![w] = [worker[w] EXCEPT !.phase = "merge", !.item = Nobody, !.sources = {}]]

WriteEntityVector(w) ==
    /\ worker[w].phase = "writeEntityVector"
    /\ entityVector' = [entityVector EXCEPT ![worker[w].item] = worker[w].sources]
    /\ lost' = lost \ {worker[w].item}
    /\ Unlock(w)
    /\ UNCHANGED <<chunk, node, edge, relationVector, tasks, faults, built, overlapped>>

\* Mutant: the relation is read and written under no lock.
ReadEdgeUnlocked(w) ==
    \E p \in worker[w].edges :
        /\ worker[w].phase = "merge" /\ worker[w].entities = {}
        /\ worker' = [worker EXCEPT ![w] = [worker[w] EXCEPT !.phase = "checkNode", !.edges = @ \ {p}, !.item = p,
                        !.sources = edge[p] \cup EdgeSources(worker[w].doc, p), !.ends = p]]
        /\ UNCHANGED <<store, lock, tasks, faults, built, overlapped>>

\* Mutant: the endpoint's own name is stored as its source.
CreateNodeSelf(w) ==
    /\ worker[w].phase = "createNode"
    /\ node' = [node EXCEPT ![worker[w].end] = {worker[w].end}]
    /\ worker' = [worker EXCEPT ![w] = [worker[w] EXCEPT !.phase = "checkNode", !.end = Nobody]]
    /\ UNCHANGED <<chunk, edge, entityVector, relationVector, lost, lock, tasks, faults, built, overlapped>>

\* _merge_edges_then_upsert
ReadEdge(w) ==
    \E p \in worker[w].edges :
        /\ worker[w].phase = "merge" /\ worker[w].entities = {}
        /\ lock[p] = Nobody
        /\ lock' = [lock EXCEPT ![p] = w]
        /\ worker' = [worker EXCEPT ![w] = [worker[w] EXCEPT !.phase = "checkNode", !.edges = @ \ {p}, !.item = p,
                        !.sources = edge[p] \cup EdgeSources(worker[w].doc, p), !.ends = p]]
        /\ UNCHANGED <<store, tasks, faults, built, overlapped>>

\* An endpoint that is no node is made one, under the lock of the relation
\* only: it is looked for ...
CheckNode(w) ==
    /\ worker[w].phase = "checkNode"
    /\ \/ /\ worker[w].ends = {}
          /\ worker' = [worker EXCEPT ![w] = [worker[w] EXCEPT !.phase = "writeEdge"]]
       \/ \E e \in worker[w].ends :
             worker' = [worker EXCEPT ![w] = IF node[e] # {} THEN [worker[w] EXCEPT !.ends = @ \ {e}]
                          ELSE [worker[w] EXCEPT !.phase = "createNode", !.ends = @ \ {e}, !.end = e]]
    /\ UNCHANGED <<store, lock, tasks, faults, built, overlapped>>

\* ... and written with the sources of the relation.
CreateNode(w) ==
    /\ worker[w].phase = "createNode"
    /\ node' = [node EXCEPT ![worker[w].end] = worker[w].sources]
    /\ worker' = [worker EXCEPT ![w] = [worker[w] EXCEPT !.phase = "checkNode", !.end = Nobody]]
    /\ UNCHANGED <<chunk, edge, entityVector, relationVector, lost, lock, tasks, faults, built, overlapped>>

WriteEdge(w) ==
    /\ worker[w].phase = "writeEdge"
    /\ edge' = [edge EXCEPT ![worker[w].item] = worker[w].sources]
    /\ worker' = [worker EXCEPT ![w] = [worker[w] EXCEPT !.phase = "writeRelationVector"]]
    /\ UNCHANGED <<chunk, node, entityVector, relationVector, lost, lock, tasks, faults, built, overlapped>>

WriteRelationVector(w) ==
    /\ worker[w].phase = "writeRelationVector"
    /\ relationVector' = [relationVector EXCEPT ![worker[w].item] = worker[w].sources]
    /\ Unlock(w)
    /\ UNCHANGED <<chunk, node, edge, entityVector, lost, tasks, faults, built, overlapped>>

-----------------------------------------------------------------------------
(* Deleting: what is to be written is worked out first, under no lock      *)

\* The row of a shared chunk names one document: it goes with that one.
Owned(d) == {c \in Chunks : chunk[c] = d}

\* Mutant: the chunks go first.
SelectAndDelete(w) ==
    LET gone == Owned(worker[w].doc) IN
    /\ worker[w].phase = "select"
    /\ chunk' = [c \in Chunks |-> IF c \in gone THEN Nobody ELSE chunk[c]]
    /\ worker' = [worker EXCEPT ![w] =
                    IF gone = {} THEN Idle ELSE [worker[w] EXCEPT !.phase = "scan", !.gone = gone]]
    /\ UNCHANGED <<node, edge, entityVector, relationVector, lost, lock, tasks, faults, built, overlapped>>

SelectChunks(w) ==
    LET gone == Owned(worker[w].doc) IN
    /\ worker[w].phase = "select"
    /\ worker' = [worker EXCEPT ![w] =
                    IF gone = {} THEN Idle ELSE [worker[w] EXCEPT !.phase = "scan", !.gone = gone]]
    /\ UNCHANGED <<store, lock, tasks, faults, built, overlapped>>

\* Only vectors that lose a source are written; every node and edge is.
Touched(sources, gone) == {<<x, sources[x] \ gone>> : x \in {y \in DOMAIN sources : sources[y] \cap gone # {}}}
Present(sources, gone) == {<<x, sources[x] \ gone>> : x \in {y \in DOMAIN sources : sources[y] # {}}}

\* An edge is found from the nodes.
Reachable(edges) == [p \in {q \in DOMAIN edges : \E e \in q : node[e] # {}} |-> edges[p]]

ScanVectorsAndGraph(w) ==
    LET gone == worker[w].gone IN
    /\ worker[w].phase = "scan"
    /\ worker' = [worker EXCEPT ![w] = [worker[w] EXCEPT !.phase = "entityVectors",
                    !.entityWrites = Touched(entityVector, gone),
                    !.relationWrites = Touched(relationVector, gone),
                    !.nodeWrites = Present(node, gone),
                    !.edgeWrites = Present(Reachable(edge), gone)]]
    /\ UNCHANGED <<store, lock, tasks, faults, built, overlapped>>

Dropped(writes) == {x \in writes : x[2] = {}}

\* The rows of f after the writes: those that are not there stay away when
\* only present ones are updated.
Written(f, writes) == [x \in DOMAIN f |-> IF \E u \in writes : u[1] = x
                                          THEN (CHOOSE u \in writes : u[1] = x)[2] ELSE f[x]]

Updated(f, writes) == Written(f, {u \in writes : f[u[1]] # {}})

\* Entities are dropped from the vectors one by one, updated together.
WriteEntityVectors(w) ==
    LET writes == worker[w].entityWrites  drops == Dropped(writes) IN
    /\ worker[w].phase = "entityVectors"
    /\ \/ \E u \in drops :
             /\ entityVector' = Written(entityVector, {u})
             /\ worker' = [worker EXCEPT ![w] = [worker[w] EXCEPT !.entityWrites = @ \ {u}]]
       \/ /\ drops = {}
          /\ entityVector' = Written(entityVector, writes)
          /\ worker' = [worker EXCEPT ![w] = [worker[w] EXCEPT !.phase = "relationVectors", !.entityWrites = {}]]
    /\ UNCHANGED <<chunk, node, edge, relationVector, lost, lock, tasks, faults, built, overlapped>>

\* PGOpsSyncVectorStorage.delete_entity logs whatever its DELETE raises and
\* returns: the vector stays and the deletion goes on.
LoseEntityVector(w) ==
    \E u \in Dropped(worker[w].entityWrites) :
        /\ worker[w].phase = "entityVectors" /\ faults < MaxFaults
        /\ faults' = faults + 1
        /\ lost' = lost \cup {u[1]}
        /\ worker' = [worker EXCEPT ![w] = [worker[w] EXCEPT !.entityWrites = @ \ {u}]]
        /\ UNCHANGED <<chunk, node, edge, entityVector, relationVector, lock, tasks, built, overlapped>>

\* Relations are dropped together, and updated together.
WriteRelationVectors(w) ==
    LET writes == worker[w].relationWrites  drops == Dropped(writes) IN
    /\ worker[w].phase = "relationVectors"
    /\ IF drops # {}
       THEN /\ relationVector' = Written(relationVector, drops)
            /\ worker' = [worker EXCEPT ![w] = [worker[w] EXCEPT !.relationWrites = writes \ drops]]
       ELSE /\ relationVector' = Written(relationVector, writes)
            /\ worker' = [worker EXCEPT ![w] = [worker[w] EXCEPT !.phase = "dropNodes", !.relationWrites = {}]]
    /\ UNCHANGED <<chunk, node, edge, entityVector, lost, lock, tasks, faults, built, overlapped>>

\* Mutant: the edges of the nodes stay.
DropNodesOnly(w) ==
    LET drops == Dropped(worker[w].nodeWrites) IN
    /\ worker[w].phase = "dropNodes"
    /\ node' = Written(node, drops)
    /\ worker' = [worker EXCEPT ![w] = [worker[w] EXCEPT !.phase = "nodes", !.nodeWrites = @ \ drops]]
    /\ UNCHANGED <<chunk, edge, entityVector, relationVector, lost, lock, tasks, faults, built, overlapped>>

\* remove_nodes: the edges of a node go with it.
DropNodes(w) ==
    LET drops == Dropped(worker[w].nodeWrites)  names == {u[1] : u \in drops} IN
    /\ worker[w].phase = "dropNodes"
    /\ node' = Written(node, drops)
    /\ edge' = [p \in DOMAIN edge |-> IF p \cap names # {} THEN {} ELSE edge[p]]
    /\ worker' = [worker EXCEPT ![w] = [worker[w] EXCEPT !.phase = "nodes", !.nodeWrites = @ \ drops]]
    /\ UNCHANGED <<chunk, entityVector, relationVector, lost, lock, tasks, faults, built, overlapped>>

\* Each node that is still there gets the sources worked out before.
UpdateNodes(w) ==
    LET writes == worker[w].nodeWrites IN
    /\ worker[w].phase = "nodes"
    /\ IF writes = {} THEN worker' = [worker EXCEPT ![w] = [worker[w] EXCEPT !.phase = "dropEdges"]] /\ UNCHANGED node
       ELSE \E u \in writes :
               /\ node' = Updated(node, {u})
               /\ worker' = [worker EXCEPT ![w] = [worker[w] EXCEPT !.nodeWrites = @ \ {u}]]
    /\ UNCHANGED <<chunk, edge, entityVector, relationVector, lost, lock, tasks, faults, built, overlapped>>

DropEdges(w) ==
    LET drops == Dropped(worker[w].edgeWrites) IN
    /\ worker[w].phase = "dropEdges"
    /\ edge' = Written(edge, drops)
    /\ worker' = [worker EXCEPT ![w] = [worker[w] EXCEPT !.phase = "edges", !.edgeWrites = @ \ drops]]
    /\ UNCHANGED <<chunk, node, entityVector, relationVector, lost, lock, tasks, faults, built, overlapped>>

UpdateEdges(w) ==
    LET writes == worker[w].edgeWrites IN
    /\ worker[w].phase = "edges"
    /\ IF writes = {} THEN worker' = [worker EXCEPT ![w] = [worker[w] EXCEPT !.phase = "chunks"]] /\ UNCHANGED edge
       ELSE \E u \in writes :
               /\ edge' = Updated(edge, {u})
               /\ worker' = [worker EXCEPT ![w] = [worker[w] EXCEPT !.edgeWrites = @ \ {u}]]
    /\ UNCHANGED <<chunk, node, entityVector, relationVector, lost, lock, tasks, faults, built, overlapped>>

\* Last, so that a deletion that failed can be run again.
DeleteChunks(w) ==
    /\ worker[w].phase = "chunks"
    /\ chunk' = [c \in Chunks |-> IF c \in worker[w].gone THEN Nobody ELSE chunk[c]]
    /\ Leave(w)
    /\ UNCHANGED <<node, edge, entityVector, relationVector, lost, tasks, faults, built, overlapped>>

-----------------------------------------------------------------------------
BuildStep(w) ==
    \/ InsertChunks(w) \/ NextComponent(w) \/ FinishBuild(w)
    \/ ReadNode(w) \/ WriteNode(w) \/ WriteEntityVector(w)
    \/ ReadEdge(w) \/ CheckNode(w) \/ CreateNode(w) \/ WriteEdge(w) \/ WriteRelationVector(w)

DeletionStep(w) ==
    \/ SelectChunks(w) \/ ScanVectorsAndGraph(w)
    \/ WriteEntityVectors(w) \/ LoseEntityVector(w) \/ WriteRelationVectors(w)
    \/ DropNodes(w) \/ UpdateNodes(w) \/ DropEdges(w) \/ UpdateEdges(w) \/ DeleteChunks(w)

Next ==
    \E w \in Workers :
        \/ StartBuild(w) \/ StartDeletion(w) \/ Fail(w)
        \/ BuildStep(w) \/ DeletionStep(w)

Spec == Init /\ [][Next]_vars

-----------------------------------------------------------------------------
(* Properties                                                              *)

TypeOK ==
    /\ chunk \in [Chunks -> Docs \cup {Nobody}]
    /\ node \in [Entities -> SUBSET Chunks] /\ entityVector \in [Entities -> SUBSET Chunks]
    /\ edge \in [Pairs -> SUBSET Chunks] /\ relationVector \in [Pairs -> SUBSET Chunks]
    /\ lock \in [Entities \cup Pairs -> Workers \cup {Nobody}]
    /\ \A w \in Workers : worker[w].doc \in Docs \cup {Nobody} /\ worker[w].sources \subseteq Chunks
    /\ built \subseteq Docs /\ lost \subseteq Entities

\* Nothing in the graph and no vector is left of a chunk that is gone, whatever
\* a build or an earlier deletion left when it failed, as long as deletions run
\* alone (adelete_by_doc_id, ainsert_and_chunk_document).  What is left is the
\* vector of an entity whose removal has failed in silence, until a build of
\* that entity writes it again.
NothingLeftBehind ==
    ~overlapped =>
        \A c \in Chunks : chunk[c] = Nobody =>
            /\ \A e \in Entities : c \notin node[e] /\ (e \notin lost => c \notin entityVector[e])
            /\ \A p \in Pairs : c \notin edge[p] \cup relationVector[p]

\* An entity the model names in every chunk that relates it to another.
AlwaysNamed(e) == \A c \in Chunks : e \in UNION Relations(c) => e \in Mentions(c)

Shown(c, entities, pairs) ==
    /\ \A e \in Mentions(c) \cap entities : c \in node[e] \cap entityVector[e]
    /\ \A p \in Relations(c) \cap pairs : c \in edge[p] \cap relationVector[p]

\* What a chunk says of entities that are named with their relations is in
\* the graph and in the vectors, once its document is built and until that is
\* deleted or has to be built again, whichever builds run at the same time and
\* whichever documents are deleted before and after (the locks of
\* _merge_nodes_and_edges_impl).
Represented ==
    ~overlapped =>
        LET named == {e \in Entities : AlwaysNamed(e)} IN
        \A c \in Chunks : chunk[c] \in built => Shown(c, named, {p \in Pairs : p \subseteq named})

\* The ends of an edge are nodes (_merge_edges_then_upsert, remove_nodes).
EndpointsExist ==
    ~overlapped => \A p \in Pairs : edge[p] # {} => \A e \in p : node[e] # {}

\* A lock has a holder that is at work on what it guards, and who works on a
\* node or an edge to merge has its lock: no failure leaves one behind for
\* which every later build would poll (ThreadingLock, get_or_create_lock).
LocksAreHeld ==
    /\ \A x \in DOMAIN lock : lock[x] # Nobody => worker[lock[x]].item = x
    /\ \A w \in Workers : worker[w].item # Nobody => lock[worker[w].item] = w
===============================================================================
