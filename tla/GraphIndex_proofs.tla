--------------------------- MODULE GraphIndex_proofs ---------------------------
(***************************************************************************)
(* Theorems about GraphIndex, for any documents, chunks and workers, and   *)
(* whatever is found in the chunks.                                        *)
(***************************************************************************)
EXTENDS GraphIndex, FiniteSetTheorems, TLAPS

MergingNode == {"writeNode", "writeEntityVector"}

MergingEdge == {"checkNode", "createNode", "writeEdge", "writeRelationVector"}

Phases ==
    {"idle", "insert", "merge", "select", "scan", "entityVectors", "relationVectors", "dropNodes", "nodes",
     "dropEdges", "edges", "chunks"} \cup MergingNode \cup MergingEdge

WorkerStates ==
    [phase : Phases, doc : Docs \cup {Nobody}, rest : SUBSET UNION {Components(d) : d \in Docs},
     entities : SUBSET Entities, edges : SUBSET Pairs, item : Entities \cup Pairs \cup {Nobody},
     sources : SUBSET Chunks, ends : SUBSET Entities, end : Entities \cup {Nobody}, gone : SUBSET Chunks,
     entityWrites : SUBSET (Entities \X SUBSET Chunks), relationWrites : SUBSET (Pairs \X SUBSET Chunks),
     nodeWrites : SUBSET (Entities \X SUBSET Chunks), edgeWrites : SUBSET (Pairs \X SUBSET Chunks)]

\* What a worker is at work on belongs to its phase.
Fine(s) ==
    /\ s \in WorkerStates
    /\ s.phase # "idle" => s.doc \in Docs
    /\ s.phase \in MergingNode => s.item \in Entities
    /\ s.phase \in MergingEdge => s.item \in Pairs
    /\ s.phase = "createNode" => s.end \in Entities
    /\ s.phase \notin MergingNode \cup MergingEdge => s.item = Nobody

Stored ==
    /\ chunk \in [Chunks -> Docs \cup {Nobody}]
    /\ node \in [Entities -> SUBSET Chunks] /\ entityVector \in [Entities -> SUBSET Chunks]
    /\ edge \in [Pairs -> SUBSET Chunks] /\ relationVector \in [Pairs -> SUBSET Chunks]
    /\ lost \subseteq Entities

Working ==
    /\ lock \in [Entities \cup Pairs -> Workers \cup {Nobody}]
    /\ worker \in [Workers -> WorkerStates] /\ \A w \in Workers : Fine(worker[w])
    /\ LocksAreHeld

IInv == Stored /\ Working /\ built \subseteq Docs

-----------------------------------------------------------------------------
(* What a chunk names, and the initial states                              *)

LEMMA Names ==
    /\ \A w \in Workers : w # Nobody
    /\ \A x \in Entities \cup Pairs : x # Nobody
    /\ \A p \in Pairs : p \subseteq Entities
    /\ \A d \in Docs : ChunksOf(d) \subseteq Chunks /\ Mentioned(d) \subseteq Entities /\ Related(d) \subseteq Pairs
BY NobodyAssumption, DocumentAssumption, ExtractionAssumption DEF Pairs, Mentioned, Related

LEMMA IdleFine == Fine(Idle) /\ Idle.phase = "idle" /\ Idle.item = Nobody
<1>1. Idle \in WorkerStates
  BY DEF Idle, WorkerStates, Phases
<1>2. QED
  BY <1>1 DEF Idle, Fine, MergingNode, MergingEdge

LEMMA Beginning == Init => IInv
<1>1. SUFFICES ASSUME Init PROVE IInv
  OBVIOUS
<1>2. Stored /\ built \subseteq Docs
  BY <1>1 DEF Init, Stored
<1>3. Working
  BY <1>1, IdleFine, Names DEF Init, Working, LocksAreHeld, Fine
<1>4. QED
  BY <1>2, <1>3 DEF IInv

-----------------------------------------------------------------------------
(* The worker and its locks                                                *)

\* A worker goes on with what it has.
LEMMA Moving ==
    ASSUME Working, NEW w \in Workers, NEW s, Fine(s), worker' = [worker EXCEPT ![w] = s],
           s.item = worker[w].item, lock' = lock
    PROVE  Working'
<1>1. worker' \in [Workers -> WorkerStates] /\ \A v \in Workers : Fine(worker'[v])
  BY DEF Working, Fine
<1>2. \A v \in Workers : worker'[v].item = worker[v].item
  BY DEF Working
<1>3. \A x \in DOMAIN lock : lock[x] # Nobody => lock[x] \in Workers
  BY DEF Working
<1>4. LocksAreHeld'
  BY <1>2, <1>3 DEF Working, LocksAreHeld
<1>5. QED
  BY <1>1, <1>4 DEF Working

\* A worker that has no lock takes one that is free.
LEMMA Taking ==
    ASSUME Working, NEW w \in Workers, NEW s, Fine(s), worker' = [worker EXCEPT ![w] = s],
           worker[w].item = Nobody, s.item \in Entities \cup Pairs,
           lock[s.item] = Nobody, lock' = [lock EXCEPT ![s.item] = w]
    PROVE  Working'
<1>1. worker' \in [Workers -> WorkerStates] /\ \A v \in Workers : Fine(worker'[v])
  BY DEF Working, Fine
<1>2. lock' \in [Entities \cup Pairs -> Workers \cup {Nobody}]
  BY DEF Working
<1>3. \A x \in Entities \cup Pairs : lock[x] # w
  BY Names DEF Working, LocksAreHeld
<1>4. ASSUME NEW x \in Entities \cup Pairs, lock'[x] # Nobody
      PROVE  worker'[lock'[x]].item = x
  <2>1. CASE x = s.item
    BY <2>1 DEF Working
  <2>2. CASE x # s.item
    BY <1>3, <1>4, <2>2 DEF Working, LocksAreHeld
  <2>3. QED
    BY <2>1, <2>2
<1>5. ASSUME NEW v \in Workers, worker'[v].item # Nobody
      PROVE  lock'[worker'[v].item] = v
  <2>1. CASE v = w
    BY <2>1 DEF Working
  <2>2. CASE v # w
    <3>1. worker'[v] = worker[v] /\ lock[worker[v].item] = v
      BY <1>5, <2>2 DEF Working, LocksAreHeld
    <3>2. worker[v].item # s.item
      BY <3>1, Names
    <3>3. worker[v].item \in Entities \cup Pairs
      BY <1>5, <3>1 DEF Working, WorkerStates
    <3>4. QED
      BY <3>1, <3>2, <3>3 DEF Working
  <2>3. QED
    BY <2>1, <2>2
<1>6. QED
  BY <1>1, <1>2, <1>4, <1>5 DEF Working, LocksAreHeld

\* A worker gives its lock up, or leaves with whatever it has.
LEMMA Freeing ==
    ASSUME Working, NEW w \in Workers, NEW s, Fine(s), worker' = [worker EXCEPT ![w] = s], s.item = Nobody,
           lock' \in [Entities \cup Pairs -> Workers \cup {Nobody}],
           \A x \in Entities \cup Pairs : lock'[x] = IF lock[x] = w THEN Nobody ELSE lock[x]
    PROVE  Working'
<1>1. worker' \in [Workers -> WorkerStates] /\ \A v \in Workers : Fine(worker'[v])
  BY DEF Working, Fine
<1>2. ASSUME NEW x \in Entities \cup Pairs, lock'[x] # Nobody
      PROVE  worker'[lock'[x]].item = x
  BY <1>2 DEF Working, LocksAreHeld
<1>3. ASSUME NEW v \in Workers, worker'[v].item # Nobody
      PROVE  lock'[worker'[v].item] = v
  <2>1. v # w /\ worker'[v] = worker[v] /\ lock[worker[v].item] = v
    BY <1>3 DEF Working, LocksAreHeld
  <2>2. worker[v].item \in Entities \cup Pairs
    BY <1>3, <2>1 DEF Working, WorkerStates
  <2>3. QED
    BY <2>1, <2>2
<1>4. QED
  BY <1>1, <1>2, <1>3 DEF Working, LocksAreHeld

LEMMA Leaving ==
    ASSUME Working, NEW w \in Workers, Leave(w)
    PROVE  Working'
<1>1. worker' = [worker EXCEPT ![w] = Idle] /\ lock' = [x \in Entities \cup Pairs |-> IF lock[x] = w THEN Nobody ELSE lock[x]]
  BY DEF Leave, Working
<1>2. lock' \in [Entities \cup Pairs -> Workers \cup {Nobody}]
  BY <1>1 DEF Working
<1>3. QED
  BY <1>1, <1>2, IdleFine, Freeing

LEMMA Unlocking ==
    ASSUME Working, NEW w \in Workers, Unlock(w), worker[w].phase \in {"writeEntityVector", "writeRelationVector"}
    PROVE  Working'
<1> DEFINE s == [worker[w] EXCEPT !.phase = "merge", !.item = Nobody, !.sources = {}]
<1>1. worker' = [worker EXCEPT ![w] = s] /\ lock' = [lock EXCEPT ![worker[w].item] = Nobody]
  BY DEF Unlock
<1>2. Fine(worker[w]) /\ worker[w].item \in Entities \cup Pairs /\ lock[worker[w].item] = w
  BY Names DEF Working, Fine, MergingNode, MergingEdge, LocksAreHeld
<1>3. s \in WorkerStates /\ s.phase = "merge" /\ s.item = Nobody /\ s.doc = worker[w].doc
  BY <1>2 DEF Fine, WorkerStates, Phases
<1>4. Fine(s)
  BY <1>2, <1>3 DEF Fine, MergingNode, MergingEdge
<1>5. \A x \in Entities \cup Pairs : lock[x] = w => x = worker[w].item
  BY Names DEF Working, LocksAreHeld
<1>6. /\ lock' \in [Entities \cup Pairs -> Workers \cup {Nobody}]
      /\ \A x \in Entities \cup Pairs : lock'[x] = IF lock[x] = w THEN Nobody ELSE lock[x]
  BY <1>1, <1>2, <1>5 DEF Working
<1>7. QED
  BY <1>1, <1>3, <1>4, <1>6, Freeing

\* A worker that has work stays on it: what it holds, and the kind of phase
\* it is in, do not change.
LEMMA Proceeding ==
    ASSUME Working, NEW w \in Workers, NEW s \in WorkerStates, worker' = [worker EXCEPT ![w] = s], lock' = lock,
           worker[w].phase # "idle", s.doc = worker[w].doc, s.item = worker[w].item,
           \/ worker[w].phase \notin MergingNode \cup MergingEdge /\ s.phase \notin MergingNode \cup MergingEdge
           \/ worker[w].phase \in MergingNode /\ s.phase \in MergingNode
           \/ /\ worker[w].phase \in MergingEdge /\ s.phase \in MergingEdge
              /\ s.phase = "createNode" => s.end \in Entities
    PROVE  Working'
<1>1. Fine(worker[w])
  BY DEF Working
<1>2. Fine(s)
  BY <1>1 DEF Fine, MergingNode, MergingEdge
<1>3. QED
  BY <1>2, Moving

LEMMA WrittenTyped ==
    ASSUME NEW S, NEW f \in [S -> SUBSET Chunks], NEW writes \in SUBSET (S \X SUBSET Chunks)
    PROVE  Written(f, writes) \in [S -> SUBSET Chunks]
<1>1. ASSUME NEW x \in S, \E u \in writes : u[1] = x
      PROVE  (CHOOSE u \in writes : u[1] = x)[2] \in SUBSET Chunks
  <2>1. (CHOOSE u \in writes : u[1] = x) \in writes
    BY <1>1
  <2>2. QED
    BY <2>1
<1>2. QED
  BY <1>1 DEF Written

LEMMA UpdatedTyped ==
    ASSUME NEW S, NEW f \in [S -> SUBSET Chunks], NEW writes \in SUBSET (S \X SUBSET Chunks)
    PROVE  Updated(f, writes) \in [S -> SUBSET Chunks]
<1>1. {u \in writes : f[u[1]] # {}} \in SUBSET (S \X SUBSET Chunks)
  OBVIOUS
<1>2. QED
  BY <1>1, WrittenTyped DEF Updated

LEMMA PlansTyped ==
    ASSUME NEW S, NEW f \in [S -> SUBSET Chunks], NEW gone \in SUBSET Chunks
    PROVE  /\ Touched(f, gone) \in SUBSET (S \X SUBSET Chunks)
           /\ Present(f, gone) \in SUBSET (S \X SUBSET Chunks)
BY DEF Touched, Present

-----------------------------------------------------------------------------
(* The actions                                                             *)

LEMMA Starting ==
    ASSUME IInv, NEW w \in Workers, NEW d \in Docs, NEW phase \in {"insert", "select"}, Start(w, d, phase)
    PROVE  Stored' /\ Working'
<1> DEFINE s == [Idle EXCEPT !.phase = phase, !.doc = d]
<1>1. worker' = [worker EXCEPT ![w] = s] /\ lock' = lock /\ Stored' /\ worker[w].phase = "idle"
  BY DEF Start, store, IInv, Stored
<1>2. s \in WorkerStates /\ s.phase = phase /\ s.doc = d /\ s.item = Nobody
  BY IdleFine DEF Fine, WorkerStates, Phases
<1>3. Fine(s)
  BY <1>2 DEF Fine, MergingNode, MergingEdge
<1>4. worker[w].item = Nobody
  BY <1>1 DEF IInv, Working, Fine, MergingNode, MergingEdge
<1>5. Working'
  BY <1>1, <1>2, <1>3, <1>4, Moving DEF IInv
<1>6. QED
  BY <1>1, <1>5

LEMMA Tasks ==
    ASSUME IInv, NEW w \in Workers, StartBuild(w) \/ StartDeletion(w) \/ Fail(w)
    PROVE  IInv'
<1>1. CASE StartBuild(w)
  BY <1>1, Starting DEF StartBuild, IInv
<1>2. CASE StartDeletion(w)
  BY <1>2, Starting DEF StartDeletion, IInv
<1>3. CASE Fail(w)
  <2>1. Working'
    BY <1>3, Leaving DEF Fail, IInv
  <2>2. QED
    BY <1>3, <2>1 DEF Fail, IInv, Stored, store
<1>4. QED
  BY <1>1, <1>2, <1>3

LEMMA Opening ==
    ASSUME IInv, NEW w \in Workers, InsertChunks(w) \/ NextComponent(w) \/ FinishBuild(w)
    PROVE  IInv'
<1>1. Fine(worker[w]) /\ worker[w] \in WorkerStates
  BY DEF IInv, Working, Fine
<1>2. CASE InsertChunks(w)
  <2> DEFINE s == [worker[w] EXCEPT !.phase = "merge", !.rest = Components(worker[w].doc)]
  <2>1. worker' = [worker EXCEPT ![w] = s] /\ lock' = lock /\ worker[w].phase = "insert"
    BY <1>2 DEF InsertChunks
  <2>2. worker[w].doc \in Docs
    BY <1>1, <2>1 DEF Fine
  <2>3. Components(worker[w].doc) \in SUBSET UNION {Components(d) : d \in Docs}
    BY <2>2
  <2>4. s \in WorkerStates
    BY <1>1, <2>3 DEF WorkerStates, Phases
  <2>5. s.phase = "merge" /\ s.doc = worker[w].doc /\ s.item = worker[w].item
    BY <1>1 DEF WorkerStates
  <2>6. Working'
    BY <2>1, <2>4, <2>5, Proceeding DEF IInv, MergingNode, MergingEdge
  <2>7. Stored' /\ built' \subseteq Docs
    BY <1>2, <2>2 DEF InsertChunks, IInv, Stored
  <2>8. QED
    BY <2>6, <2>7 DEF IInv
<1>3. CASE NextComponent(w)
  <2>1. PICK component \in worker[w].rest :
          worker' = [worker EXCEPT ![w] = [worker[w] EXCEPT !.rest = @ \ {component},
                       !.entities = component \cap Mentioned(worker[w].doc),
                       !.edges = {p \in Related(worker[w].doc) : p \subseteq component}]]
    BY <1>3 DEF NextComponent
  <2> DEFINE s == [worker[w] EXCEPT !.rest = @ \ {component},
                       !.entities = component \cap Mentioned(worker[w].doc),
                       !.edges = {p \in Related(worker[w].doc) : p \subseteq component}]
  <2>2. worker[w].phase = "merge" /\ lock' = lock
    BY <1>3 DEF NextComponent
  <2>3. worker[w].doc \in Docs
    BY <1>1, <2>2 DEF Fine
  <2>4. component \cap Mentioned(worker[w].doc) \in SUBSET Entities
    BY <2>3, Names
  <2>5. {p \in Related(worker[w].doc) : p \subseteq component} \in SUBSET Pairs
    BY <2>3, Names
  <2>6. s \in WorkerStates
    BY <1>1, <2>4, <2>5 DEF WorkerStates
  <2>7. s.phase = "merge" /\ s.doc = worker[w].doc /\ s.item = worker[w].item
    BY <1>1, <2>2 DEF WorkerStates
  <2>8. Working'
    BY <2>1, <2>2, <2>6, <2>7, Proceeding DEF IInv, MergingNode, MergingEdge
  <2>9. QED
    BY <1>3, <2>8 DEF NextComponent, store, IInv, Stored
<1>4. CASE FinishBuild(w)
  <2>1. worker[w].doc \in Docs
    BY <1>1, <1>4 DEF FinishBuild, Fine
  <2>2. Working'
    BY <1>4, Leaving DEF FinishBuild, IInv
  <2>3. QED
    BY <1>4, <2>1, <2>2 DEF FinishBuild, IInv, Stored, store
<1>5. QED
  BY <1>2, <1>3, <1>4

LEMMA Merging ==
    ASSUME IInv, NEW w \in Workers, ReadNode(w) \/ WriteNode(w) \/ WriteEntityVector(w)
    PROVE  IInv'
<1>1. Fine(worker[w]) /\ worker[w] \in WorkerStates
  BY DEF IInv, Working, Fine
<1>2. CASE ReadNode(w)
  <2>1. PICK e \in worker[w].entities :
          /\ lock[e] = Nobody /\ lock' = [lock EXCEPT ![e] = w]
          /\ worker' = [worker EXCEPT ![w] = [worker[w] EXCEPT !.phase = "writeNode", !.entities = @ \ {e}, !.item = e,
                          !.sources = node[e] \cup EntitySources(worker[w].doc, e)]]
    BY <1>2 DEF ReadNode
  <2> DEFINE s == [worker[w] EXCEPT !.phase = "writeNode", !.entities = @ \ {e}, !.item = e,
                       !.sources = node[e] \cup EntitySources(worker[w].doc, e)]
  <2>2. worker[w].phase = "merge" /\ worker[w].doc \in Docs /\ worker[w].item = Nobody
    BY <1>1, <1>2 DEF ReadNode, Fine, MergingNode, MergingEdge
  <2>3. e \in Entities
    BY <1>1 DEF WorkerStates
  <2>4. node[e] \cup EntitySources(worker[w].doc, e) \in SUBSET Chunks
    BY <2>2, <2>3, Names DEF IInv, Stored, EntitySources
  <2>5. s \in WorkerStates
    BY <1>1, <2>3, <2>4 DEF WorkerStates, Phases, MergingNode
  <2>6. s.phase = "writeNode" /\ s.doc = worker[w].doc /\ s.item = e
    BY <1>1 DEF WorkerStates
  <2>7. Fine(s)
    BY <2>2, <2>3, <2>5, <2>6 DEF Fine, MergingNode, MergingEdge
  <2>8. Working'
    BY <2>1, <2>2, <2>3, <2>6, <2>7, Taking DEF IInv
  <2>9. QED
    BY <1>2, <2>8 DEF ReadNode, store, IInv, Stored
<1>3. CASE WriteNode(w)
  <2> DEFINE s == [worker[w] EXCEPT !.phase = "writeEntityVector"]
  <2>1. worker' = [worker EXCEPT ![w] = s] /\ lock' = lock /\ worker[w].phase = "writeNode"
    BY <1>3 DEF WriteNode
  <2>2. s \in WorkerStates /\ s.phase = "writeEntityVector" /\ s.doc = worker[w].doc /\ s.item = worker[w].item
    BY <1>1 DEF WorkerStates, Phases, MergingNode
  <2>3. Working'
    BY <2>1, <2>2, Proceeding DEF IInv, MergingNode, MergingEdge
  <2>4. worker[w].sources \in SUBSET Chunks
    BY <1>1 DEF WorkerStates
  <2>5. QED
    BY <1>3, <2>3, <2>4 DEF WriteNode, IInv, Stored
<1>4. CASE WriteEntityVector(w)
  <2>1. Working'
    BY <1>4, Unlocking DEF WriteEntityVector, IInv
  <2>2. worker[w].sources \in SUBSET Chunks
    BY <1>1 DEF WorkerStates
  <2>3. QED
    BY <1>4, <2>1, <2>2 DEF WriteEntityVector, IInv, Stored
<1>5. QED
  BY <1>2, <1>3, <1>4

LEMMA Relating ==
    ASSUME IInv, NEW w \in Workers,
           ReadEdge(w) \/ CheckNode(w) \/ CreateNode(w) \/ WriteEdge(w) \/ WriteRelationVector(w)
    PROVE  IInv'
<1>1. Fine(worker[w]) /\ worker[w] \in WorkerStates /\ worker[w].sources \in SUBSET Chunks
  BY DEF IInv, Working, Fine, WorkerStates
<1>2. CASE ReadEdge(w)
  <2>1. PICK p \in worker[w].edges :
          /\ lock[p] = Nobody /\ lock' = [lock EXCEPT ![p] = w]
          /\ worker' = [worker EXCEPT ![w] = [worker[w] EXCEPT !.phase = "checkNode", !.edges = @ \ {p}, !.item = p,
                          !.sources = edge[p] \cup EdgeSources(worker[w].doc, p), !.ends = p]]
    BY <1>2 DEF ReadEdge
  <2> DEFINE s == [worker[w] EXCEPT !.phase = "checkNode", !.edges = @ \ {p}, !.item = p,
                       !.sources = edge[p] \cup EdgeSources(worker[w].doc, p), !.ends = p]
  <2>2. worker[w].phase = "merge" /\ worker[w].doc \in Docs /\ worker[w].item = Nobody
    BY <1>1, <1>2 DEF ReadEdge, Fine, MergingNode, MergingEdge
  <2>3. p \in Pairs /\ p \in SUBSET Entities
    BY <1>1, Names DEF WorkerStates
  <2>4. edge[p] \cup EdgeSources(worker[w].doc, p) \in SUBSET Chunks
    BY <2>2, <2>3, Names DEF IInv, Stored, EdgeSources
  <2>5. s \in WorkerStates
    BY <1>1, <2>3, <2>4 DEF WorkerStates, Phases, MergingEdge
  <2>6. s.phase = "checkNode" /\ s.doc = worker[w].doc /\ s.item = p
    BY <1>1 DEF WorkerStates
  <2>7. Fine(s)
    BY <2>2, <2>3, <2>5, <2>6 DEF Fine, MergingNode, MergingEdge
  <2>8. Working'
    BY <2>1, <2>2, <2>3, <2>6, <2>7, Taking DEF IInv
  <2>9. QED
    BY <1>2, <2>8 DEF ReadEdge, store, IInv, Stored
<1>3. CASE CheckNode(w)
  <2>1. worker[w].phase = "checkNode" /\ lock' = lock
    BY <1>3 DEF CheckNode
  <2>2. PICK s : /\ worker' = [worker EXCEPT ![w] = s] /\ s \in WorkerStates
                 /\ s.doc = worker[w].doc /\ s.item = worker[w].item
                 /\ s.phase \in MergingEdge /\ (s.phase = "createNode" => s.end \in Entities)
    <3>1. CASE worker' = [worker EXCEPT ![w] = [worker[w] EXCEPT !.phase = "writeEdge"]]
      <4> DEFINE s == [worker[w] EXCEPT !.phase = "writeEdge"]
      <4>1. s \in WorkerStates /\ s.doc = worker[w].doc /\ s.item = worker[w].item /\ s.phase = "writeEdge"
        BY <1>1 DEF WorkerStates, Phases, MergingEdge
      <4>2. QED
        BY <3>1, <4>1 DEF MergingEdge
    <3>2. ASSUME NEW e \in worker[w].ends, worker' = [worker EXCEPT ![w] = [worker[w] EXCEPT !.ends = @ \ {e}]]
          PROVE  \E s : /\ worker' = [worker EXCEPT ![w] = s] /\ s \in WorkerStates
                       /\ s.doc = worker[w].doc /\ s.item = worker[w].item
                       /\ s.phase \in MergingEdge /\ (s.phase = "createNode" => s.end \in Entities)
      <4> DEFINE s == [worker[w] EXCEPT !.ends = @ \ {e}]
      <4>1. s \in WorkerStates /\ s.doc = worker[w].doc /\ s.item = worker[w].item /\ s.phase = "checkNode"
        BY <1>1, <2>1 DEF WorkerStates
      <4>2. QED
        BY <3>2, <4>1 DEF MergingEdge
    <3>3. ASSUME NEW e \in worker[w].ends,
                 worker' = [worker EXCEPT ![w] = [worker[w] EXCEPT !.phase = "createNode", !.ends = @ \ {e}, !.end = e]]
          PROVE  \E s : /\ worker' = [worker EXCEPT ![w] = s] /\ s \in WorkerStates
                       /\ s.doc = worker[w].doc /\ s.item = worker[w].item
                       /\ s.phase \in MergingEdge /\ (s.phase = "createNode" => s.end \in Entities)
      <4> DEFINE s == [worker[w] EXCEPT !.phase = "createNode", !.ends = @ \ {e}, !.end = e]
      <4>1. s \in WorkerStates /\ s.doc = worker[w].doc /\ s.item = worker[w].item /\ s.phase = "createNode" /\ s.end \in Entities
        BY <1>1 DEF WorkerStates, Phases, MergingEdge
      <4>2. QED
        BY <3>3, <4>1 DEF MergingEdge
    <3>4. QED
      BY <1>3, <3>1, <3>2, <3>3 DEF CheckNode
  <2>3. Working'
    BY <2>1, <2>2, Proceeding DEF IInv, MergingNode, MergingEdge
  <2>4. QED
    BY <1>3, <2>3 DEF CheckNode, store, IInv, Stored
<1>4. CASE CreateNode(w)
  <2> DEFINE s == [worker[w] EXCEPT !.phase = "checkNode", !.end = Nobody]
  <2>1. worker' = [worker EXCEPT ![w] = s] /\ lock' = lock /\ worker[w].phase = "createNode"
    BY <1>4 DEF CreateNode
  <2>2. s \in WorkerStates /\ s.phase = "checkNode" /\ s.doc = worker[w].doc /\ s.item = worker[w].item
    BY <1>1 DEF WorkerStates, Phases, MergingEdge
  <2>3. Working'
    BY <2>1, <2>2, Proceeding DEF IInv, MergingNode, MergingEdge
  <2>4. QED
    BY <1>1, <1>4, <2>3 DEF CreateNode, IInv, Stored
<1>5. CASE WriteEdge(w)
  <2> DEFINE s == [worker[w] EXCEPT !.phase = "writeRelationVector"]
  <2>1. worker' = [worker EXCEPT ![w] = s] /\ lock' = lock /\ worker[w].phase = "writeEdge"
    BY <1>5 DEF WriteEdge
  <2>2. s \in WorkerStates /\ s.phase = "writeRelationVector" /\ s.doc = worker[w].doc /\ s.item = worker[w].item
    BY <1>1 DEF WorkerStates, Phases, MergingEdge
  <2>3. Working'
    BY <2>1, <2>2, Proceeding DEF IInv, MergingNode, MergingEdge
  <2>4. QED
    BY <1>1, <1>5, <2>3 DEF WriteEdge, IInv, Stored
<1>6. CASE WriteRelationVector(w)
  <2>1. Working'
    BY <1>6, Unlocking DEF WriteRelationVector, IInv
  <2>2. QED
    BY <1>1, <1>6, <2>1 DEF WriteRelationVector, IInv, Stored
<1>7. QED
  BY <1>2, <1>3, <1>4, <1>5, <1>6

LEMMA Planning ==
    ASSUME IInv, NEW w \in Workers, SelectChunks(w) \/ ScanVectorsAndGraph(w)
    PROVE  IInv'
<1>1. Fine(worker[w]) /\ worker[w] \in WorkerStates
  BY DEF IInv, Working, Fine
<1>2. CASE SelectChunks(w)
  <2>1. lock' = lock /\ worker[w].phase = "select" /\ Owned(worker[w].doc) \in SUBSET Chunks
    BY <1>2 DEF SelectChunks, Owned
  <2>2. worker[w].item = Nobody
    BY <1>1, <2>1 DEF Fine, MergingNode, MergingEdge
  <2>3. ASSUME worker' = [worker EXCEPT ![w] = Idle] PROVE Working'
    BY <2>1, <2>2, <2>3, IdleFine, Moving DEF IInv
  <2>4. ASSUME worker' = [worker EXCEPT ![w] = [worker[w] EXCEPT !.phase = "scan", !.gone = Owned(worker[w].doc)]]
        PROVE  Working'
    <3> DEFINE s == [worker[w] EXCEPT !.phase = "scan", !.gone = Owned(worker[w].doc)]
    <3>1. s \in WorkerStates /\ s.phase = "scan" /\ s.doc = worker[w].doc /\ s.item = worker[w].item
      BY <1>1, <2>1 DEF WorkerStates, Phases
    <3>2. QED
      BY <2>1, <2>4, <3>1, Proceeding DEF IInv, MergingNode, MergingEdge
  <2>5. Working'
    BY <1>2, <2>3, <2>4 DEF SelectChunks
  <2>6. QED
    BY <1>2, <2>5 DEF SelectChunks, store, IInv, Stored
<1>3. CASE ScanVectorsAndGraph(w)
  <2> DEFINE gone == worker[w].gone
             s == [worker[w] EXCEPT !.phase = "entityVectors",
                     !.entityWrites = Touched(entityVector, gone), !.relationWrites = Touched(relationVector, gone),
                     !.nodeWrites = Present(node, gone), !.edgeWrites = Present(Reachable(edge), gone)]
  <2>1. lock' = lock /\ worker[w].phase = "scan" /\ worker' = [worker EXCEPT ![w] = s]
    BY <1>3 DEF ScanVectorsAndGraph
  <2>2. gone \in SUBSET Chunks
    BY <1>1 DEF WorkerStates
  <2>3. /\ Touched(entityVector, gone) \in SUBSET (Entities \X SUBSET Chunks)
        /\ Touched(relationVector, gone) \in SUBSET (Pairs \X SUBSET Chunks)
        /\ Present(node, gone) \in SUBSET (Entities \X SUBSET Chunks)
    BY <2>2, PlansTyped DEF IInv, Stored
  <2> DEFINE reached == {q \in Pairs : \E e \in q : node[e] # {}}
  <2>4. Reachable(edge) \in [reached -> SUBSET Chunks]
    BY DEF Reachable, IInv, Stored
  <2>5. Present(Reachable(edge), gone) \in SUBSET (reached \X SUBSET Chunks)
    BY <2>2, <2>4, PlansTyped
  <2>6. Present(Reachable(edge), gone) \in SUBSET (Pairs \X SUBSET Chunks)
    BY <2>4, <2>5
  <2>7. s \in WorkerStates
    BY <1>1, <2>3, <2>6 DEF WorkerStates, Phases
  <2>8. s.phase = "entityVectors" /\ s.doc = worker[w].doc /\ s.item = worker[w].item
    BY <1>1 DEF WorkerStates
  <2>9. Working'
    BY <2>1, <2>7, <2>8, Proceeding DEF IInv, MergingNode, MergingEdge
  <2>10. QED
    BY <1>3, <2>9 DEF ScanVectorsAndGraph, store, IInv, Stored
<1>4. QED
  BY <1>2, <1>3

\* The phases of a deletion that writes.
Rewriting == {"entityVectors", "relationVectors", "dropNodes", "nodes", "dropEdges", "edges", "chunks"}

\* In all of them the worker goes on to another of them, with less to write.
LEMMA Rewrites ==
    ASSUME Working, NEW w \in Workers, NEW s \in WorkerStates, worker' = [worker EXCEPT ![w] = s], lock' = lock,
           worker[w].phase \in Rewriting, s.phase \in Rewriting, s.doc = worker[w].doc, s.item = worker[w].item
    PROVE  Working'
BY Proceeding DEF Rewriting, MergingNode, MergingEdge

LEMMA Vectors ==
    ASSUME IInv, NEW w \in Workers, WriteEntityVectors(w) \/ LoseEntityVector(w) \/ WriteRelationVectors(w)
    PROVE  IInv'
<1>1. worker[w] \in WorkerStates /\ Working
  BY DEF IInv, Working
<1>2. CASE WriteEntityVectors(w)
  <2> DEFINE writes == worker[w].entityWrites
  <2>1. lock' = lock /\ worker[w].phase = "entityVectors" /\ writes \in SUBSET (Entities \X SUBSET Chunks)
    BY <1>1, <1>2 DEF WriteEntityVectors, WorkerStates
  <2>2. ASSUME NEW u \in Dropped(writes), entityVector' = Written(entityVector, {u}),
               worker' = [worker EXCEPT ![w] = [worker[w] EXCEPT !.entityWrites = @ \ {u}]]
        PROVE  Working' /\ entityVector' \in [Entities -> SUBSET Chunks]
    <3> DEFINE s == [worker[w] EXCEPT !.entityWrites = @ \ {u}]
    <3>1. s \in WorkerStates /\ s.phase = "entityVectors" /\ s.doc = worker[w].doc /\ s.item = worker[w].item
      BY <1>1, <2>1 DEF WorkerStates
    <3>2. Working'
      BY <1>1, <2>1, <2>2, <3>1, Rewrites DEF Rewriting
    <3>3. {u} \in SUBSET (Entities \X SUBSET Chunks)
      BY <2>1 DEF Dropped
    <3>4. QED
      BY <2>2, <3>2, <3>3, WrittenTyped DEF IInv, Stored
  <2>3. ASSUME entityVector' = Written(entityVector, writes),
               worker' = [worker EXCEPT ![w] = [worker[w] EXCEPT !.phase = "relationVectors", !.entityWrites = {}]]
        PROVE  Working' /\ entityVector' \in [Entities -> SUBSET Chunks]
    <3> DEFINE s == [worker[w] EXCEPT !.phase = "relationVectors", !.entityWrites = {}]
    <3>1. s \in WorkerStates /\ s.phase = "relationVectors" /\ s.doc = worker[w].doc /\ s.item = worker[w].item
      BY <1>1 DEF WorkerStates, Phases
    <3>2. Working'
      BY <1>1, <2>1, <2>3, <3>1, Rewrites DEF Rewriting
    <3>3. QED
      BY <2>1, <2>3, <3>2, WrittenTyped DEF IInv, Stored
  <2>4. Working' /\ entityVector' \in [Entities -> SUBSET Chunks]
    BY <1>2, <2>2, <2>3 DEF WriteEntityVectors
  <2>5. QED
    BY <1>2, <2>4 DEF WriteEntityVectors, IInv, Stored
<1>3. CASE WriteRelationVectors(w)
  <2> DEFINE writes == worker[w].relationWrites
  <2>1. lock' = lock /\ worker[w].phase = "relationVectors" /\ writes \in SUBSET (Pairs \X SUBSET Chunks)
    BY <1>1, <1>3 DEF WriteRelationVectors, WorkerStates
  <2>2. ASSUME relationVector' = Written(relationVector, Dropped(writes)),
               worker' = [worker EXCEPT ![w] = [worker[w] EXCEPT !.relationWrites = writes \ Dropped(writes)]]
        PROVE  Working' /\ relationVector' \in [Pairs -> SUBSET Chunks]
    <3> DEFINE s == [worker[w] EXCEPT !.relationWrites = writes \ Dropped(writes)]
    <3>1. s \in WorkerStates /\ s.phase = "relationVectors" /\ s.doc = worker[w].doc /\ s.item = worker[w].item
      BY <1>1, <2>1 DEF WorkerStates
    <3>2. Working'
      BY <1>1, <2>1, <2>2, <3>1, Rewrites DEF Rewriting
    <3>3. Dropped(writes) \in SUBSET (Pairs \X SUBSET Chunks)
      BY <2>1 DEF Dropped
    <3>4. QED
      BY <2>2, <3>2, <3>3, WrittenTyped DEF IInv, Stored
  <2>3. ASSUME relationVector' = Written(relationVector, writes),
               worker' = [worker EXCEPT ![w] = [worker[w] EXCEPT !.phase = "dropNodes", !.relationWrites = {}]]
        PROVE  Working' /\ relationVector' \in [Pairs -> SUBSET Chunks]
    <3> DEFINE s == [worker[w] EXCEPT !.phase = "dropNodes", !.relationWrites = {}]
    <3>1. s \in WorkerStates /\ s.phase = "dropNodes" /\ s.doc = worker[w].doc /\ s.item = worker[w].item
      BY <1>1 DEF WorkerStates, Phases
    <3>2. Working'
      BY <1>1, <2>1, <2>3, <3>1, Rewrites DEF Rewriting
    <3>3. QED
      BY <2>1, <2>3, <3>2, WrittenTyped DEF IInv, Stored
  <2>4. Working' /\ relationVector' \in [Pairs -> SUBSET Chunks]
    BY <1>3, <2>2, <2>3 DEF WriteRelationVectors
  <2>5. QED
    BY <1>3, <2>4 DEF WriteRelationVectors, IInv, Stored
<1>4. CASE LoseEntityVector(w)
  <2> DEFINE writes == worker[w].entityWrites
  <2>1. PICK u \in Dropped(writes) :
          /\ worker' = [worker EXCEPT ![w] = [worker[w] EXCEPT !.entityWrites = @ \ {u}]]
          /\ lost' = lost \cup {u[1]}
    BY <1>4 DEF LoseEntityVector
  <2>2. lock' = lock /\ worker[w].phase = "entityVectors" /\ writes \in SUBSET (Entities \X SUBSET Chunks)
    BY <1>1, <1>4 DEF LoseEntityVector, WorkerStates
  <2> DEFINE s == [worker[w] EXCEPT !.entityWrites = @ \ {u}]
  <2>3. s \in WorkerStates /\ s.phase = "entityVectors" /\ s.doc = worker[w].doc /\ s.item = worker[w].item
    BY <1>1, <2>2 DEF WorkerStates
  <2>4. Working'
    BY <1>1, <2>1, <2>2, <2>3, Rewrites DEF Rewriting
  <2>5. u[1] \in Entities
    BY <2>2 DEF Dropped
  <2>6. QED
    BY <1>4, <2>1, <2>4, <2>5 DEF LoseEntityVector, IInv, Stored
<1>5. QED
  BY <1>2, <1>3, <1>4

LEMMA Nodes ==
    ASSUME IInv, NEW w \in Workers, DropNodes(w) \/ UpdateNodes(w)
    PROVE  IInv'
<1> DEFINE writes == worker[w].nodeWrites
<1>1. worker[w] \in WorkerStates /\ Working /\ writes \in SUBSET (Entities \X SUBSET Chunks)
  BY DEF IInv, Working, WorkerStates
<1>2. CASE DropNodes(w)
  <2> DEFINE s == [worker[w] EXCEPT !.phase = "nodes", !.nodeWrites = @ \ Dropped(writes)]
  <2>1. lock' = lock /\ worker[w].phase = "dropNodes" /\ worker' = [worker EXCEPT ![w] = s]
    BY <1>2 DEF DropNodes
  <2>2. s \in WorkerStates /\ s.phase = "nodes" /\ s.doc = worker[w].doc /\ s.item = worker[w].item
    BY <1>1 DEF WorkerStates, Phases
  <2>3. Working'
    BY <1>1, <2>1, <2>2, Rewrites DEF Rewriting
  <2>4. Dropped(writes) \in SUBSET (Entities \X SUBSET Chunks)
    BY <1>1 DEF Dropped
  <2>5. node' \in [Entities -> SUBSET Chunks]
    BY <1>2, <2>4, WrittenTyped DEF DropNodes, IInv, Stored
  <2>6. edge' \in [Pairs -> SUBSET Chunks]
    BY <1>2 DEF DropNodes, IInv, Stored
  <2>7. QED
    BY <1>2, <2>3, <2>5, <2>6 DEF DropNodes, IInv, Stored
<1>3. CASE UpdateNodes(w)
  <2>1. lock' = lock /\ worker[w].phase = "nodes"
    BY <1>3 DEF UpdateNodes
  <2>2. ASSUME worker' = [worker EXCEPT ![w] = [worker[w] EXCEPT !.phase = "dropEdges"]], node' = node
        PROVE  Working' /\ node' \in [Entities -> SUBSET Chunks]
    <3> DEFINE s == [worker[w] EXCEPT !.phase = "dropEdges"]
    <3>1. s \in WorkerStates /\ s.phase = "dropEdges" /\ s.doc = worker[w].doc /\ s.item = worker[w].item
      BY <1>1 DEF WorkerStates, Phases
    <3>2. Working'
      BY <1>1, <2>1, <2>2, <3>1, Rewrites DEF Rewriting
    <3>3. QED
      BY <2>2, <3>2 DEF IInv, Stored
  <2>3. ASSUME NEW u \in writes, node' = Updated(node, {u}),
               worker' = [worker EXCEPT ![w] = [worker[w] EXCEPT !.nodeWrites = @ \ {u}]]
        PROVE  Working' /\ node' \in [Entities -> SUBSET Chunks]
    <3> DEFINE s == [worker[w] EXCEPT !.nodeWrites = @ \ {u}]
    <3>1. s \in WorkerStates /\ s.phase = "nodes" /\ s.doc = worker[w].doc /\ s.item = worker[w].item
      BY <1>1, <2>1 DEF WorkerStates
    <3>2. Working'
      BY <1>1, <2>1, <2>3, <3>1, Rewrites DEF Rewriting
    <3>3. {u} \in SUBSET (Entities \X SUBSET Chunks)
      BY <1>1
    <3>4. QED
      BY <2>3, <3>2, <3>3, UpdatedTyped DEF IInv, Stored
  <2>4. Working' /\ node' \in [Entities -> SUBSET Chunks]
    BY <1>3, <2>2, <2>3 DEF UpdateNodes
  <2>5. QED
    BY <1>3, <2>4 DEF UpdateNodes, IInv, Stored
<1>4. QED
  BY <1>2, <1>3

LEMMA Edges ==
    ASSUME IInv, NEW w \in Workers, DropEdges(w) \/ UpdateEdges(w)
    PROVE  IInv'
<1> DEFINE writes == worker[w].edgeWrites
<1>1. worker[w] \in WorkerStates /\ Working /\ writes \in SUBSET (Pairs \X SUBSET Chunks)
  BY DEF IInv, Working, WorkerStates
<1>2. CASE DropEdges(w)
  <2> DEFINE s == [worker[w] EXCEPT !.phase = "edges", !.edgeWrites = @ \ Dropped(writes)]
  <2>1. lock' = lock /\ worker[w].phase = "dropEdges" /\ worker' = [worker EXCEPT ![w] = s]
    BY <1>2 DEF DropEdges
  <2>2. s \in WorkerStates /\ s.phase = "edges" /\ s.doc = worker[w].doc /\ s.item = worker[w].item
    BY <1>1 DEF WorkerStates, Phases
  <2>3. Working'
    BY <1>1, <2>1, <2>2, Rewrites DEF Rewriting
  <2>4. Dropped(writes) \in SUBSET (Pairs \X SUBSET Chunks)
    BY <1>1 DEF Dropped
  <2>5. edge' \in [Pairs -> SUBSET Chunks]
    BY <1>2, <2>4, WrittenTyped DEF DropEdges, IInv, Stored
  <2>6. QED
    BY <1>2, <2>3, <2>5 DEF DropEdges, IInv, Stored
<1>3. CASE UpdateEdges(w)
  <2>1. lock' = lock /\ worker[w].phase = "edges"
    BY <1>3 DEF UpdateEdges
  <2>2. ASSUME worker' = [worker EXCEPT ![w] = [worker[w] EXCEPT !.phase = "chunks"]], edge' = edge
        PROVE  Working' /\ edge' \in [Pairs -> SUBSET Chunks]
    <3> DEFINE s == [worker[w] EXCEPT !.phase = "chunks"]
    <3>1. s \in WorkerStates /\ s.phase = "chunks" /\ s.doc = worker[w].doc /\ s.item = worker[w].item
      BY <1>1 DEF WorkerStates, Phases
    <3>2. Working'
      BY <1>1, <2>1, <2>2, <3>1, Rewrites DEF Rewriting
    <3>3. QED
      BY <2>2, <3>2 DEF IInv, Stored
  <2>3. ASSUME NEW u \in writes, edge' = Updated(edge, {u}),
               worker' = [worker EXCEPT ![w] = [worker[w] EXCEPT !.edgeWrites = @ \ {u}]]
        PROVE  Working' /\ edge' \in [Pairs -> SUBSET Chunks]
    <3> DEFINE s == [worker[w] EXCEPT !.edgeWrites = @ \ {u}]
    <3>1. s \in WorkerStates /\ s.phase = "edges" /\ s.doc = worker[w].doc /\ s.item = worker[w].item
      BY <1>1, <2>1 DEF WorkerStates
    <3>2. Working'
      BY <1>1, <2>1, <2>3, <3>1, Rewrites DEF Rewriting
    <3>3. {u} \in SUBSET (Pairs \X SUBSET Chunks)
      BY <1>1
    <3>4. QED
      BY <2>3, <3>2, <3>3, UpdatedTyped DEF IInv, Stored
  <2>4. Working' /\ edge' \in [Pairs -> SUBSET Chunks]
    BY <1>3, <2>2, <2>3 DEF UpdateEdges
  <2>5. QED
    BY <1>3, <2>4 DEF UpdateEdges, IInv, Stored
<1>4. QED
  BY <1>2, <1>3

LEMMA Closing ==
    ASSUME IInv, NEW w \in Workers, DeleteChunks(w)
    PROVE  IInv'
<1>1. Working'
  BY Leaving DEF DeleteChunks, IInv
<1>2. chunk' \in [Chunks -> Docs \cup {Nobody}]
  BY DEF DeleteChunks, IInv, Stored
<1>3. QED
  BY <1>1, <1>2 DEF DeleteChunks, IInv, Stored

-----------------------------------------------------------------------------
LEMMA Invariance ==
    ASSUME IInv, [Next]_vars
    PROVE  IInv'
<1>1. CASE UNCHANGED vars
  BY <1>1 DEF vars, store, IInv, Stored, Working, LocksAreHeld
<1>2. ASSUME NEW w \in Workers, BuildStep(w)
      PROVE  IInv'
  BY <1>2, Opening, Merging, Relating DEF BuildStep
<1>3. ASSUME NEW w \in Workers, DeletionStep(w)
      PROVE  IInv'
  BY <1>3, Planning, Vectors, Nodes, Edges, Closing DEF DeletionStep
<1>4. QED
  BY <1>1, <1>2, <1>3, Tasks DEF Next

LEMMA Inductive == Spec => []IInv
BY Beginning, Invariance, PTL DEF Spec

\* The rows, the vectors, the locks and the threads hold what they may hold,
\* however builds, deletions and failures interleave.
THEOREM TypeCorrect == Spec => []TypeOK
<1>1. IInv => TypeOK
  BY DEF IInv, Stored, Working, WorkerStates, TypeOK
<1>2. QED
  BY <1>1, Inductive, PTL

\* Every lock of an entity or of a relation is held by the one thread that
\* merges into it, and is given up however its task ends
\* (_merge_nodes_and_edges_impl, ThreadingLock).
THEOREM LocksHeld == Spec => []LocksAreHeld
<1>1. IInv => LocksAreHeld
  BY DEF IInv, Working
<1>2. QED
  BY <1>1, Inductive, PTL

-----------------------------------------------------------------------------
(* What the stores hold: nothing of a chunk that is gone, everything of    *)
(* one that is built, and both ends of every edge, for any documents,      *)
(* chunks and workers, whatever is found in the chunks.                    *)


Named == {e \in Entities : AlwaysNamed(e)}

\* Chunks that have a row.
Rows == {c \in Chunks : chunk[c] # Nobody}

\* The vectors of entities as they would be if every removal took effect.
Known == [e \in Entities |-> IF e \in lost THEN {} ELSE entityVector[e]]

\* The writes to such vectors.
Sound(writes, gaps) == {u \in writes : u[1] \notin gaps}

LEMMA KnownTyped == IInv => Known \in [Entities -> SUBSET Chunks]
BY DEF IInv, Stored, Known

Live(f, rows) == \A x \in DOMAIN f : f[x] \subseteq rows

Seen(e) == node[e] \cap Known[e]

Drawn(p) == edge[p] \cap relationVector[p]

\* A row names a document the chunk is of, and is shown once that is built.
Homes == \A c \in Chunks : chunk[c] # Nobody => c \in ChunksOf(chunk[c])

Display(c) ==
    /\ \A e \in Mentions(c) \cap Named : c \in Seen(e)
    /\ \A p \in Relations(c) : p \subseteq Named => c \in Drawn(p)

Ends == \A p \in Pairs : edge[p] # {} => \A e \in p : node[e] # {}

Contents ==
    /\ Live(node, Rows) /\ Live(Known, Rows) /\ Live(edge, Rows) /\ Live(relationVector, Rows)
    /\ Ends /\ Homes
    /\ \A c \in Chunks : chunk[c] \in built => Display(c)

-----------------------------------------------------------------------------
(* What a build has still to do                                            *)

\* A relation comes after the entities that are named with it.
Found(s) ==
    /\ ChunksOf(s.doc) \subseteq Rows /\ s.entities \subseteq Mentioned(s.doc) /\ s.edges \subseteq Related(s.doc)
    /\ \A p \in s.edges : \A e \in p \cap Named :
          node[e] # {} \/ e \in s.entities \/ (s.phase \in MergingNode /\ e = s.item)

Merges(s) ==
    s.phase \in MergingNode =>
        /\ s.sources # {} /\ s.sources \subseteq Rows
        /\ s.item \in Named => /\ node[s.item] \subseteq s.sources
                               /\ s.phase = "writeEntityVector" => s.sources \subseteq node[s.item]

Links(s) ==
    s.phase \in MergingEdge =>
        /\ s.sources # {} /\ s.sources \subseteq Rows /\ edge[s.item] \subseteq s.sources
        /\ s.phase = "writeRelationVector" => s.sources \subseteq edge[s.item]
        /\ s.entities = {} /\ s.ends \subseteq s.item
        /\ \A e \in s.item : node[e] # {} \/ e \in s.ends \/ (s.phase = "createNode" /\ e = s.end)
        /\ \A e \in s.item \cap Named : node[e] # {}
        /\ s.phase = "createNode" => s.end \in s.item /\ s.end \notin Named
        /\ s.phase \in {"writeEdge", "writeRelationVector"} => s.ends = {}

\* What a chunk says is stored, or is still to come.
Covered(s, c) ==
    /\ \A e \in Mentions(c) \cap Named :
          \/ c \in Seen(e) \/ e \in s.entities \/ e \in UNION s.rest
          \/ s.phase \in MergingNode /\ e = s.item /\ c \in s.sources
    /\ \A p \in Relations(c) : p \subseteq Named =>
          \/ c \in Drawn(p) \/ p \in s.edges \/ \E component \in s.rest : p \subseteq component
          \/ s.phase \in MergingEdge /\ p = s.item /\ c \in s.sources

Builds(s) ==
    /\ s.phase = "insert" => s.entities = {} /\ s.edges = {}
    /\ s.phase \in {"merge"} \cup MergingNode \cup MergingEdge =>
          Found(s) /\ Merges(s) /\ Links(s) /\ \A c \in ChunksOf(s.doc) : Covered(s, c)

-----------------------------------------------------------------------------
(* What a deletion has still to do                                         *)

\* The writes that are left take the gone chunks out of f, and nothing else.
Plan(f, writes, gone, rows) ==
    /\ \A u \in writes : u[2] \subseteq rows \ gone /\ f[u[1]] \ gone \subseteq u[2]
    /\ \A u, v \in writes : u[1] = v[1] => u = v
    /\ \A x \in DOMAIN f : f[x] \cap gone # {} => \E u \in writes : u[1] = x

Deletes(s) ==
    /\ s.phase \in {"select", "scan"} \cup Rewriting => s.doc \notin built
    /\ s.phase \in {"scan"} \cup Rewriting => \A c \in s.gone : chunk[c] = s.doc
    /\ s.phase \in Rewriting =>
          /\ Plan(Known, Sound(s.entityWrites, lost), s.gone, Rows)
          /\ Plan(relationVector, s.relationWrites, s.gone, Rows)
          /\ Plan(node, s.nodeWrites, s.gone, Rows)
          /\ Plan(edge, s.edgeWrites, s.gone, Rows)
    /\ s.phase \in Rewriting \ {"entityVectors"} => s.entityWrites = {}
    /\ s.phase \in Rewriting \ {"entityVectors", "relationVectors"} => s.relationWrites = {}
    /\ s.phase = "nodes" => \A u \in s.nodeWrites : u[2] # {}
    /\ s.phase \in {"dropEdges", "edges", "chunks"} => s.nodeWrites = {}
    /\ s.phase = "chunks" => s.edgeWrites = {}

Alone == \A v \in Workers : Deleting(v) => \A u \in Workers \ {v} : worker[u].phase = "idle"

Orderly == Contents /\ Alone /\ \A w \in Workers : Builds(worker[w]) /\ Deletes(worker[w])

CInv == IInv /\ (~overlapped => Orderly)

-----------------------------------------------------------------------------
(* Builds                                                                  *)

DeletionPhases == {"select", "scan"} \cup Rewriting

BuildPhases == {"insert", "merge"} \cup MergingNode \cup MergingEdge

LEMMA IdleOrderly == Builds(Idle) /\ Deletes(Idle)
BY IdleFine DEF Builds, Deletes, Rewriting, MergingNode, MergingEdge

LEMMA ContentsBeginning == Init => CInv
<1>1. SUFFICES ASSUME Init PROVE CInv
  OBVIOUS
<1>2. Contents
  <2>1. Known = [e \in Entities |-> {}]
    BY <1>1 DEF Init, Known
  <2>2. QED
    BY <1>1, <2>1 DEF Init, Contents, Live, Ends, Homes
<1>3. Alone
  BY <1>1, IdleFine DEF Init, Alone, Deleting
<1>4. \A w \in Workers : worker[w] = Idle
  BY <1>1 DEF Init
<1>5. \A w \in Workers : Builds(worker[w]) /\ Deletes(worker[w])
  BY <1>4, IdleOrderly
<1>6. QED
  BY <1>1, <1>2, <1>3, <1>5, Beginning DEF CInv, Orderly

\* What a step of a build does to the stores: they grow, and where others may
\* be at work they stay.
Grows(w) ==
    /\ Rows \subseteq Rows'
    /\ \A e \in Entities : node[e] # {} => node'[e] # {}
    /\ \A e \in Named : node[e] \cap Known[e] \subseteq node'[e] \cap Known'[e]
    /\ \A p \in Pairs : edge[p] \cap relationVector[p] \subseteq edge'[p] \cap relationVector'[p]
    /\ \A e \in Named : lock[e] # w => node'[e] = node[e]
    /\ \A p \in Pairs : lock[p] # w => edge'[p] = edge[p]

LEMMA Displays ==
    ASSUME NEW w, Grows(w), NEW c \in Chunks, Display(c)
    PROVE  Display(c)'
<1>1. \A p \in Relations(c) : p \in Pairs
  BY DEF Pairs
<1>2. QED
  BY <1>1 DEF Grows, Display, Seen, Drawn

\* A worker that takes no step keeps what it has to do.
LEMMA Bystanding ==
    ASSUME NEW w \in Workers, Grows(w), NEW s, Fine(s), Builds(s),
           s.item \in Entities \cup Pairs => lock[s.item] # w
    PROVE  Builds(s)'
<1>1. SUFFICES ASSUME s.phase \in {"merge"} \cup MergingNode \cup MergingEdge
               PROVE  Builds(s)'
  BY DEF Builds
<1>2. /\ Found(s) /\ Merges(s) /\ Links(s) /\ \A c \in ChunksOf(s.doc) : Covered(s, c)
      /\ s.doc \in Docs
  BY <1>1 DEF Builds, Fine, MergingNode, MergingEdge
<1>3. \A p \in s.edges : p \subseteq Entities
  BY Names DEF Fine, WorkerStates
<1>4. Found(s)'
  BY <1>2, <1>3 DEF Found, Grows
<1>5. Merges(s)'
  BY <1>2 DEF Merges, Fine, Grows
<1>6. Links(s)'
  <2>1. SUFFICES ASSUME s.phase \in MergingEdge PROVE Links(s)'
    BY DEF Links
  <2>2. s.item \in Pairs /\ s.item \subseteq Entities /\ edge'[s.item] = edge[s.item]
    BY <2>1, Names DEF Fine, Grows
  <2>3. QED
    BY <1>2, <2>1, <2>2 DEF Links, Grows
<1>7. ASSUME NEW c \in ChunksOf(s.doc)
      PROVE  Covered(s, c)'
  <2>1. c \in Chunks /\ \A p \in Relations(c) : p \in Pairs
    BY <1>2, Names DEF Pairs
  <2>2. Covered(s, c)
    BY <1>2
  <2>3. QED
    BY <2>1, <2>2 DEF Covered, Seen, Drawn, Grows
<1>8. QED
  BY <1>4, <1>5, <1>6, <1>7 DEF Builds

\* A step of a build that leaves its worker in a build, or idle.
LEMMA BuildKeeps ==
    ASSUME IInv, Orderly, NEW w \in Workers, worker[w].phase \in BuildPhases,
           NEW s, worker' = [worker EXCEPT ![w] = s], s.phase \in BuildPhases \cup {"idle"},
           Grows(w), Contents', Builds(s)'
    PROVE  Orderly'
<1>1. ASSUME NEW v \in Workers
      PROVE  worker[v].phase \notin DeletionPhases
  <2>1. CASE v = w
    BY <2>1 DEF BuildPhases, DeletionPhases, Rewriting, MergingNode, MergingEdge
  <2>2. CASE v # w
    BY <2>2 DEF Orderly, Alone, Deleting, BuildPhases, DeletionPhases, Rewriting, MergingNode, MergingEdge
  <2>3. QED
    BY <2>1, <2>2
<1>2. \A v \in Workers : worker'[v] = IF v = w THEN s ELSE worker[v]
  BY DEF IInv, Working
<1>3. ASSUME NEW v \in Workers
      PROVE  worker'[v].phase \notin DeletionPhases
  BY <1>1, <1>2 DEF BuildPhases, DeletionPhases, Rewriting, MergingNode, MergingEdge
<1>4. Alone'
  BY <1>3 DEF Alone, Deleting, DeletionPhases, Rewriting
<1>5. \A v \in Workers : Deletes(worker[v])'
  BY <1>3 DEF Deletes, DeletionPhases, Rewriting
<1>6. ASSUME NEW v \in Workers
      PROVE  Builds(worker[v])'
  <2>1. CASE v = w
    BY <1>2, <2>1 DEF Builds, Found, Merges, Links, Covered
  <2>2. CASE v # w
    <3>1. PICK x : x = worker[v]
      OBVIOUS
    <3>2. Fine(x) /\ Builds(x) /\ worker'[v] = x
      BY <1>2, <2>2, <3>1 DEF IInv, Working, Orderly
    <3>3. x.item \in Entities \cup Pairs => lock[x.item] # w
      BY <2>2, <3>1, Names DEF IInv, Working, LocksAreHeld
    <3>4. Builds(x)'
      BY <3>2, <3>3, Bystanding
    <3>5. QED
      BY <3>2, <3>4 DEF Builds, Found, Merges, Links, Covered
  <2>3. QED
    BY <2>1, <2>2
<1>7. QED
  BY <1>4, <1>5, <1>6 DEF Orderly

LEMMA Resting ==
    ASSUME NEW w, store' = store
    PROVE  Grows(w)
BY DEF store, Known, Grows, Rows

LEMMA ComponentsCover ==
    ASSUME NEW d \in Docs
    PROVE  /\ \A e \in Mentioned(d) : e \in UNION Components(d)
           /\ \A p \in Related(d) : \E component \in Components(d) : p \subseteq component
<1>1. ASSUME NEW e \in Entities
      PROVE  e \in Component(d, e)
  BY DEF Component
<1>2. ASSUME NEW p \in Related(d)
      PROVE  \E component \in Components(d) : p \subseteq component
  <2>1. p \subseteq Entities /\ Cardinality(p) = 2
    BY DocumentAssumption, ExtractionAssumption DEF Related
  <2>2. PICK x : x \in p
    BY <2>1, FS_EmptySet
  <2>3. Component(d, x) \in Components(d)
    BY <2>2 DEF Components
  <2>4. p \subseteq Component(d, x)
    BY <2>1, <2>2 DEF Component, Closed
  <2>5. QED
    BY <2>3, <2>4
<1>3. ASSUME NEW e \in Mentioned(d)
      PROVE  e \in UNION Components(d)
  BY <1>1, Names DEF Components
<1>4. QED
  BY <1>2, <1>3

LEMMA InsertOrderly ==
    ASSUME IInv, Orderly, NEW w \in Workers, InsertChunks(w)
    PROVE  Orderly'
<1>1. PICK t : t = worker[w]
  OBVIOUS
<1>2. PICK d : d = t.doc
  OBVIOUS
<1>3. PICK s : s = [t EXCEPT !.phase = "merge", !.rest = Components(d)]
  OBVIOUS
<1>4. t \in WorkerStates /\ Fine(t) /\ Builds(t)
  BY <1>1 DEF IInv, Working, Fine, Orderly
<1>5. t.phase = "insert" /\ worker' = [worker EXCEPT ![w] = s] /\ d \in Docs
  BY <1>1, <1>2, <1>3, <1>4 DEF InsertChunks, Fine
<1>6. chunk' = [c \in Chunks |-> IF c \in ChunksOf(d) THEN d ELSE chunk[c]] /\ d # Nobody
  BY <1>1, <1>2, <1>5, NobodyAssumption DEF InsertChunks
<1>7. /\ node' = node /\ edge' = edge /\ Known' = Known /\ lost' = lost /\ relationVector' = relationVector
      /\ built' = IF \A c \in ChunksOf(d) : chunk[c] \in built THEN built ELSE built \ {d}
  BY <1>1, <1>2 DEF InsertChunks, Known
<1>8. Grows(w)
  BY <1>6, <1>7 DEF Grows, Rows
<1>9. ChunksOf(d) \subseteq Rows'
  BY <1>5, <1>6, Names DEF Rows
<1>10. Contents'
  <2>1. Live(node, Rows)' /\ Live(Known, Rows)' /\ Live(edge, Rows)' /\ Live(relationVector, Rows)'
    BY <1>7, <1>8 DEF Orderly, Contents, Live, Grows
  <2>2. Ends' /\ Homes'
    BY <1>6, <1>7 DEF Orderly, Contents, Ends, Homes
  <2>3. ASSUME NEW c \in Chunks, chunk'[c] \in built'
        PROVE  chunk[c] \in built
    BY <1>6, <1>7, <2>3
  <2>4. ASSUME NEW c \in Chunks, chunk'[c] \in built'
        PROVE  Display(c)'
    BY <1>8, <2>3, <2>4, Displays DEF Orderly, Contents
  <2>5. QED
    BY <2>1, <2>2, <2>4 DEF Contents
<1>11. s.phase = "merge" /\ s.doc = d /\ s.rest = Components(d) /\ s.entities = {} /\ s.edges = {}
  BY <1>2, <1>3, <1>4, <1>5 DEF WorkerStates, Builds
<1>12. Builds(s)'
  <2>1. Found(s)'
    BY <1>9, <1>11 DEF Found
  <2>2. Merges(s)' /\ Links(s)'
    BY <1>11 DEF Merges, Links, MergingNode, MergingEdge
  <2>3. ASSUME NEW c \in ChunksOf(d)
        PROVE  Covered(s, c)'
    <3>1. /\ \A e \in Mentions(c) : e \in Mentioned(d)
          /\ \A p \in Relations(c) : p \in Related(d)
      BY DEF Mentioned, Related
    <3>2. QED
      BY <1>5, <1>11, <3>1, ComponentsCover DEF Covered
  <2>4. QED
    BY <1>11, <2>1, <2>2, <2>3 DEF Builds
<1>13. QED
  BY <1>1, <1>5, <1>8, <1>10, <1>11, <1>12, BuildKeeps DEF BuildPhases

LEMMA ComponentOrderly ==
    ASSUME IInv, Orderly, NEW w \in Workers, NextComponent(w)
    PROVE  Orderly'
<1>1. PICK t : t = worker[w]
  OBVIOUS
<1>2. PICK d : d = t.doc
  OBVIOUS
<1>3. /\ t \in WorkerStates /\ t.phase = "merge" /\ t.entities = {} /\ t.edges = {}
      /\ store' = store /\ built' = built
  BY <1>1 DEF IInv, Working, NextComponent
<1>4. PICK component \in t.rest :
        worker' = [worker EXCEPT ![w] = [t EXCEPT !.rest = @ \ {component},
                     !.entities = component \cap Mentioned(d),
                     !.edges = {p \in Related(d) : p \subseteq component}]]
  BY <1>1, <1>2 DEF NextComponent
<1>5. PICK s : s = [t EXCEPT !.rest = @ \ {component}, !.entities = component \cap Mentioned(d),
                      !.edges = {p \in Related(d) : p \subseteq component}]
  OBVIOUS
<1>6. /\ s.phase = "merge" /\ s.doc = d /\ s.rest = t.rest \ {component}
      /\ s.entities = component \cap Mentioned(d) /\ s.edges = {p \in Related(d) : p \subseteq component}
  BY <1>2, <1>3, <1>5 DEF WorkerStates
<1>7. d \in Docs
  BY <1>1, <1>2, <1>3 DEF IInv, Working, Fine
<1>8. Found(t) /\ \A c \in ChunksOf(d) : Covered(t, c)
  BY <1>1, <1>2, <1>3 DEF Orderly, Builds
<1>9. Found(s)
  <2>1. ASSUME NEW p \in Related(d), NEW e \in p \cap Named
        PROVE  e \in Mentioned(d)
    <3>1. PICK c \in ChunksOf(d) : p \in Relations(c)
      BY DEF Related
    <3>2. c \in Chunks /\ e \in Mentions(c)
      BY <1>7, <3>1, Names DEF Named, AlwaysNamed
    <3>3. QED
      BY <3>2 DEF Mentioned
  <2>2. ASSUME NEW p \in s.edges, NEW e \in p \cap Named
        PROVE  e \in s.entities
    BY <1>6, <2>1
  <2>3. ChunksOf(d) \subseteq Rows
    BY <1>2, <1>8 DEF Found
  <2>4. QED
    BY <1>6, <2>2, <2>3 DEF Found
<1>10. ASSUME NEW c \in ChunksOf(d)
       PROVE  Covered(s, c)
  <2>1. /\ \A e \in Mentions(c) : e \in Mentioned(d)
        /\ \A p \in Relations(c) : p \in Related(d)
    BY DEF Mentioned, Related
  <2>2. ASSUME NEW e \in Mentions(c) \cap Named
        PROVE  c \in Seen(e) \/ e \in s.entities \/ e \in UNION s.rest
    BY <1>3, <1>6, <1>8, <2>1 DEF Covered, MergingNode
  <2>3. ASSUME NEW p \in Relations(c), p \subseteq Named
        PROVE  c \in Drawn(p) \/ p \in s.edges \/ \E x \in s.rest : p \subseteq x
    BY <1>3, <1>6, <1>8, <2>1, <2>3 DEF Covered, MergingEdge
  <2>4. QED
    BY <2>2, <2>3 DEF Covered
<1>11. Builds(s)'
  <2>1. Merges(s)' /\ Links(s)'
    BY <1>6 DEF Merges, Links, MergingNode, MergingEdge
  <2>2. Found(s)' /\ \A c \in ChunksOf(d) : Covered(s, c)'
    BY <1>3, <1>9, <1>10 DEF Found, Rows, Covered, store, Known, Seen, Drawn
  <2>3. QED
    BY <1>6, <2>1, <2>2 DEF Builds
<1>12. Grows(w)
  BY <1>3, Resting
<1>13. Contents'
  BY <1>3 DEF Orderly, Contents, store, Known, Live, Rows, Ends, Homes, Display, Seen, Drawn
<1>14. QED
  BY <1>1, <1>3, <1>4, <1>5, <1>6, <1>11, <1>12, <1>13, BuildKeeps DEF BuildPhases

LEMMA SameContents ==
    ASSUME Orderly, store' = store, built' = built
    PROVE  Contents'
BY DEF Orderly, Contents, store, Known, Live, Rows, Ends, Homes, Display, Seen, Drawn

\* The stores after a build has written to one of them.
LEMMA GrownContents ==
    ASSUME Orderly, NEW w, Grows(w), chunk' = chunk, built' = built,
           Live(node, Rows)', Live(Known, Rows)', Live(edge, Rows)', Live(relationVector, Rows)', Ends'
    PROVE  Contents'
<1>1. Homes'
  BY DEF Orderly, Contents, Homes
<1>2. \A c \in Chunks : chunk'[c] \in built' => Display(c)'
  BY Displays DEF Orderly, Contents
<1>3. QED
  BY <1>1, <1>2 DEF Contents

LEMMA ReadNodeOrderly ==
    ASSUME IInv, Orderly, NEW w \in Workers, ReadNode(w)
    PROVE  Orderly'
<1>1. PICK t : t = worker[w]
  OBVIOUS
<1>2. PICK d : d = t.doc
  OBVIOUS
<1>3. /\ t \in WorkerStates /\ t.phase = "merge" /\ store' = store /\ built' = built /\ d \in Docs
      /\ Found(t) /\ \A c \in ChunksOf(d) : Covered(t, c)
  BY <1>1, <1>2 DEF IInv, Working, Fine, ReadNode, Orderly, Builds
<1>4. PICK e \in t.entities :
        worker' = [worker EXCEPT ![w] = [t EXCEPT !.phase = "writeNode", !.entities = @ \ {e}, !.item = e,
                     !.sources = node[e] \cup EntitySources(d, e)]]
  BY <1>1, <1>2 DEF ReadNode
<1>5. PICK s : s = [t EXCEPT !.phase = "writeNode", !.entities = @ \ {e}, !.item = e,
                     !.sources = node[e] \cup EntitySources(d, e)]
  OBVIOUS
<1>6. /\ s.phase = "writeNode" /\ s.doc = d /\ s.rest = t.rest /\ s.edges = t.edges
      /\ s.entities = t.entities \ {e} /\ s.item = e /\ s.sources = node[e] \cup EntitySources(d, e)
  BY <1>2, <1>3, <1>5 DEF WorkerStates
<1>7. Found(s)
  BY <1>2, <1>3, <1>6 DEF Found, MergingNode
<1>8. Merges(s) /\ Links(s)
  <2>1. e \in Mentioned(d) /\ e \in Entities
    BY <1>2, <1>3, Names DEF Found
  <2>2. EntitySources(d, e) # {}
    BY <2>1 DEF Mentioned, EntitySources
  <2>3. EntitySources(d, e) \subseteq Rows
    BY <1>2, <1>3 DEF Found, EntitySources
  <2>4. node[e] \subseteq Rows
    BY <2>1 DEF IInv, Stored, Orderly, Contents, Live
  <2>5. QED
    BY <1>6, <2>2, <2>3, <2>4 DEF Merges, Links, MergingEdge
<1>9. ASSUME NEW c \in ChunksOf(d)
      PROVE  Covered(s, c)
  <2>1. Covered(t, c)
    BY <1>3
  <2>2. e \in Mentions(c) => c \in s.sources
    BY <1>6 DEF EntitySources
  <2>3. QED
    BY <1>3, <1>6, <2>1, <2>2 DEF Covered, MergingNode, MergingEdge
<1>10. Builds(s)'
  BY <1>3, <1>6, <1>7, <1>8, <1>9 DEF Builds, Found, Merges, Links, Rows, Covered, store, Known, Seen, Drawn
<1>11. QED
  BY <1>1, <1>3, <1>4, <1>5, <1>6, <1>10, Resting, SameContents, BuildKeeps DEF BuildPhases, MergingNode

LEMMA WriteNodeOrderly ==
    ASSUME IInv, Orderly, NEW w \in Workers, WriteNode(w)
    PROVE  Orderly'
<1>1. PICK t : t = worker[w]
  OBVIOUS
<1>2. PICK s : s = [t EXCEPT !.phase = "writeEntityVector"]
  OBVIOUS
<1>3. /\ t \in WorkerStates /\ t.phase = "writeNode" /\ t.item \in Entities /\ t.doc \in Docs /\ lock[t.item] = w
      /\ Found(t) /\ Merges(t) /\ \A c \in ChunksOf(t.doc) : Covered(t, c)
  BY <1>1, Names DEF IInv, Working, Fine, WriteNode, Orderly, Builds, MergingNode, LocksAreHeld
<1>4. /\ node' = [node EXCEPT ![t.item] = t.sources] /\ worker' = [worker EXCEPT ![w] = s]
      /\ chunk' = chunk /\ edge' = edge /\ Known' = Known /\ lost' = lost /\ relationVector' = relationVector
      /\ built' = built
  BY <1>1, <1>2 DEF WriteNode, Known
<1>5. /\ s.phase = "writeEntityVector" /\ s.doc = t.doc /\ s.rest = t.rest /\ s.edges = t.edges
      /\ s.entities = t.entities /\ s.item = t.item /\ s.sources = t.sources
  BY <1>2, <1>3 DEF WorkerStates
<1>6. /\ t.sources # {} /\ t.sources \subseteq Rows
      /\ t.item \in Named => node[t.item] \subseteq t.sources
      /\ node \in [Entities -> SUBSET Chunks]
  BY <1>3 DEF Merges, MergingNode, IInv, Stored
<1>7. \A e \in Entities : node'[e] = IF e = t.item THEN t.sources ELSE node[e]
  BY <1>4, <1>6
<1>8. Grows(w)
  <2>1. \A e \in Entities : node[e] # {} => node'[e] # {}
    BY <1>6, <1>7
  <2>2. \A e \in Named : node[e] \subseteq node'[e] /\ (lock[e] # w => node'[e] = node[e])
    BY <1>3, <1>6, <1>7 DEF Named
  <2>3. QED
    BY <1>4, <2>1, <2>2 DEF Grows, Rows
<1>9. Contents'
  <2>1. Live(node, Rows)'
    BY <1>4, <1>6, <1>7 DEF Orderly, Contents, Live, Rows
  <2>2. Ends'
    BY <1>4, <1>8, Names DEF Orderly, Contents, Ends, Grows
  <2>3. Live(Known, Rows)' /\ Live(edge, Rows)' /\ Live(relationVector, Rows)'
    BY <1>4 DEF Orderly, Contents, Live, Rows
  <2>4. QED
    BY <1>4, <1>8, <2>1, <2>2, <2>3, GrownContents
<1>10. Found(s)'
  BY <1>3, <1>4, <1>5, <1>8 DEF Found, MergingNode, Grows, Named, Rows
<1>11. Merges(s)' /\ Links(s)'
  BY <1>3, <1>4, <1>5, <1>6, <1>7 DEF Merges, Links, MergingEdge, Rows
<1>12. ASSUME NEW c \in ChunksOf(t.doc)
       PROVE  Covered(s, c)'
  <2>1. \A e \in Named : Seen(e) \subseteq Seen(e)'
    BY <1>8 DEF Grows, Seen
  <2>2. QED
    BY <1>3, <1>4, <1>5, <2>1 DEF Covered, Drawn, MergingNode, MergingEdge
<1>13. QED
  BY <1>1, <1>3, <1>4, <1>5, <1>8, <1>9, <1>10, <1>11, <1>12, BuildKeeps DEF BuildPhases, MergingNode, Builds

LEMMA WriteEntityVectorOrderly ==
    ASSUME IInv, Orderly, NEW w \in Workers, WriteEntityVector(w)
    PROVE  Orderly'
<1>1. PICK t : t = worker[w]
  OBVIOUS
<1>2. PICK s : s = [t EXCEPT !.phase = "merge", !.item = Nobody, !.sources = {}]
  OBVIOUS
<1>3. /\ t \in WorkerStates /\ t.phase = "writeEntityVector" /\ t.item \in Entities /\ t.doc \in Docs
      /\ Found(t) /\ Merges(t) /\ \A c \in ChunksOf(t.doc) : Covered(t, c)
  BY <1>1 DEF IInv, Working, Fine, WriteEntityVector, Orderly, Builds, MergingNode
<1>4. /\ entityVector' = [entityVector EXCEPT ![t.item] = t.sources] /\ lost' = lost \ {t.item}
      /\ worker' = [worker EXCEPT ![w] = s]
      /\ chunk' = chunk /\ edge' = edge /\ node' = node /\ relationVector' = relationVector
      /\ built' = built
  BY <1>1, <1>2 DEF WriteEntityVector, Unlock
<1>5. /\ s.phase = "merge" /\ s.doc = t.doc /\ s.rest = t.rest /\ s.edges = t.edges /\ s.entities = t.entities
  BY <1>2, <1>3 DEF WorkerStates
<1>6. /\ t.sources # {} /\ t.sources \subseteq Rows
      /\ t.item \in Named => node[t.item] = t.sources
      /\ Known \in [Entities -> SUBSET Chunks]
  BY <1>3, KnownTyped DEF Merges, MergingNode
<1>7. \A e \in Entities : Known'[e] = IF e = t.item THEN t.sources ELSE Known[e]
  BY <1>4 DEF Known, IInv, Stored
<1>8. Grows(w)
  BY <1>4, <1>6, <1>7 DEF Grows, Rows, Named
<1>9. Contents'
  <2>1. Live(Known, Rows)'
    <3>1. \A e \in Entities : Known'[e] \subseteq Rows'
      BY <1>4, <1>6, <1>7 DEF Orderly, Contents, Live, Rows
    <3>2. DOMAIN Known' = Entities
      BY DEF Known
    <3>3. QED
      BY <3>1, <3>2 DEF Live
  <2>2. Ends' /\ Live(node, Rows)' /\ Live(edge, Rows)' /\ Live(relationVector, Rows)'
    BY <1>4 DEF Orderly, Contents, Live, Rows, Ends
  <2>3. QED
    BY <1>4, <1>8, <2>1, <2>2, GrownContents
<1>10. Found(s)'
  BY <1>3, <1>4, <1>5, <1>6 DEF Found, MergingNode, Rows
<1>11. Merges(s)' /\ Links(s)'
  BY <1>5 DEF Merges, Links, MergingEdge, MergingNode
<1>12. ASSUME NEW c \in ChunksOf(t.doc)
       PROVE  Covered(s, c)'
  <2>1. \A e \in Named : Seen(e) \subseteq Seen(e)'
    BY <1>8 DEF Grows, Seen
  <2>2. t.item \in Named /\ c \in t.sources => c \in Seen(t.item)'
    BY <1>3, <1>4, <1>6, <1>7 DEF Seen
  <2>3. QED
    BY <1>3, <1>4, <1>5, <2>1, <2>2 DEF Covered, Drawn, MergingNode, MergingEdge
<1>13. QED
  BY <1>1, <1>3, <1>4, <1>5, <1>8, <1>9, <1>10, <1>11, <1>12, BuildKeeps DEF BuildPhases, MergingNode, Builds

LEMMA ReadEdgeOrderly ==
    ASSUME IInv, Orderly, NEW w \in Workers, ReadEdge(w)
    PROVE  Orderly'
<1>1. PICK t : t = worker[w]
  OBVIOUS
<1>2. PICK d : d = t.doc
  OBVIOUS
<1>3. /\ t \in WorkerStates /\ t.phase = "merge" /\ t.entities = {} /\ store' = store /\ built' = built
      /\ d \in Docs /\ Found(t) /\ \A c \in ChunksOf(d) : Covered(t, c)
  BY <1>1, <1>2 DEF IInv, Working, Fine, ReadEdge, Orderly, Builds
<1>4. PICK p \in t.edges :
        worker' = [worker EXCEPT ![w] = [t EXCEPT !.phase = "checkNode", !.edges = @ \ {p}, !.item = p,
                     !.sources = edge[p] \cup EdgeSources(d, p), !.ends = p]]
  BY <1>1, <1>2 DEF ReadEdge
<1>5. PICK s : s = [t EXCEPT !.phase = "checkNode", !.edges = @ \ {p}, !.item = p,
                     !.sources = edge[p] \cup EdgeSources(d, p), !.ends = p]
  OBVIOUS
<1>6. /\ s.phase = "checkNode" /\ s.doc = d /\ s.rest = t.rest /\ s.edges = t.edges \ {p}
      /\ s.entities = {} /\ s.item = p /\ s.sources = edge[p] \cup EdgeSources(d, p) /\ s.ends = p
  BY <1>2, <1>3, <1>5 DEF WorkerStates
<1>7. Found(s)
  BY <1>2, <1>3, <1>6 DEF Found, MergingNode
<1>8. Merges(s) /\ Links(s)
  <2>1. p \in Related(d) /\ p \in Pairs
    BY <1>2, <1>3, Names DEF Found
  <2>2. EdgeSources(d, p) # {}
    BY <2>1 DEF Related, EdgeSources
  <2>3. EdgeSources(d, p) \subseteq Rows
    BY <1>2, <1>3 DEF Found, EdgeSources
  <2>4. edge[p] \subseteq Rows
    BY <2>1 DEF IInv, Stored, Orderly, Contents, Live
  <2>5. \A e \in p \cap Named : node[e] # {}
    BY <1>3 DEF Found, MergingNode
  <2>6. QED
    BY <1>6, <2>2, <2>3, <2>4, <2>5 DEF Merges, Links, MergingNode
<1>9. ASSUME NEW c \in ChunksOf(d)
      PROVE  Covered(s, c)
  <2>1. Covered(t, c)
    BY <1>3
  <2>2. p \in Relations(c) => c \in s.sources
    BY <1>6 DEF EdgeSources
  <2>3. QED
    BY <1>3, <1>6, <2>1, <2>2 DEF Covered, MergingNode, MergingEdge
<1>10. Builds(s)'
  BY <1>3, <1>6, <1>7, <1>8, <1>9 DEF Builds, Found, Merges, Links, Rows, Covered, store, Known, Seen, Drawn
<1>11. QED
  BY <1>1, <1>3, <1>4, <1>5, <1>6, <1>10, Resting, SameContents, BuildKeeps DEF BuildPhases, MergingEdge

\* A step of a build within the merge of a relation that only looks.
LEMMA Looking ==
    ASSUME IInv, Orderly, NEW w \in Workers, worker[w].phase \in MergingEdge,
           store' = store, built' = built, NEW s, worker' = [worker EXCEPT ![w] = s], s.phase \in MergingEdge,
           s.doc = worker[w].doc, s.rest = worker[w].rest, s.edges = worker[w].edges,
           s.entities = worker[w].entities, s.item = worker[w].item, s.sources = worker[w].sources, Links(s)
    PROVE  Orderly'
<1>1. PICK t : t = worker[w]
  OBVIOUS
<1>2. Found(t) /\ \A c \in ChunksOf(t.doc) : Covered(t, c)
  BY <1>1 DEF Orderly, Builds
<1>3. Found(s)
  BY <1>1, <1>2 DEF Found, MergingNode, MergingEdge
<1>4. \A c \in ChunksOf(s.doc) : Covered(s, c)
  BY <1>1, <1>2 DEF Covered, MergingNode, MergingEdge
<1>5. Merges(s)
  BY DEF Merges, MergingNode, MergingEdge
<1>6. Builds(s)'
  BY <1>3, <1>4, <1>5 DEF Builds, Found, Merges, Links, Rows, Covered, store, Known, Seen, Drawn, MergingEdge
<1>7. QED
  BY <1>6, Resting, SameContents, BuildKeeps DEF BuildPhases

LEMMA CheckNodeOrderly ==
    ASSUME IInv, Orderly, NEW w \in Workers, CheckNode(w)
    PROVE  Orderly'
<1>1. PICK t : t = worker[w]
  OBVIOUS
<1>2. /\ t \in WorkerStates /\ t.phase = "checkNode" /\ t.item \in Pairs /\ Links(t)
      /\ store' = store /\ built' = built
  BY <1>1 DEF IInv, Working, Fine, CheckNode, Orderly, Builds, MergingEdge
<1>3. ASSUME t.ends = {}, worker' = [worker EXCEPT ![w] = [t EXCEPT !.phase = "writeEdge"]]
      PROVE  Orderly'
  <2>1. PICK s : s = [t EXCEPT !.phase = "writeEdge"]
    OBVIOUS
  <2>2. /\ s.phase = "writeEdge" /\ s.doc = t.doc /\ s.rest = t.rest /\ s.edges = t.edges /\ s.ends = t.ends
        /\ s.entities = t.entities /\ s.item = t.item /\ s.sources = t.sources
    BY <1>2, <2>1 DEF WorkerStates
  <2>3. Links(s)
    BY <1>2, <1>3, <2>2 DEF Links, MergingEdge
  <2>4. QED
    BY <1>1, <1>2, <1>3, <2>1, <2>2, <2>3, Looking DEF MergingEdge
<1>4. ASSUME NEW e \in t.ends, node[e] # {},
             worker' = [worker EXCEPT ![w] = [t EXCEPT !.ends = @ \ {e}]]
      PROVE  Orderly'
  <2>1. PICK s : s = [t EXCEPT !.ends = @ \ {e}]
    OBVIOUS
  <2>2. /\ s.phase = "checkNode" /\ s.doc = t.doc /\ s.rest = t.rest /\ s.edges = t.edges /\ s.ends = t.ends \ {e}
        /\ s.entities = t.entities /\ s.item = t.item /\ s.sources = t.sources
    BY <1>2, <2>1 DEF WorkerStates
  <2>3. Links(s)
    BY <1>2, <1>4, <2>2 DEF Links, MergingEdge
  <2>4. QED
    BY <1>1, <1>2, <1>4, <2>1, <2>2, <2>3, Looking DEF MergingEdge
<1>5. ASSUME NEW e \in t.ends, node[e] = {},
             worker' = [worker EXCEPT ![w] = [t EXCEPT !.phase = "createNode", !.ends = @ \ {e}, !.end = e]]
      PROVE  Orderly'
  <2>1. PICK s : s = [t EXCEPT !.phase = "createNode", !.ends = @ \ {e}, !.end = e]
    OBVIOUS
  <2>2. /\ s.phase = "createNode" /\ s.doc = t.doc /\ s.rest = t.rest /\ s.edges = t.edges /\ s.ends = t.ends \ {e}
        /\ s.entities = t.entities /\ s.item = t.item /\ s.sources = t.sources /\ s.end = e
    BY <1>2, <2>1 DEF WorkerStates
  <2>3. e \in t.item /\ e \notin Named
    BY <1>2, <1>5 DEF Links, MergingEdge
  <2>4. Links(s)
    BY <1>2, <2>2, <2>3 DEF Links, MergingEdge
  <2>5. QED
    BY <1>1, <1>2, <1>5, <2>1, <2>2, <2>4, Looking DEF MergingEdge
<1>6. QED
  BY <1>1, <1>3, <1>4, <1>5 DEF CheckNode

LEMMA CreateNodeOrderly ==
    ASSUME IInv, Orderly, NEW w \in Workers, CreateNode(w)
    PROVE  Orderly'
<1>1. PICK t : t = worker[w]
  OBVIOUS
<1>2. PICK s : s = [t EXCEPT !.phase = "checkNode", !.end = Nobody]
  OBVIOUS
<1>3. /\ t \in WorkerStates /\ t.phase = "createNode" /\ t.item \in Pairs /\ t.end \in Entities /\ t.doc \in Docs
      /\ Found(t) /\ Links(t) /\ \A c \in ChunksOf(t.doc) : Covered(t, c)
  BY <1>1 DEF IInv, Working, Fine, CreateNode, Orderly, Builds, MergingEdge
<1>4. /\ node' = [node EXCEPT ![t.end] = t.sources] /\ worker' = [worker EXCEPT ![w] = s]
      /\ chunk' = chunk /\ edge' = edge /\ Known' = Known /\ lost' = lost /\ relationVector' = relationVector
      /\ built' = built
  BY <1>1, <1>2 DEF CreateNode, Known
<1>5. /\ s.phase = "checkNode" /\ s.doc = t.doc /\ s.rest = t.rest /\ s.edges = t.edges /\ s.ends = t.ends
      /\ s.entities = t.entities /\ s.item = t.item /\ s.sources = t.sources
  BY <1>2, <1>3 DEF WorkerStates
<1>6. /\ t.sources # {} /\ t.sources \subseteq Rows /\ t.end \notin Named
      /\ node \in [Entities -> SUBSET Chunks]
  BY <1>3 DEF Links, MergingEdge, IInv, Stored
<1>7. \A e \in Entities : node'[e] = IF e = t.end THEN t.sources ELSE node[e]
  BY <1>4, <1>6
<1>8. Grows(w)
  BY <1>4, <1>6, <1>7 DEF Grows, Rows, Named
<1>9. Contents'
  <2>1. Live(node, Rows)'
    BY <1>4, <1>6, <1>7 DEF Orderly, Contents, Live, Rows
  <2>2. Ends'
    BY <1>4, <1>8, Names DEF Orderly, Contents, Ends, Grows
  <2>3. Live(Known, Rows)' /\ Live(edge, Rows)' /\ Live(relationVector, Rows)'
    BY <1>4 DEF Orderly, Contents, Live, Rows
  <2>4. QED
    BY <1>4, <1>8, <2>1, <2>2, <2>3, GrownContents
<1>10. \A e \in Entities : node[e] # {} => node'[e] # {}
  BY <1>8 DEF Grows
<1>11. Found(s)'
  BY <1>3, <1>4, <1>5, <1>10 DEF Found, MergingNode, Named, Rows
<1>12. Merges(s)' /\ Links(s)'
  <2>1. t.item \subseteq Entities
    BY <1>3, Names
  <2>2. \A e \in s.item : node'[e] # {} \/ e \in s.ends
    BY <1>3, <1>5, <1>6, <1>7, <2>1 DEF Links, MergingEdge
  <2>3. \A e \in s.item \cap Named : node'[e] # {}
    BY <1>3, <1>5, <1>10, <2>1 DEF Links, MergingEdge
  <2>4. edge'[s.item] \subseteq s.sources /\ s.entities = {} /\ s.ends \subseteq s.item
    BY <1>3, <1>4, <1>5 DEF Links, MergingEdge
  <2>5. QED
    BY <1>4, <1>5, <1>6, <2>2, <2>3, <2>4 DEF Merges, Links, MergingNode, Rows
<1>13. ASSUME NEW c \in ChunksOf(t.doc)
       PROVE  Covered(s, c)'
  <2>1. \A e \in Named : Seen(e) \subseteq Seen(e)'
    BY <1>8 DEF Grows, Seen
  <2>2. QED
    BY <1>3, <1>4, <1>5, <2>1 DEF Covered, Drawn, MergingNode, MergingEdge
<1>14. QED
  BY <1>1, <1>3, <1>4, <1>5, <1>8, <1>9, <1>11, <1>12, <1>13, BuildKeeps DEF BuildPhases, MergingEdge, Builds

LEMMA WriteEdgeOrderly ==
    ASSUME IInv, Orderly, NEW w \in Workers, WriteEdge(w)
    PROVE  Orderly'
<1>1. PICK t : t = worker[w]
  OBVIOUS
<1>2. PICK s : s = [t EXCEPT !.phase = "writeRelationVector"]
  OBVIOUS
<1>3. /\ t \in WorkerStates /\ t.phase = "writeEdge" /\ t.item \in Pairs /\ t.doc \in Docs /\ lock[t.item] = w
      /\ Found(t) /\ Links(t) /\ \A c \in ChunksOf(t.doc) : Covered(t, c)
  BY <1>1, Names DEF IInv, Working, Fine, WriteEdge, Orderly, Builds, MergingEdge, LocksAreHeld
<1>4. /\ edge' = [edge EXCEPT ![t.item] = t.sources] /\ worker' = [worker EXCEPT ![w] = s]
      /\ chunk' = chunk /\ node' = node /\ Known' = Known /\ lost' = lost /\ relationVector' = relationVector
      /\ built' = built
  BY <1>1, <1>2 DEF WriteEdge, Known
<1>5. /\ s.phase = "writeRelationVector" /\ s.doc = t.doc /\ s.rest = t.rest /\ s.edges = t.edges
      /\ s.entities = t.entities /\ s.item = t.item /\ s.sources = t.sources /\ s.ends = t.ends
  BY <1>2, <1>3 DEF WorkerStates
<1>6. /\ t.sources # {} /\ t.sources \subseteq Rows /\ edge[t.item] \subseteq t.sources
      /\ \A e \in t.item : node[e] # {}
      /\ edge \in [Pairs -> SUBSET Chunks]
  BY <1>3 DEF Links, MergingEdge, IInv, Stored
<1>7. \A p \in Pairs : edge'[p] = IF p = t.item THEN t.sources ELSE edge[p]
  BY <1>4, <1>6
<1>8. Grows(w)
  <2>1. \A p \in Pairs : edge[p] \subseteq edge'[p] /\ (lock[p] # w => edge'[p] = edge[p])
    BY <1>3, <1>6, <1>7
  <2>2. QED
    BY <1>4, <2>1 DEF Grows, Rows
<1>9. Contents'
  <2>1. Live(edge, Rows)'
    BY <1>4, <1>6, <1>7 DEF Orderly, Contents, Live, Rows
  <2>2. Ends'
    BY <1>4, <1>6, <1>7 DEF Orderly, Contents, Ends
  <2>3. Live(Known, Rows)' /\ Live(node, Rows)' /\ Live(relationVector, Rows)'
    BY <1>4 DEF Orderly, Contents, Live, Rows
  <2>4. QED
    BY <1>4, <1>8, <2>1, <2>2, <2>3, GrownContents
<1>10. Found(s)'
  BY <1>3, <1>4, <1>5 DEF Found, MergingNode, Rows
<1>11. Merges(s)' /\ Links(s)'
  BY <1>3, <1>4, <1>5, <1>6, <1>7 DEF Merges, Links, MergingEdge, MergingNode, Rows
<1>12. ASSUME NEW c \in ChunksOf(t.doc)
       PROVE  Covered(s, c)'
  <2>1. \A p \in Pairs : Drawn(p) \subseteq Drawn(p)'
    BY <1>8 DEF Grows, Drawn
  <2>2. \A p \in Relations(c) : p \in Pairs
    BY <1>3, Names DEF Pairs
  <2>3. QED
    BY <1>3, <1>4, <1>5, <2>1, <2>2 DEF Covered, Seen, MergingNode, MergingEdge
<1>13. QED
  BY <1>1, <1>3, <1>4, <1>5, <1>8, <1>9, <1>10, <1>11, <1>12, BuildKeeps DEF BuildPhases, MergingEdge, Builds

LEMMA WriteRelationVectorOrderly ==
    ASSUME IInv, Orderly, NEW w \in Workers, WriteRelationVector(w)
    PROVE  Orderly'
<1>1. PICK t : t = worker[w]
  OBVIOUS
<1>2. PICK s : s = [t EXCEPT !.phase = "merge", !.item = Nobody, !.sources = {}]
  OBVIOUS
<1>3. /\ t \in WorkerStates /\ t.phase = "writeRelationVector" /\ t.item \in Pairs /\ t.doc \in Docs
      /\ Found(t) /\ Links(t) /\ \A c \in ChunksOf(t.doc) : Covered(t, c)
  BY <1>1 DEF IInv, Working, Fine, WriteRelationVector, Orderly, Builds, MergingEdge
<1>4. /\ relationVector' = [relationVector EXCEPT ![t.item] = t.sources] /\ worker' = [worker EXCEPT ![w] = s]
      /\ chunk' = chunk /\ edge' = edge /\ node' = node /\ Known' = Known /\ lost' = lost
      /\ built' = built
  BY <1>1, <1>2 DEF WriteRelationVector, Unlock, Known
<1>5. /\ s.phase = "merge" /\ s.doc = t.doc /\ s.rest = t.rest /\ s.edges = t.edges /\ s.entities = t.entities
  BY <1>2, <1>3 DEF WorkerStates
<1>6. /\ t.sources # {} /\ t.sources \subseteq Rows /\ edge[t.item] = t.sources
      /\ relationVector \in [Pairs -> SUBSET Chunks]
  BY <1>3 DEF Links, MergingEdge, IInv, Stored
<1>7. \A p \in Pairs : relationVector'[p] = IF p = t.item THEN t.sources ELSE relationVector[p]
  BY <1>4, <1>6
<1>8. Grows(w)
  BY <1>4, <1>6, <1>7 DEF Grows, Rows
<1>9. Contents'
  <2>1. Live(relationVector, Rows)'
    BY <1>4, <1>6, <1>7 DEF Orderly, Contents, Live, Rows
  <2>2. Ends' /\ Live(node, Rows)' /\ Live(edge, Rows)' /\ Live(Known, Rows)'
    BY <1>4 DEF Orderly, Contents, Live, Rows, Ends
  <2>3. QED
    BY <1>4, <1>8, <2>1, <2>2, GrownContents
<1>10. Found(s)'
  BY <1>3, <1>4, <1>5 DEF Found, MergingNode, Rows
<1>11. Merges(s)' /\ Links(s)'
  BY <1>5 DEF Merges, Links, MergingEdge, MergingNode
<1>12. ASSUME NEW c \in ChunksOf(t.doc)
       PROVE  Covered(s, c)'
  <2>1. \A p \in Pairs : Drawn(p) \subseteq Drawn(p)'
    BY <1>8 DEF Grows, Drawn
  <2>2. \A p \in Relations(c) : p \in Pairs
    BY <1>3, Names DEF Pairs
  <2>3. c \in t.sources => c \in Drawn(t.item)'
    BY <1>3, <1>4, <1>6, <1>7 DEF Drawn
  <2>4. QED
    BY <1>3, <1>4, <1>5, <2>1, <2>2, <2>3 DEF Covered, Seen, MergingNode, MergingEdge
<1>13. QED
  BY <1>1, <1>3, <1>4, <1>5, <1>8, <1>9, <1>10, <1>11, <1>12, BuildKeeps DEF BuildPhases, MergingEdge, Builds

LEMMA FinishOrderly ==
    ASSUME IInv, Orderly, NEW w \in Workers, FinishBuild(w)
    PROVE  Orderly'
<1>1. PICK t : t = worker[w]
  OBVIOUS
<1>2. /\ t.phase = "merge" /\ t.rest = {} /\ t.entities = {} /\ t.edges = {}
      /\ store' = store /\ built' = built \cup {t.doc} /\ worker' = [worker EXCEPT ![w] = Idle]
  BY <1>1 DEF FinishBuild, Leave
<1>3. t.doc \in Docs /\ \A c \in ChunksOf(t.doc) : Covered(t, c)
  BY <1>1, <1>2 DEF Orderly, Builds, IInv, Working, Fine
<1>4. \A c \in ChunksOf(t.doc) : Display(c)
  BY <1>2, <1>3 DEF Covered, Display, MergingNode, MergingEdge
<1>5. \A c \in Chunks : chunk[c] = t.doc => c \in ChunksOf(t.doc)
  BY <1>3, NobodyAssumption DEF Orderly, Contents, Homes
<1>6. ASSUME NEW c \in Chunks, chunk'[c] \in built'
      PROVE  Display(c)
  BY <1>2, <1>4, <1>5, <1>6 DEF Orderly, Contents, store, Known
<1>7. \A c \in Chunks : chunk'[c] \in built' => Display(c)'
  BY <1>2, <1>6 DEF Display, store, Known, Seen, Drawn
<1>8. Contents'
  BY <1>2, <1>7 DEF Orderly, Contents, store, Known, Live, Rows, Ends, Homes
<1>9. Builds(Idle)'
  BY IdleFine DEF Builds, MergingNode, MergingEdge
<1>10. QED
  BY <1>1, <1>2, <1>8, <1>9, IdleFine, Resting, BuildKeeps DEF BuildPhases

-----------------------------------------------------------------------------
(* Tasks that start and tasks that fail                                    *)

\* A step that leaves the stores as they are.
LEMMA Steady ==
    ASSUME IInv, Orderly, NEW w \in Workers, store' = store, built' \subseteq built,
           NEW s, worker' = [worker EXCEPT ![w] = s], Builds(s)', Deletes(s)', Alone'
    PROVE  Orderly'
<1>1. Contents'
  BY DEF Orderly, Contents, store, Known, Live, Rows, Ends, Homes, Display, Seen, Drawn
<1>2. ASSUME NEW v \in Workers
      PROVE  Builds(worker[v])' /\ Deletes(worker[v])'
  <2>1. PICK x : x = worker[v]
    OBVIOUS
  <2>2. worker'[v] = IF v = w THEN s ELSE x
    BY <2>1 DEF IInv, Working
  <2>3. Builds(x) /\ Deletes(x)
    BY <2>1 DEF Orderly
  <2>4. Builds(x)'
    BY <2>3 DEF Builds, Found, Merges, Links, Rows, Covered, store, Known, Seen, Drawn
  <2>5. Deletes(x)'
    BY <2>3 DEF Deletes, store, Known, Rows
  <2>6. CASE v = w
    BY <2>2, <2>6 DEF Builds, Deletes, Found, Merges, Links, Covered
  <2>7. CASE v # w
    BY <2>2, <2>4, <2>5, <2>7 DEF Builds, Deletes, Found, Merges, Links, Covered
  <2>8. QED
    BY <2>6, <2>7
<1>3. QED
  BY <1>1, <1>2 DEF Orderly

LEMMA FailOrderly ==
    ASSUME IInv, Orderly, NEW w \in Workers, Fail(w)
    PROVE  Orderly'
<1>1. store' = store /\ built' = built /\ worker' = [worker EXCEPT ![w] = Idle]
  BY DEF Fail, Leave
<1>2. \A v \in Workers : worker'[v] = IF v = w THEN Idle ELSE worker[v]
  BY <1>1 DEF IInv, Working
<1>3. Alone'
  BY <1>2, IdleFine DEF Orderly, Alone, Deleting
<1>4. Builds(Idle)' /\ Deletes(Idle)'
  BY IdleFine DEF Builds, Deletes, MergingNode, MergingEdge, Rewriting
<1>5. QED
  BY <1>1, <1>3, <1>4, Steady

LEMMA StartBuildOrderly ==
    ASSUME IInv, Orderly, NEW w \in Workers, StartBuild(w), ~overlapped'
    PROVE  Orderly'
<1>1. PICK d \in Docs : Start(w, d, "insert")
  BY DEF StartBuild
<1>2. PICK s : s = [Idle EXCEPT !.phase = "insert", !.doc = d]
  OBVIOUS
<1>3. store' = store /\ built' = built /\ worker' = [worker EXCEPT ![w] = s]
  BY <1>1, <1>2 DEF StartBuild, Start
<1>4. s.phase = "insert" /\ s.entities = {} /\ s.edges = {}
  BY <1>2 DEF Idle
<1>5. \A v \in Workers : worker'[v] = IF v = w THEN s ELSE worker[v]
  BY <1>3 DEF IInv, Working
<1>6. \A v \in Workers \ {w} : ~Deleting(v)
  BY DEF StartBuild, Others, Deleting
<1>7. Alone'
  BY <1>4, <1>5, <1>6 DEF Alone, Deleting
<1>8. Builds(s)' /\ Deletes(s)'
  BY <1>4 DEF Builds, Deletes, MergingNode, MergingEdge, Rewriting
<1>9. QED
  BY <1>3, <1>7, <1>8, Steady

LEMMA StartDeletionOrderly ==
    ASSUME IInv, Orderly, NEW w \in Workers, StartDeletion(w), ~overlapped'
    PROVE  Orderly'
<1>1. PICK d \in Docs : /\ Start(w, d, "select")
                        /\ overlapped' = (overlapped \/ Others(w) # {})
                        /\ built' = built \ {d}
  BY DEF StartDeletion
<1>2. PICK s : s = [Idle EXCEPT !.phase = "select", !.doc = d]
  OBVIOUS
<1>3. store' = store /\ worker' = [worker EXCEPT ![w] = s]
  BY <1>1, <1>2 DEF Start
<1>4. s.phase = "select" /\ s.doc = d
  BY <1>2 DEF Idle
<1>5. \A v \in Workers : worker'[v] = IF v = w THEN s ELSE worker[v]
  BY <1>3 DEF IInv, Working
<1>6. \A v \in Workers \ {w} : worker[v].phase = "idle"
  BY <1>1 DEF Others
<1>7. Alone'
  BY <1>4, <1>5, <1>6 DEF Alone, Deleting
<1>8. Builds(s)' /\ Deletes(s)'
  BY <1>1, <1>4 DEF Builds, Deletes, MergingNode, MergingEdge, Rewriting
<1>9. QED
  BY <1>1, <1>3, <1>7, <1>8, Steady

-----------------------------------------------------------------------------
(* Deletions                                                               *)

\* A step of a deletion: everyone else is idle.
LEMMA DeletionKeeps ==
    ASSUME IInv, Orderly, NEW w \in Workers, worker[w].phase \in DeletionPhases,
           NEW s, worker' = [worker EXCEPT ![w] = s], s.phase \in DeletionPhases \cup {"idle"},
           Contents', Deletes(s)'
    PROVE  Orderly'
<1>1. \A v \in Workers \ {w} : worker[v].phase = "idle"
  BY DEF Orderly, Alone, Deleting, DeletionPhases, Rewriting
<1>2. \A v \in Workers : worker'[v] = IF v = w THEN s ELSE worker[v]
  BY DEF IInv, Working
<1>3. \A v \in Workers \ {w} : worker'[v].phase = "idle"
  BY <1>1, <1>2
<1>4. Alone'
  BY <1>3 DEF Alone, Deleting
<1>5. ASSUME NEW v \in Workers
      PROVE  Builds(worker[v])' /\ Deletes(worker[v])'
  <2>1. CASE v = w
    BY <1>2, <2>1 DEF Builds, Deletes, DeletionPhases, Rewriting, MergingNode, MergingEdge
  <2>2. CASE v # w
    BY <1>3, <2>2 DEF Builds, Deletes, Rewriting, MergingNode, MergingEdge
  <2>3. QED
    BY <2>1, <2>2
<1>6. QED
  BY <1>4, <1>5 DEF Orderly

Outline(S, f, writes, gone, rows) ==
    /\ f \in [S -> SUBSET Chunks] /\ writes \subseteq S \X SUBSET Chunks
    /\ Live(f, rows) /\ Plan(f, writes, gone, rows)

\* The store and the plan after some writes.
Outcome(S, f, g, writes, done, gone, rows) ==
    /\ g \in [S -> SUBSET Chunks] /\ Live(g, rows) /\ Plan(g, writes \ done, gone, rows)
    /\ \A x \in S : /\ f[x] \ gone \subseteq g[x]
                    /\ \/ g[x] = f[x] /\ \A u \in done : u[1] # x
                       \/ \E u \in done : u[1] = x /\ g[x] = u[2]

LEMMA WrittenPlan ==
    ASSUME NEW S, NEW f, NEW rows, NEW gone, NEW writes, NEW done, done \subseteq writes,
           Outline(S, f, writes, gone, rows)
    PROVE  Outcome(S, f, Written(f, done), writes, done, gone, rows)
<1>0. /\ f \in [S -> SUBSET Chunks] /\ writes \subseteq S \X SUBSET Chunks
      /\ Live(f, rows) /\ Plan(f, writes, gone, rows)
  BY DEF Outline
<1>1. PICK g : g = Written(f, done)
  OBVIOUS
<1>2. g \in [S -> SUBSET Chunks]
  BY <1>0, <1>1, WrittenTyped
<1>3. ASSUME NEW u \in done
      PROVE  u[1] \in S /\ g[u[1]] = u[2]
  <2>1. u[1] \in S
    BY <1>0
  <2>2. PICK v : v = CHOOSE x \in done : x[1] = u[1]
    OBVIOUS
  <2>3. v \in done /\ v[1] = u[1]
    BY <2>2
  <2>4. v = u
    BY <1>0, <2>3 DEF Plan
  <2>5. g[u[1]] = v[2]
    BY <1>0, <1>1, <2>1, <2>2 DEF Written
  <2>6. QED
    BY <2>1, <2>4, <2>5
<1>4. ASSUME NEW x \in S, \A u \in done : u[1] # x
      PROVE  g[x] = f[x]
  BY <1>0, <1>1, <1>4 DEF Written
<1>5. \A x \in S : \/ g[x] = f[x] /\ \A u \in done : u[1] # x
                   \/ \E u \in done : u[1] = x /\ g[x] = u[2]
  BY <1>3, <1>4
<1>6. \A x \in S : f[x] \ gone \subseteq g[x]
  BY <1>0, <1>5 DEF Plan
<1>7. Live(g, rows)
  BY <1>0, <1>2, <1>5 DEF Plan, Live
<1>8. Plan(g, writes \ done, gone, rows)
  <2>1. ASSUME NEW u \in writes \ done
        PROVE  u[2] \subseteq rows \ gone /\ g[u[1]] \ gone \subseteq u[2]
    <3>1. \A v \in done : v[1] # u[1]
      BY <1>0 DEF Plan
    <3>2. g[u[1]] = f[u[1]]
      BY <1>0, <1>4, <3>1
    <3>3. QED
      BY <1>0, <3>2 DEF Plan
  <2>2. ASSUME NEW x \in S, g[x] \cap gone # {}
        PROVE  \E u \in writes \ done : u[1] = x
    <3>1. g[x] = f[x] /\ \A u \in done : u[1] # x
      BY <1>0, <1>5, <2>2 DEF Plan
    <3>2. QED
      BY <1>0, <2>2, <3>1 DEF Plan
  <2>3. \A u, v \in writes \ done : u[1] = v[1] => u = v
    BY <1>0 DEF Plan
  <2>4. DOMAIN g = S
    BY <1>2
  <2>5. QED
    BY <2>1, <2>2, <2>3, <2>4 DEF Plan
<1>9. QED
  BY <1>1, <1>2, <1>5, <1>6, <1>7, <1>8 DEF Outcome

\* The store and the plan after an update, which brings nothing back.
Update(S, f, g, writes, u, gone, rows) ==
    /\ Live(g, rows) /\ Plan(g, writes \ {u}, gone, rows)
    /\ \A x \in S : /\ f[x] \ gone \subseteq g[x]
                    /\ f[x] = {} => g[x] = {}
                    /\ g[x] \in {f[x], u[2]}

LEMMA UpdatedPlan ==
    ASSUME NEW S, NEW f, NEW rows, NEW gone, NEW writes, NEW u \in writes, Outline(S, f, writes, gone, rows)
    PROVE  Update(S, f, Updated(f, {u}), writes, u, gone, rows)
<1>1. CASE f[u[1]] # {}
  <2>1. {v \in {u} : f[v[1]] # {}} = {u}
    BY <1>1
  <2>2. Updated(f, {u}) = Written(f, {u})
    BY <2>1 DEF Updated
  <2>3. Outcome(S, f, Written(f, {u}), writes, {u}, gone, rows)
    BY WrittenPlan
  <2>4. QED
    BY <1>1, <2>2, <2>3 DEF Outcome, Update
<1>2. CASE f[u[1]] = {}
  <2>1. {v \in {u} : f[v[1]] # {}} = {}
    BY <1>2
  <2>2. Updated(f, {u}) = [x \in S |-> f[x]]
    BY <2>1 DEF Updated, Written, Outline
  <2>3. Updated(f, {u}) = f
    BY <2>2 DEF Outline
  <2>4. Plan(f, writes \ {u}, gone, rows) /\ Live(f, rows)
    BY <1>2 DEF Plan, Outline
  <2>5. QED
    BY <2>3, <2>4 DEF Update
<1>3. QED
  BY <1>1, <1>2

LEMMA PairsNamed == \A p \in Pairs : p # {}
<1>1. SUFFICES ASSUME NEW p \in Pairs, p = {} PROVE FALSE
  OBVIOUS
<1>2. Cardinality(p) = 2
  BY <1>1, ExtractionAssumption DEF Pairs
<1>3. QED
  BY <1>1, <1>2, FS_EmptySet

\* The stores lose what is gone, and nothing else that is shown.
Thinned(gone) ==
    /\ \A c \in gone : chunk[c] \notin built
    /\ \A e \in Entities : node[e] \ gone \subseteq node'[e] /\ Known[e] \ gone \subseteq Known'[e]
    /\ \A p \in Pairs : relationVector[p] \ gone \subseteq relationVector'[p]
    /\ \A c \in Chunks : chunk[c] \in built =>
           \A p \in Relations(c) : p \subseteq Named /\ c \in edge[p] => c \in edge'[p]

LEMMA ThinnedContents ==
    ASSUME Orderly, chunk' = chunk, built' = built, NEW gone, Thinned(gone),
           Live(node, Rows)', Live(Known, Rows)', Live(edge, Rows)', Live(relationVector, Rows)', Ends'
    PROVE  Contents'
<1>1. Homes'
  BY DEF Orderly, Contents, Homes
<1>2. ASSUME NEW c \in Chunks, chunk'[c] \in built'
      PROVE  Display(c)'
  <2>1. Display(c) /\ c \notin gone /\ chunk[c] \in built
    BY <1>2 DEF Orderly, Contents, Thinned
  <2>2. \A e \in Mentions(c) \cap Named : c \in Seen(e)'
    BY <2>1 DEF Display, Seen, Named, Thinned
  <2>3. \A p \in Relations(c) : p \in Pairs
    BY DEF Pairs
  <2>4. ASSUME NEW p \in Relations(c), p \subseteq Named
        PROVE  c \in Drawn(p)'
    <3>1. c \in edge[p] /\ c \in relationVector[p]
      BY <2>1, <2>4 DEF Display, Drawn
    <3>2. c \in edge'[p]
      BY <2>1, <2>4, <3>1 DEF Thinned
    <3>3. c \in relationVector'[p]
      BY <2>1, <2>3, <3>1 DEF Thinned
    <3>4. QED
      BY <3>2, <3>3 DEF Drawn
  <2>5. QED
    BY <2>2, <2>4 DEF Display
<1>3. QED
  BY <1>1, <1>2 DEF Contents

LEMMA SelectOrderly ==
    ASSUME IInv, Orderly, NEW w \in Workers, SelectChunks(w)
    PROVE  Orderly'
<1>1. PICK t : t = worker[w]
  OBVIOUS
<1>2. PICK gone : gone = Owned(t.doc)
  OBVIOUS
<1>3. t \in WorkerStates /\ t.phase = "select" /\ store' = store /\ built' = built /\ t.doc \notin built
  BY <1>1 DEF SelectChunks, IInv, Working, Orderly, Deletes
<1>4. worker' = [worker EXCEPT ![w] = IF gone = {} THEN Idle ELSE [t EXCEPT !.phase = "scan", !.gone = gone]]
  BY <1>1, <1>2 DEF SelectChunks
<1>5. PICK s : s = IF gone = {} THEN Idle ELSE [t EXCEPT !.phase = "scan", !.gone = gone]
  OBVIOUS
<1>6. s.phase \in {"idle", "scan"} /\ (s.phase = "scan" => s.doc = t.doc /\ s.gone = gone)
  BY <1>3, <1>5, IdleFine DEF WorkerStates
<1>7. chunk' = chunk /\ \A c \in gone : chunk[c] = t.doc
  BY <1>2, <1>3 DEF Owned, store, Known
<1>8. Deletes(s)'
  BY <1>3, <1>6, <1>7 DEF Deletes, Rewriting
<1>9. QED
  BY <1>1, <1>3, <1>4, <1>5, <1>6, <1>8, SameContents, DeletionKeeps DEF DeletionPhases

\* g is f where it loses a source.
Sheds(S, f, g, gone, rows) ==
    /\ DOMAIN f = S /\ DOMAIN g \subseteq S /\ \A x \in DOMAIN g : g[x] = f[x]
    /\ Live(f, rows) /\ \A x \in S : f[x] \cap gone # {} => x \in DOMAIN g

LEMMA Planned ==
    ASSUME NEW S, NEW f, NEW g, NEW rows, NEW gone, Sheds(S, f, g, gone, rows)
    PROVE  Plan(f, Touched(g, gone), gone, rows) /\ Plan(f, Present(g, gone), gone, rows)
<1>1. ASSUME NEW u \in Touched(g, gone) \cup Present(g, gone)
      PROVE  u[2] \subseteq rows \ gone /\ f[u[1]] \ gone \subseteq u[2]
  <2>1. PICK x \in DOMAIN g : u = <<x, g[x] \ gone>>
    BY DEF Touched, Present
  <2>2. u[1] = x /\ u[2] = f[x] \ gone /\ x \in DOMAIN f
    BY <2>1 DEF Sheds
  <2>3. QED
    BY <2>2 DEF Live, Sheds
<1>2. \A u, v \in Touched(g, gone) : u[1] = v[1] => u = v
  BY DEF Touched
<1>3. \A u, v \in Present(g, gone) : u[1] = v[1] => u = v
  BY DEF Present
<1>4. ASSUME NEW x \in S, f[x] \cap gone # {}
      PROVE  (\E u \in Touched(g, gone) : u[1] = x) /\ (\E u \in Present(g, gone) : u[1] = x)
  <2>1. x \in DOMAIN g /\ g[x] \cap gone # {} /\ g[x] # {}
    BY <1>4 DEF Sheds
  <2>2. <<x, g[x] \ gone>> \in Touched(g, gone) /\ <<x, g[x] \ gone>> \in Present(g, gone)
    BY <2>1 DEF Touched, Present
  <2>3. QED
    BY <2>2
<1>5. DOMAIN f = S
  BY DEF Sheds
<1>6. Plan(f, Touched(g, gone), gone, rows)
  BY <1>1, <1>2, <1>4, <1>5 DEF Plan
<1>7. QED
  BY <1>1, <1>3, <1>4, <1>5, <1>6 DEF Plan

LEMMA ScanOrderly ==
    ASSUME IInv, Orderly, NEW w \in Workers, ScanVectorsAndGraph(w)
    PROVE  Orderly'
<1>1. PICK t : t = worker[w]
  OBVIOUS
<1>2. PICK gone : gone = t.gone
  OBVIOUS
<1>3. /\ t \in WorkerStates /\ t.phase = "scan" /\ store' = store /\ built' = built
      /\ t.doc \notin built /\ \A c \in gone : chunk[c] = t.doc
  BY <1>1, <1>2 DEF ScanVectorsAndGraph, IInv, Working, Orderly, Deletes
<1>4. PICK s : s = [t EXCEPT !.phase = "entityVectors",
                      !.entityWrites = Touched(entityVector, gone),
                      !.relationWrites = Touched(relationVector, gone),
                      !.nodeWrites = Present(node, gone),
                      !.edgeWrites = Present(Reachable(edge), gone)]
  OBVIOUS
<1>5. worker' = [worker EXCEPT ![w] = s]
  BY <1>1, <1>2, <1>4 DEF ScanVectorsAndGraph
<1>6. /\ s.phase = "entityVectors" /\ s.doc = t.doc /\ s.gone = gone
      /\ s.entityWrites = Touched(entityVector, gone) /\ s.relationWrites = Touched(relationVector, gone)
      /\ s.nodeWrites = Present(node, gone) /\ s.edgeWrites = Present(Reachable(edge), gone)
  BY <1>2, <1>3, <1>4 DEF WorkerStates
<1>7. /\ node \in [Entities -> SUBSET Chunks] /\ Known \in [Entities -> SUBSET Chunks]
      /\ edge \in [Pairs -> SUBSET Chunks] /\ relationVector \in [Pairs -> SUBSET Chunks]
      /\ Live(node, Rows) /\ Live(Known, Rows) /\ Live(edge, Rows) /\ Live(relationVector, Rows) /\ Ends
  BY KnownTyped DEF IInv, Stored, Orderly, Contents
<1>8. /\ Plan(Known, Sound(Touched(entityVector, gone), lost), gone, Rows)
      /\ Plan(relationVector, Touched(relationVector, gone), gone, Rows)
  <2>1. PICK kept : kept = [e \in Entities \ lost |-> entityVector[e]]
    OBVIOUS
  <2>2. DOMAIN kept = Entities \ lost /\ \A e \in Entities \ lost : kept[e] = entityVector[e] /\ kept[e] = Known[e]
    BY <2>1 DEF Known
  <2>3. \A e \in Entities \cap lost : Known[e] = {}
    BY DEF Known
  <2>4. Sheds(Entities, Known, kept, gone, Rows) /\ Sheds(Pairs, relationVector, relationVector, gone, Rows)
    BY <1>7, <2>2, <2>3 DEF Sheds
  <2>5. DOMAIN entityVector = Entities
    BY DEF IInv, Stored
  <2>6. Sound(Touched(entityVector, gone), lost) = Touched(kept, gone)
    BY <2>2, <2>5 DEF Sound, Touched
  <2>7. QED
    BY <2>4, <2>6, Planned
<1>9. Plan(node, Present(node, gone), gone, Rows)
  <2>1. Sheds(Entities, node, node, gone, Rows)
    BY <1>7 DEF Sheds
  <2>2. QED
    BY <2>1, Planned
<1>10. Plan(edge, Present(Reachable(edge), gone), gone, Rows)
  <2>1. PICK found : found = Reachable(edge)
    OBVIOUS
  <2>2. DOMAIN found \in SUBSET Pairs /\ \A p \in DOMAIN found : found[p] = edge[p]
    BY <1>7, <2>1 DEF Reachable
  <2>3. ASSUME NEW p \in Pairs, edge[p] # {}
        PROVE  p \in DOMAIN found
    <3>1. \E e \in p : node[e] # {}
      BY <1>7, <2>3, PairsNamed DEF Ends
    <3>2. QED
      BY <1>7, <2>1, <3>1 DEF Reachable
  <2>4. \A p \in Pairs : edge[p] \cap gone # {} => p \in DOMAIN found
    BY <2>3
  <2>5. Plan(edge, Present(found, gone), gone, Rows)
    <3>1. Sheds(Pairs, edge, found, gone, Rows)
      BY <1>7, <2>2, <2>4 DEF Sheds
    <3>2. QED
      BY <3>1, Planned
  <2>6. QED
    BY <2>1, <2>5
<1>11. Deletes(s)
  BY <1>3, <1>6, <1>8, <1>9, <1>10 DEF Deletes, Rewriting
<1>12. Deletes(s)'
  BY <1>3, <1>11 DEF Deletes, store, Known, Rows
<1>13. QED
  BY <1>1, <1>3, <1>5, <1>6, <1>12, SameContents, DeletionKeeps DEF DeletionPhases, Rewriting

\* What a worker that rewrites the stores goes by.
LEMMA RewritingFacts ==
    ASSUME IInv, Orderly, NEW w \in Workers, worker[w].phase \in Rewriting
    PROVE  /\ worker[w] \in WorkerStates /\ Deletes(worker[w])
           /\ \A c \in worker[w].gone : chunk[c] = worker[w].doc
           /\ worker[w].doc \notin built
           /\ node \in [Entities -> SUBSET Chunks] /\ Known \in [Entities -> SUBSET Chunks]
           /\ edge \in [Pairs -> SUBSET Chunks] /\ relationVector \in [Pairs -> SUBSET Chunks]
           /\ Live(node, Rows) /\ Live(Known, Rows) /\ Live(edge, Rows) /\ Live(relationVector, Rows)
           /\ Ends
<1>1. worker[w] \in WorkerStates /\ Deletes(worker[w])
  BY DEF IInv, Working, Orderly
<1>2. (\A c \in worker[w].gone : chunk[c] = worker[w].doc) /\ worker[w].doc \notin built
  BY <1>1 DEF Deletes
<1>3. QED
  BY <1>1, <1>2, KnownTyped DEF IInv, Stored, Orderly, Contents

LEMMA Outlines ==
    ASSUME IInv, Orderly, NEW w \in Workers, worker[w].phase \in Rewriting
    PROVE  /\ Outline(Entities, Known, Sound(worker[w].entityWrites, lost), worker[w].gone, Rows)
           /\ Outline(Pairs, relationVector, worker[w].relationWrites, worker[w].gone, Rows)
           /\ Outline(Entities, node, worker[w].nodeWrites, worker[w].gone, Rows)
           /\ Outline(Pairs, edge, worker[w].edgeWrites, worker[w].gone, Rows)
<1>1. PICK t : t = worker[w]
  OBVIOUS
<1>2. t \in WorkerStates /\ Deletes(t) /\ t.phase \in Rewriting
  BY <1>1, RewritingFacts
<1>3. /\ t.entityWrites \subseteq Entities \X SUBSET Chunks /\ t.relationWrites \subseteq Pairs \X SUBSET Chunks
      /\ t.nodeWrites \subseteq Entities \X SUBSET Chunks /\ t.edgeWrites \subseteq Pairs \X SUBSET Chunks
  BY <1>2 DEF WorkerStates
<1>4. /\ Plan(Known, Sound(t.entityWrites, lost), t.gone, Rows) /\ Plan(relationVector, t.relationWrites, t.gone, Rows)
      /\ Plan(node, t.nodeWrites, t.gone, Rows) /\ Plan(edge, t.edgeWrites, t.gone, Rows)
  BY <1>2 DEF Deletes
<1>5. Sound(t.entityWrites, lost) \subseteq Entities \X SUBSET Chunks
  BY <1>3 DEF Sound
<1>6. QED
  BY <1>1, <1>3, <1>4, <1>5, RewritingFacts DEF Outline

\* What a step leaves of a deletion: the writes of one store are done, in part.
Goes(t, s) == s.doc = t.doc /\ s.gone = t.gone

\* The writes of a step to the vectors of entities: one that fails in silence
\* leaves the known vectors as if it had been done.
EntityRewrite(t, s, done) ==
    /\ t.phase = "entityVectors" /\ done \subseteq Sound(t.entityWrites, lost)
    /\ s.phase = "entityVectors" \/ (s.phase = "relationVectors" /\ s.entityWrites = {})
    /\ Goes(t, s) /\ s.relationWrites = t.relationWrites /\ s.nodeWrites = t.nodeWrites /\ s.edgeWrites = t.edgeWrites

LEMMA EntityVectorsWritten ==
    ASSUME IInv, Orderly, NEW w \in Workers, NEW t, t = worker[w], NEW s, worker' = [worker EXCEPT ![w] = s],
           NEW done, EntityRewrite(t, s, done), Known' = Written(Known, done),
           Sound(s.entityWrites, lost') = Sound(t.entityWrites, lost) \ done,
           chunk' = chunk, node' = node, edge' = edge, relationVector' = relationVector, built' = built
    PROVE  Orderly'
<1>0. /\ t.phase = "entityVectors" /\ done \subseteq Sound(t.entityWrites, lost)
      /\ s.phase = "entityVectors" \/ (s.phase = "relationVectors" /\ s.entityWrites = {})
      /\ Goes(t, s) /\ s.relationWrites = t.relationWrites /\ s.nodeWrites = t.nodeWrites /\ s.edgeWrites = t.edgeWrites
  BY DEF EntityRewrite
<1>1. /\ Deletes(t) /\ (\A c \in t.gone : chunk[c] = t.doc) /\ t.doc \notin built /\ t.phase \in Rewriting
      /\ Live(node, Rows) /\ Live(edge, Rows) /\ Live(relationVector, Rows) /\ Ends
      /\ Outline(Entities, Known, Sound(t.entityWrites, lost), t.gone, Rows)
  BY <1>0, RewritingFacts, Outlines DEF Rewriting
<1>2. Outcome(Entities, Known, Known', Sound(t.entityWrites, lost), done, t.gone, Rows)
  BY <1>0, <1>1, WrittenPlan
<1>3. Contents'
  <2>1. Live(node, Rows)' /\ Live(Known, Rows)' /\ Live(edge, Rows)' /\ Live(relationVector, Rows)' /\ Ends'
    BY <1>1, <1>2 DEF Live, Rows, Ends, Outcome
  <2>2. Thinned(t.gone)
    BY <1>1, <1>2 DEF Outcome, Thinned
  <2>3. QED
    BY <1>1, <2>1, <2>2, ThinnedContents
<1>4. Deletes(s)'
  <2>1. Plan(Known, Sound(s.entityWrites, lost), s.gone, Rows)'
    BY <1>0, <1>2 DEF Outcome, Rows, Goes
  <2>2. /\ Plan(relationVector, s.relationWrites, s.gone, Rows)' /\ Plan(node, s.nodeWrites, s.gone, Rows)'
        /\ Plan(edge, s.edgeWrites, s.gone, Rows)'
    BY <1>0, <1>1 DEF Deletes, Rows, Goes
  <2>3. s.doc \notin built' /\ \A c \in s.gone : chunk'[c] = s.doc
    BY <1>0, <1>1 DEF Goes
  <2>4. QED
    BY <1>0, <2>1, <2>2, <2>3 DEF Deletes
<1>5. QED
  BY <1>0, <1>3, <1>4, DeletionKeeps DEF DeletionPhases, Rewriting

\* What is written over the vectors is written over the known ones.
LEMMA KnownWritten ==
    ASSUME IInv, NEW writes, entityVector' = Written(entityVector, writes), lost' = lost
    PROVE  Known' = Written(Known, Sound(writes, lost))
<1>1. entityVector \in [Entities -> SUBSET Chunks] /\ DOMAIN Known = Entities
  BY DEF IInv, Stored, Known
<1>2. PICK g : g = Written(Known, Sound(writes, lost))
  OBVIOUS
<1>3. ASSUME NEW e \in Entities
      PROVE  Known'[e] = g[e]
  <2>1. CASE e \in lost
    <3>1. ~ \E u \in Sound(writes, lost) : u[1] = e
      BY <2>1 DEF Sound
    <3>2. g[e] = Known[e]
      BY <1>1, <1>2, <3>1 DEF Written
    <3>3. QED
      BY <2>1, <3>2 DEF Known
  <2>2. CASE e \notin lost
    <3>1. {u \in Sound(writes, lost) : u[1] = e} = {u \in writes : u[1] = e}
      BY <2>2 DEF Sound
    <3>2. (\E u \in Sound(writes, lost) : u[1] = e) <=> (\E u \in writes : u[1] = e)
      BY <3>1
    <3>3. (CHOOSE u \in Sound(writes, lost) : u[1] = e) = (CHOOSE u \in writes : u[1] = e)
      <4>1. \A u : (u \in Sound(writes, lost) /\ u[1] = e) <=> (u \in writes /\ u[1] = e)
        BY <3>1
      <4>2. QED
        BY <4>1
    <3>4. g[e] = IF \E u \in writes : u[1] = e THEN (CHOOSE u \in writes : u[1] = e)[2] ELSE Known[e]
      BY <1>1, <1>2, <3>2, <3>3 DEF Written
    <3>5. entityVector'[e] = IF \E u \in writes : u[1] = e THEN (CHOOSE u \in writes : u[1] = e)[2] ELSE entityVector[e]
      BY <1>1 DEF Written
    <3>6. QED
      BY <2>2, <3>4, <3>5 DEF Known
  <2>3. QED
    BY <2>1, <2>2
<1>4. g = [e \in Entities |-> g[e]]
  BY <1>1, <1>2 DEF Written
<1>5. Known' = [e \in Entities |-> Known'[e]]
  BY DEF Known
<1>6. QED
  BY <1>2, <1>3, <1>4, <1>5

LEMMA WriteEntityVectorsOrderly ==
    ASSUME IInv, Orderly, NEW w \in Workers, WriteEntityVectors(w)
    PROVE  Orderly'
<1>1. PICK t : t = worker[w]
  OBVIOUS
<1>2. t \in WorkerStates /\ t.phase = "entityVectors"
  BY <1>1 DEF IInv, Working, WriteEntityVectors
<1>3. chunk' = chunk /\ node' = node /\ edge' = edge /\ relationVector' = relationVector /\ built' = built /\ lost' = lost
  BY DEF WriteEntityVectors
<1>4. ASSUME NEW u \in Dropped(t.entityWrites), entityVector' = Written(entityVector, {u}),
             worker' = [worker EXCEPT ![w] = [t EXCEPT !.entityWrites = @ \ {u}]]
      PROVE  Orderly'
  <2>1. PICK s : s = [t EXCEPT !.entityWrites = @ \ {u}]
    OBVIOUS
  <2>2. /\ s.phase = "entityVectors" /\ Goes(t, s) /\ s.entityWrites = t.entityWrites \ {u}
        /\ s.relationWrites = t.relationWrites /\ s.nodeWrites = t.nodeWrites /\ s.edgeWrites = t.edgeWrites
    BY <1>2, <2>1 DEF WorkerStates, Goes
  <2>3. PICK done : done = Sound({u}, lost)
    OBVIOUS
  <2>4. done \subseteq Sound(t.entityWrites, lost) /\ Sound(s.entityWrites, lost) = Sound(t.entityWrites, lost) \ done
    BY <1>2, <2>2, <2>3 DEF Sound, Dropped
  <2>5. Known' = Written(Known, done) /\ worker' = [worker EXCEPT ![w] = s]
    BY <1>3, <1>4, <2>1, <2>3, KnownWritten
  <2>6. EntityRewrite(t, s, done)
    BY <1>2, <2>2, <2>4 DEF EntityRewrite
  <2>7. QED
    BY <1>1, <1>3, <2>4, <2>5, <2>6, EntityVectorsWritten
<1>5. ASSUME entityVector' = Written(entityVector, t.entityWrites),
             worker' = [worker EXCEPT ![w] = [t EXCEPT !.phase = "relationVectors", !.entityWrites = {}]]
      PROVE  Orderly'
  <2>1. PICK s : s = [t EXCEPT !.phase = "relationVectors", !.entityWrites = {}]
    OBVIOUS
  <2>2. /\ s.phase = "relationVectors" /\ Goes(t, s) /\ s.entityWrites = {}
        /\ s.relationWrites = t.relationWrites /\ s.nodeWrites = t.nodeWrites /\ s.edgeWrites = t.edgeWrites
    BY <1>2, <2>1 DEF WorkerStates, Goes
  <2>3. PICK done : done = Sound(t.entityWrites, lost)
    OBVIOUS
  <2>4. EntityRewrite(t, s, done)
    BY <1>2, <2>2, <2>3 DEF EntityRewrite
  <2>5. Known' = Written(Known, done) /\ worker' = [worker EXCEPT ![w] = s]
    BY <1>3, <1>5, <2>1, <2>3, KnownWritten
  <2>6. Sound(s.entityWrites, lost) = Sound(t.entityWrites, lost) \ done
    BY <2>2, <2>3 DEF Sound
  <2>7. QED
    BY <1>1, <1>3, <2>4, <2>5, <2>6, EntityVectorsWritten
<1>6. QED
  BY <1>1, <1>4, <1>5 DEF WriteEntityVectors

\* A removal that fails in silence makes the vector one of the lost.
LEMMA LoseEntityVectorOrderly ==
    ASSUME IInv, Orderly, NEW w \in Workers, LoseEntityVector(w)
    PROVE  Orderly'
<1>1. PICK t : t = worker[w]
  OBVIOUS
<1>2. t \in WorkerStates /\ t.phase = "entityVectors"
  BY <1>1 DEF IInv, Working, LoseEntityVector
<1>3. /\ chunk' = chunk /\ node' = node /\ edge' = edge /\ relationVector' = relationVector /\ built' = built
      /\ entityVector' = entityVector
  BY DEF LoseEntityVector
<1>4. PICK u \in Dropped(t.entityWrites) :
        lost' = lost \cup {u[1]} /\ worker' = [worker EXCEPT ![w] = [t EXCEPT !.entityWrites = @ \ {u}]]
  BY <1>1 DEF LoseEntityVector
<1>5. PICK s : s = [t EXCEPT !.entityWrites = @ \ {u}]
  OBVIOUS
<1>6. /\ s.phase = "entityVectors" /\ Goes(t, s) /\ s.entityWrites = t.entityWrites \ {u}
      /\ s.relationWrites = t.relationWrites /\ s.nodeWrites = t.nodeWrites /\ s.edgeWrites = t.edgeWrites
  BY <1>2, <1>5 DEF WorkerStates, Goes
<1>7. PICK done : done = Sound({u}, lost)
  OBVIOUS
<1>8. u \in t.entityWrites /\ u[2] = {} /\ u[1] \in Entities
  BY <1>2 DEF Dropped, WorkerStates
<1>9. \A v \in Sound(t.entityWrites, lost) : v[1] = u[1] => v = u
  <2>1. Plan(Known, Sound(t.entityWrites, lost), t.gone, Rows)
    BY <1>1, <1>2 DEF Orderly, Deletes, Rewriting
  <2>2. ASSUME NEW v \in Sound(t.entityWrites, lost), v[1] = u[1]
        PROVE  v = u
    <3>1. u \in Sound(t.entityWrites, lost)
      BY <1>8, <2>2 DEF Sound
    <3>2. QED
      BY <2>1, <2>2, <3>1 DEF Plan
  <2>3. QED
    BY <2>2
<1>10. done \subseteq Sound(t.entityWrites, lost)
  BY <1>7, <1>8 DEF Sound
<1>11. Sound(s.entityWrites, lost') = Sound(t.entityWrites, lost) \ done
  BY <1>4, <1>6, <1>7, <1>9 DEF Sound
<1>12. Known' = Written(Known, done)
  <2>1. DOMAIN Known = Entities
    BY DEF Known
  <2>2. PICK g : g = Written(Known, done)
    OBVIOUS
  <2>3. ASSUME NEW e \in Entities
        PROVE  Known'[e] = g[e]
    <3>1. CASE e = u[1] /\ e \notin lost
      <4>1. done = {u}
        BY <1>7, <3>1 DEF Sound
      <4>2. (CHOOSE v \in done : v[1] = e) = u /\ \E v \in done : v[1] = e
        BY <3>1, <4>1
      <4>3. g[e] = {}
        BY <1>8, <2>1, <2>2, <4>2 DEF Written
      <4>4. QED
        BY <1>4, <3>1, <4>3 DEF Known
    <3>2. CASE e # u[1] \/ e \in lost
      <4>1. ~ \E v \in done : v[1] = e
        BY <1>7, <3>2 DEF Sound
      <4>2. g[e] = Known[e]
        BY <2>1, <2>2, <4>1 DEF Written
      <4>3. QED
        BY <1>3, <1>4, <3>2, <4>2 DEF Known
    <3>3. QED
      BY <3>1, <3>2
  <2>4. g = [e \in Entities |-> g[e]]
    BY <2>1, <2>2 DEF Written
  <2>5. Known' = [e \in Entities |-> Known'[e]]
    BY DEF Known
  <2>6. QED
    BY <2>2, <2>3, <2>4, <2>5
<1>13. EntityRewrite(t, s, done)
  BY <1>2, <1>6, <1>10 DEF EntityRewrite
<1>14. worker' = [worker EXCEPT ![w] = s]
  BY <1>4, <1>5
<1>15. QED
  BY <1>1, <1>3, <1>11, <1>12, <1>13, <1>14, EntityVectorsWritten

\* The writes of a step to the vectors of relations.
RelationRewrite(t, s, done) ==
    /\ t.phase = "relationVectors" /\ done \subseteq t.relationWrites /\ s.relationWrites = t.relationWrites \ done
    /\ s.phase = "relationVectors" \/ (s.phase = "dropNodes" /\ s.relationWrites = {})
    /\ Goes(t, s) /\ s.entityWrites = t.entityWrites /\ s.nodeWrites = t.nodeWrites /\ s.edgeWrites = t.edgeWrites

LEMMA RelationVectorsWritten ==
    ASSUME IInv, Orderly, NEW w \in Workers, NEW t, t = worker[w], NEW s, worker' = [worker EXCEPT ![w] = s],
           NEW done, RelationRewrite(t, s, done), relationVector' = Written(relationVector, done),
           chunk' = chunk, node' = node, edge' = edge, Known' = Known, lost' = lost, built' = built
    PROVE  Orderly'
<1>0. /\ t.phase = "relationVectors" /\ done \subseteq t.relationWrites /\ s.relationWrites = t.relationWrites \ done
      /\ s.phase = "relationVectors" \/ (s.phase = "dropNodes" /\ s.relationWrites = {})
      /\ Goes(t, s) /\ s.entityWrites = t.entityWrites /\ s.nodeWrites = t.nodeWrites /\ s.edgeWrites = t.edgeWrites
  BY DEF RelationRewrite
<1>1. /\ Deletes(t) /\ (\A c \in t.gone : chunk[c] = t.doc) /\ t.doc \notin built /\ t.phase \in Rewriting
      /\ Live(node, Rows) /\ Live(edge, Rows) /\ Live(Known, Rows) /\ Ends
      /\ Outline(Pairs, relationVector, t.relationWrites, t.gone, Rows)
  BY <1>0, RewritingFacts, Outlines DEF Rewriting
<1>2. Outcome(Pairs, relationVector, relationVector', t.relationWrites, done, t.gone, Rows)
  BY <1>0, <1>1, WrittenPlan
<1>3. Contents'
  <2>1. Live(node, Rows)' /\ Live(Known, Rows)' /\ Live(edge, Rows)' /\ Live(relationVector, Rows)' /\ Ends'
    BY <1>1, <1>2 DEF Live, Rows, Ends, Outcome
  <2>2. Thinned(t.gone)
    BY <1>1, <1>2 DEF Outcome, Thinned
  <2>3. QED
    BY <1>1, <2>1, <2>2, ThinnedContents
<1>4. Deletes(s)'
  <2>1. Plan(relationVector, s.relationWrites, s.gone, Rows)'
    BY <1>0, <1>2 DEF Outcome, Rows, Goes
  <2>2. /\ Plan(Known, Sound(s.entityWrites, lost), s.gone, Rows)' /\ Plan(node, s.nodeWrites, s.gone, Rows)'
        /\ Plan(edge, s.edgeWrites, s.gone, Rows)'
    BY <1>0, <1>1 DEF Deletes, Rows, Goes
  <2>3. s.doc \notin built' /\ \A c \in s.gone : chunk'[c] = s.doc
    BY <1>0, <1>1 DEF Goes
  <2>4. s.entityWrites = {}
    BY <1>0, <1>1 DEF Deletes
  <2>5. QED
    BY <1>0, <2>1, <2>2, <2>3, <2>4 DEF Deletes
<1>5. QED
  BY <1>0, <1>3, <1>4, DeletionKeeps DEF DeletionPhases, Rewriting

LEMMA WriteRelationVectorsOrderly ==
    ASSUME IInv, Orderly, NEW w \in Workers, WriteRelationVectors(w)
    PROVE  Orderly'
<1>1. PICK t : t = worker[w]
  OBVIOUS
<1>2. t \in WorkerStates /\ t.phase = "relationVectors"
  BY <1>1 DEF IInv, Working, WriteRelationVectors
<1>3. chunk' = chunk /\ node' = node /\ edge' = edge /\ Known' = Known /\ lost' = lost /\ built' = built
  BY DEF WriteRelationVectors, Known
<1>4. ASSUME relationVector' = Written(relationVector, Dropped(t.relationWrites)),
             worker' = [worker EXCEPT ![w] = [t EXCEPT !.relationWrites = t.relationWrites \ Dropped(t.relationWrites)]]
      PROVE  Orderly'
  <2>1. PICK s : s = [t EXCEPT !.relationWrites = t.relationWrites \ Dropped(t.relationWrites)]
    OBVIOUS
  <2>2. /\ s.phase = "relationVectors" /\ Goes(t, s) /\ s.relationWrites = t.relationWrites \ Dropped(t.relationWrites)
        /\ s.entityWrites = t.entityWrites /\ s.nodeWrites = t.nodeWrites /\ s.edgeWrites = t.edgeWrites
    BY <1>2, <2>1 DEF WorkerStates, Goes
  <2>3. PICK done : done = Dropped(t.relationWrites)
    OBVIOUS
  <2>4. RelationRewrite(t, s, done)
    BY <1>2, <2>2, <2>3 DEF RelationRewrite, Dropped
  <2>5. relationVector' = Written(relationVector, done) /\ worker' = [worker EXCEPT ![w] = s]
    BY <1>4, <2>1, <2>3
  <2>6. QED
    BY <1>1, <1>3, <2>4, <2>5, RelationVectorsWritten
<1>5. ASSUME relationVector' = Written(relationVector, t.relationWrites),
             worker' = [worker EXCEPT ![w] = [t EXCEPT !.phase = "dropNodes", !.relationWrites = {}]]
      PROVE  Orderly'
  <2>1. PICK s : s = [t EXCEPT !.phase = "dropNodes", !.relationWrites = {}]
    OBVIOUS
  <2>2. /\ s.phase = "dropNodes" /\ Goes(t, s) /\ s.relationWrites = {}
        /\ s.entityWrites = t.entityWrites /\ s.nodeWrites = t.nodeWrites /\ s.edgeWrites = t.edgeWrites
    BY <1>2, <2>1 DEF WorkerStates, Goes
  <2>3. RelationRewrite(t, s, t.relationWrites)
    BY <1>2, <2>2 DEF RelationRewrite
  <2>4. QED
    BY <1>1, <1>3, <1>5, <2>1, <2>3, RelationVectorsWritten
<1>6. QED
  BY <1>1, <1>4, <1>5 DEF WriteRelationVectors

LEMMA DropNodesOrderly ==
    ASSUME IInv, Orderly, NEW w \in Workers, DropNodes(w)
    PROVE  Orderly'
<1>1. PICK t : t = worker[w]
  OBVIOUS
<1>2. PICK done : done = Dropped(t.nodeWrites)
  OBVIOUS
<1>3. PICK names : names = {u[1] : u \in done}
  OBVIOUS
<1>4. PICK s : s = [t EXCEPT !.phase = "nodes", !.nodeWrites = @ \ done]
  OBVIOUS
<1>5. /\ t.phase = "dropNodes" /\ node' = Written(node, done) /\ worker' = [worker EXCEPT ![w] = s]
      /\ edge' = [p \in DOMAIN edge |-> IF p \cap names # {} THEN {} ELSE edge[p]]
      /\ chunk' = chunk /\ Known' = Known /\ lost' = lost /\ relationVector' = relationVector /\ built' = built
  BY <1>1, <1>2, <1>3, <1>4 DEF DropNodes, Known
<1>6. /\ t \in WorkerStates /\ Deletes(t) /\ (\A c \in t.gone : chunk[c] = t.doc) /\ t.doc \notin built
      /\ t.phase \in Rewriting /\ edge \in [Pairs -> SUBSET Chunks]
      /\ Live(edge, Rows) /\ Live(Known, Rows) /\ Live(relationVector, Rows) /\ Ends
      /\ Outline(Entities, node, t.nodeWrites, t.gone, Rows)
  BY <1>1, <1>5, RewritingFacts, Outlines DEF Rewriting
<1>7. done \subseteq t.nodeWrites /\ (\A u \in done : u[2] = {}) /\ (\A u \in t.nodeWrites \ done : u[2] # {})
  BY <1>2 DEF Dropped
<1>8. Outcome(Entities, node, node', t.nodeWrites, done, t.gone, Rows)
  BY <1>5, <1>6, <1>7, WrittenPlan
<1>9. \A p \in Pairs : edge'[p] = IF p \cap names # {} THEN {} ELSE edge[p]
  BY <1>5, <1>6
<1>10. \A e \in Entities : e \notin names => node'[e] = node[e]
  BY <1>3, <1>8 DEF Outcome
<1>11. ASSUME NEW c \in Chunks, chunk[c] \in built, NEW p \in Relations(c), p \subseteq Named, c \in edge[p]
       PROVE  c \in edge'[p]
  <2>1. Display(c) /\ c \notin t.gone /\ p \in Pairs
    BY <1>6, <1>11 DEF Orderly, Contents, Pairs
  <2>2. ASSUME NEW e \in p, e \in names
        PROVE  FALSE
    <3>1. e \in Entities /\ e \in Mentions(c)
      BY <1>11 DEF Named, AlwaysNamed
    <3>2. c \in node[e]
      BY <1>11, <2>1, <3>1 DEF Display, Seen
    <3>3. PICK u \in done : u[1] = e
      BY <1>3, <2>2
    <3>4. node[e] \ t.gone \subseteq u[2]
      BY <1>6, <1>7, <3>3 DEF Outline, Plan
    <3>5. QED
      BY <1>7, <2>1, <3>2, <3>3, <3>4
  <2>3. p \cap names = {}
    BY <2>2
  <2>4. QED
    BY <1>9, <1>11, <2>1, <2>3
<1>12. Contents'
  <2>1. Live(node, Rows)' /\ Live(Known, Rows)' /\ Live(relationVector, Rows)'
    BY <1>5, <1>6, <1>8 DEF Live, Rows, Outcome
  <2>2. Live(edge, Rows)'
    BY <1>5, <1>6, <1>9 DEF Live, Rows
  <2>3. Ends'
    <3>1. SUFFICES ASSUME NEW p \in Pairs, edge'[p] # {}, NEW e \in p
                   PROVE  node'[e] # {}
      BY DEF Ends
    <3>2. edge[p] # {} /\ e \notin names /\ e \in Entities
      BY <1>9, <3>1, Names
    <3>3. QED
      BY <1>6, <1>10, <3>2 DEF Ends
  <2>4. \A e \in Entities : node[e] \ t.gone \subseteq node'[e]
    BY <1>8 DEF Outcome
  <2>5. \A c \in Chunks : chunk[c] \in built =>
            \A p \in Relations(c) : p \subseteq Named /\ c \in edge[p] => c \in edge'[p]
    BY <1>11
  <2>6. Thinned(t.gone)
    BY <1>5, <1>6, <2>4, <2>5 DEF Thinned
  <2>7. QED
    BY <1>5, <2>1, <2>2, <2>3, <2>6, ThinnedContents
<1>13. /\ s.phase = "nodes" /\ Goes(t, s) /\ s.nodeWrites = t.nodeWrites \ done
       /\ s.entityWrites = t.entityWrites /\ s.relationWrites = t.relationWrites /\ s.edgeWrites = t.edgeWrites
  BY <1>4, <1>6 DEF WorkerStates, Goes
<1>14. Deletes(s)'
  <2>1. Plan(node, s.nodeWrites, s.gone, Rows)'
    BY <1>5, <1>8, <1>13 DEF Outcome, Rows, Goes
  <2>2. Plan(Known, Sound(s.entityWrites, lost), s.gone, Rows)' /\ Plan(relationVector, s.relationWrites, s.gone, Rows)'
    BY <1>5, <1>6, <1>13 DEF Deletes, Rows, Goes
  <2>3. Plan(edge, t.edgeWrites, t.gone, Rows)
    BY <1>6 DEF Deletes
  <2>4. \A p \in Pairs : edge'[p] \subseteq edge[p]
    BY <1>9
  <2>5. DOMAIN edge = Pairs /\ DOMAIN edge' = Pairs
    BY <1>5, <1>6
  <2>6. t.edgeWrites \subseteq Pairs \X SUBSET Chunks
    BY <1>6 DEF WorkerStates
  <2>7. Plan(edge', t.edgeWrites, t.gone, Rows)
    BY <2>3, <2>4, <2>5, <2>6 DEF Plan
  <2>8. Plan(edge, s.edgeWrites, s.gone, Rows)'
    BY <1>5, <1>13, <2>7 DEF Rows, Goes
  <2>9. s.doc \notin built' /\ \A c \in s.gone : chunk'[c] = s.doc
    BY <1>5, <1>6, <1>13 DEF Goes
  <2>10. s.entityWrites = {} /\ s.relationWrites = {}
    BY <1>5, <1>6, <1>13 DEF Deletes
  <2>11. QED
    BY <1>7, <1>13, <2>1, <2>2, <2>8, <2>9, <2>10 DEF Deletes
<1>15. QED
  BY <1>1, <1>5, <1>12, <1>13, <1>14, DeletionKeeps DEF DeletionPhases, Rewriting

LEMMA UpdateNodesOrderly ==
    ASSUME IInv, Orderly, NEW w \in Workers, UpdateNodes(w)
    PROVE  Orderly'
<1>1. PICK t : t = worker[w]
  OBVIOUS
<1>2. /\ t.phase = "nodes" /\ chunk' = chunk /\ edge' = edge /\ Known' = Known /\ lost' = lost
      /\ entityVector' = entityVector /\ relationVector' = relationVector /\ built' = built
  BY <1>1 DEF UpdateNodes, Known
<1>3. /\ t \in WorkerStates /\ Deletes(t) /\ (\A c \in t.gone : chunk[c] = t.doc) /\ t.doc \notin built
      /\ t.phase \in Rewriting
      /\ Live(edge, Rows) /\ Live(Known, Rows) /\ Live(relationVector, Rows) /\ Ends
      /\ Outline(Entities, node, t.nodeWrites, t.gone, Rows)
  BY <1>1, <1>2, RewritingFacts, Outlines DEF Rewriting
<1>4. ASSUME t.nodeWrites = {}, worker' = [worker EXCEPT ![w] = [t EXCEPT !.phase = "dropEdges"]], node' = node
      PROVE  Orderly'
  <2>1. PICK s : s = [t EXCEPT !.phase = "dropEdges"]
    OBVIOUS
  <2>2. /\ s.phase = "dropEdges" /\ Goes(t, s) /\ s.nodeWrites = {} /\ s.nodeWrites = t.nodeWrites
        /\ s.entityWrites = t.entityWrites /\ s.relationWrites = t.relationWrites /\ s.edgeWrites = t.edgeWrites
    BY <1>3, <1>4, <2>1 DEF WorkerStates, Goes
  <2>3. store' = store
    BY <1>2, <1>4 DEF store
  <2>4. Deletes(s)
    BY <1>2, <1>3, <2>2 DEF Deletes, Goes, Rewriting
  <2>5. Deletes(s)'
    BY <1>2, <2>3, <2>4 DEF Deletes, store, Known, Rows
  <2>6. QED
    BY <1>1, <1>2, <1>4, <2>1, <2>2, <2>3, <2>5, SameContents, DeletionKeeps DEF DeletionPhases, Rewriting
<1>5. ASSUME NEW u \in t.nodeWrites, node' = Updated(node, {u}),
             worker' = [worker EXCEPT ![w] = [t EXCEPT !.nodeWrites = @ \ {u}]]
      PROVE  Orderly'
  <2>1. PICK s : s = [t EXCEPT !.nodeWrites = @ \ {u}]
    OBVIOUS
  <2>2. /\ s.phase = "nodes" /\ Goes(t, s) /\ s.nodeWrites = t.nodeWrites \ {u}
        /\ s.entityWrites = t.entityWrites /\ s.relationWrites = t.relationWrites /\ s.edgeWrites = t.edgeWrites
    BY <1>2, <1>3, <2>1 DEF WorkerStates, Goes
  <2>3. u[2] # {}
    BY <1>2, <1>3 DEF Deletes
  <2>4. /\ Live(node', Rows) /\ Plan(node', t.nodeWrites \ {u}, t.gone, Rows)
        /\ \A e \in Entities : node[e] \ t.gone \subseteq node'[e] /\ node'[e] \in {node[e], u[2]}
    <3>1. Update(Entities, node, node', t.nodeWrites, u, t.gone, Rows)
      BY <1>3, <1>5, UpdatedPlan
    <3>2. QED
      BY <3>1 DEF Update
  <2>5. Live(node, Rows)' /\ Live(edge, Rows)' /\ Live(Known, Rows)' /\ Live(relationVector, Rows)'
    BY <1>2, <1>3, <2>4 DEF Live, Rows
  <2>6. Ends'
    BY <1>2, <1>3, <2>3, <2>4, Names DEF Ends
  <2>7. Contents'
    <3>1. Thinned(t.gone)
      BY <1>2, <1>3, <2>4 DEF Thinned
    <3>2. QED
      BY <1>2, <2>5, <2>6, <3>1, ThinnedContents
  <2>8. Deletes(s)'
    <3>1. Plan(node, s.nodeWrites, s.gone, Rows)'
      BY <1>2, <2>2, <2>4 DEF Rows, Goes
    <3>2. /\ Plan(Known, Sound(s.entityWrites, lost), s.gone, Rows)' /\ Plan(edge, s.edgeWrites, s.gone, Rows)'
          /\ Plan(relationVector, s.relationWrites, s.gone, Rows)'
      BY <1>2, <1>3, <2>2 DEF Deletes, Rows, Goes
    <3>3. s.doc \notin built' /\ \A c \in s.gone : chunk'[c] = s.doc
      BY <1>2, <1>3, <2>2 DEF Goes
    <3>4. s.entityWrites = {} /\ s.relationWrites = {} /\ \A v \in s.nodeWrites : v[2] # {}
      BY <1>2, <1>3, <2>2 DEF Deletes
    <3>5. QED
      BY <2>2, <3>1, <3>2, <3>3, <3>4 DEF Deletes
  <2>9. QED
    BY <1>1, <1>2, <1>5, <2>1, <2>2, <2>7, <2>8, DeletionKeeps DEF DeletionPhases, Rewriting
<1>6. QED
  BY <1>1, <1>4, <1>5 DEF UpdateNodes

\* A step of a deletion that writes to the edges only.
LEMMA EdgesWritten ==
    ASSUME IInv, Orderly, NEW w \in Workers, worker[w].phase \in {"dropEdges", "edges"},
           chunk' = chunk, node' = node, Known' = Known, lost' = lost, relationVector' = relationVector, built' = built,
           Live(edge', Rows), \A p \in Pairs : edge[p] \ worker[w].gone \subseteq edge'[p],
           \A p \in Pairs : edge[p] = {} => edge'[p] = {}
    PROVE  Contents'
<1>1. PICK t : t = worker[w]
  OBVIOUS
<1>2. /\ (\A c \in t.gone : chunk[c] = t.doc) /\ t.doc \notin built
      /\ Live(node, Rows) /\ Live(Known, Rows) /\ Live(relationVector, Rows) /\ Ends
  BY <1>1, RewritingFacts DEF Rewriting
<1>3. ASSUME NEW c \in Chunks, chunk[c] \in built, NEW p \in Relations(c), c \in edge[p]
      PROVE  c \in edge'[p]
  BY <1>1, <1>2, <1>3 DEF Pairs
<1>4. Thinned(t.gone)
  BY <1>2, <1>3 DEF Thinned
<1>5. Live(node, Rows)' /\ Live(edge, Rows)' /\ Live(Known, Rows)' /\ Live(relationVector, Rows)'
  BY <1>2 DEF Live, Rows
<1>6. Ends'
  BY <1>2 DEF Ends
<1>7. QED
  BY <1>4, <1>5, <1>6, ThinnedContents

LEMMA DropEdgesOrderly ==
    ASSUME IInv, Orderly, NEW w \in Workers, DropEdges(w)
    PROVE  Orderly'
<1>1. PICK t : t = worker[w]
  OBVIOUS
<1>2. PICK done : done = Dropped(t.edgeWrites)
  OBVIOUS
<1>3. PICK s : s = [t EXCEPT !.phase = "edges", !.edgeWrites = @ \ done]
  OBVIOUS
<1>4. /\ t.phase = "dropEdges" /\ edge' = Written(edge, done) /\ worker' = [worker EXCEPT ![w] = s]
      /\ chunk' = chunk /\ node' = node /\ Known' = Known /\ lost' = lost /\ relationVector' = relationVector
      /\ built' = built
  BY <1>1, <1>2, <1>3 DEF DropEdges, Known
<1>5. /\ t \in WorkerStates /\ Deletes(t) /\ (\A c \in t.gone : chunk[c] = t.doc) /\ t.doc \notin built
      /\ Outline(Pairs, edge, t.edgeWrites, t.gone, Rows)
  BY <1>1, <1>4, RewritingFacts, Outlines DEF Rewriting
<1>6. done \subseteq t.edgeWrites /\ (\A u \in done : u[2] = {})
  BY <1>2 DEF Dropped
<1>7. Outcome(Pairs, edge, edge', t.edgeWrites, done, t.gone, Rows)
  BY <1>4, <1>5, <1>6, WrittenPlan
<1>8. Contents'
  <2>1. Live(edge', Rows) /\ \A p \in Pairs : edge[p] \ t.gone \subseteq edge'[p]
    BY <1>7 DEF Outcome
  <2>2. \A p \in Pairs : edge[p] = {} => edge'[p] = {}
    BY <1>6, <1>7 DEF Outcome
  <2>3. QED
    BY <1>1, <1>4, <2>1, <2>2, EdgesWritten
<1>9. /\ s.phase = "edges" /\ Goes(t, s) /\ s.edgeWrites = t.edgeWrites \ done
      /\ s.entityWrites = t.entityWrites /\ s.relationWrites = t.relationWrites /\ s.nodeWrites = t.nodeWrites
  BY <1>3, <1>5 DEF WorkerStates, Goes
<1>10. Deletes(s)'
  <2>1. Plan(edge, s.edgeWrites, s.gone, Rows)'
    BY <1>4, <1>7, <1>9 DEF Outcome, Rows, Goes
  <2>2. /\ Plan(Known, Sound(s.entityWrites, lost), s.gone, Rows)' /\ Plan(relationVector, s.relationWrites, s.gone, Rows)'
        /\ Plan(node, s.nodeWrites, s.gone, Rows)'
    BY <1>4, <1>5, <1>9 DEF Deletes, Rows, Goes, Rewriting
  <2>3. s.doc \notin built' /\ \A c \in s.gone : chunk'[c] = s.doc
    BY <1>4, <1>5, <1>9 DEF Goes
  <2>4. s.entityWrites = {} /\ s.relationWrites = {} /\ s.nodeWrites = {}
    BY <1>4, <1>5, <1>9 DEF Deletes, Rewriting
  <2>5. QED
    BY <1>9, <2>1, <2>2, <2>3, <2>4 DEF Deletes
<1>11. QED
  BY <1>1, <1>4, <1>8, <1>9, <1>10, DeletionKeeps DEF DeletionPhases, Rewriting

LEMMA UpdateEdgesOrderly ==
    ASSUME IInv, Orderly, NEW w \in Workers, UpdateEdges(w)
    PROVE  Orderly'
<1>1. PICK t : t = worker[w]
  OBVIOUS
<1>2. /\ t.phase = "edges" /\ chunk' = chunk /\ node' = node /\ Known' = Known /\ lost' = lost
      /\ entityVector' = entityVector /\ relationVector' = relationVector /\ built' = built
  BY <1>1 DEF UpdateEdges, Known
<1>3. /\ t \in WorkerStates /\ Deletes(t) /\ (\A c \in t.gone : chunk[c] = t.doc) /\ t.doc \notin built
      /\ Outline(Pairs, edge, t.edgeWrites, t.gone, Rows)
  BY <1>1, <1>2, RewritingFacts, Outlines DEF Rewriting
<1>4. ASSUME t.edgeWrites = {}, worker' = [worker EXCEPT ![w] = [t EXCEPT !.phase = "chunks"]], edge' = edge
      PROVE  Orderly'
  <2>1. PICK s : s = [t EXCEPT !.phase = "chunks"]
    OBVIOUS
  <2>2. /\ s.phase = "chunks" /\ Goes(t, s) /\ s.edgeWrites = {} /\ s.edgeWrites = t.edgeWrites
        /\ s.entityWrites = t.entityWrites /\ s.relationWrites = t.relationWrites /\ s.nodeWrites = t.nodeWrites
    BY <1>3, <1>4, <2>1 DEF WorkerStates, Goes
  <2>3. store' = store
    BY <1>2, <1>4 DEF store
  <2>4. Deletes(s)
    BY <1>2, <1>3, <2>2 DEF Deletes, Goes, Rewriting
  <2>5. Deletes(s)'
    BY <1>2, <2>3, <2>4 DEF Deletes, store, Known, Rows
  <2>6. QED
    BY <1>1, <1>2, <1>4, <2>1, <2>2, <2>3, <2>5, SameContents, DeletionKeeps DEF DeletionPhases, Rewriting
<1>5. ASSUME NEW u \in t.edgeWrites, edge' = Updated(edge, {u}),
             worker' = [worker EXCEPT ![w] = [t EXCEPT !.edgeWrites = @ \ {u}]]
      PROVE  Orderly'
  <2>1. PICK s : s = [t EXCEPT !.edgeWrites = @ \ {u}]
    OBVIOUS
  <2>2. /\ s.phase = "edges" /\ Goes(t, s) /\ s.edgeWrites = t.edgeWrites \ {u}
        /\ s.entityWrites = t.entityWrites /\ s.relationWrites = t.relationWrites /\ s.nodeWrites = t.nodeWrites
    BY <1>2, <1>3, <2>1 DEF WorkerStates, Goes
  <2>3. /\ Live(edge', Rows) /\ Plan(edge', t.edgeWrites \ {u}, t.gone, Rows)
        /\ \A p \in Pairs : edge[p] \ t.gone \subseteq edge'[p] /\ (edge[p] = {} => edge'[p] = {})
    <3>1. Update(Pairs, edge, edge', t.edgeWrites, u, t.gone, Rows)
      BY <1>3, <1>5, UpdatedPlan
    <3>2. QED
      BY <3>1 DEF Update
  <2>4. Contents'
    BY <1>1, <1>2, <2>3, EdgesWritten
  <2>5. Deletes(s)'
    <3>1. Plan(edge, s.edgeWrites, s.gone, Rows)'
      BY <1>2, <2>2, <2>3 DEF Rows, Goes
    <3>2. /\ Plan(Known, Sound(s.entityWrites, lost), s.gone, Rows)' /\ Plan(node, s.nodeWrites, s.gone, Rows)'
          /\ Plan(relationVector, s.relationWrites, s.gone, Rows)'
      BY <1>2, <1>3, <2>2 DEF Deletes, Rows, Goes, Rewriting
    <3>3. s.doc \notin built' /\ \A c \in s.gone : chunk'[c] = s.doc
      BY <1>2, <1>3, <2>2 DEF Goes
    <3>4. s.entityWrites = {} /\ s.relationWrites = {} /\ s.nodeWrites = {}
      BY <1>2, <1>3, <2>2 DEF Deletes, Rewriting
    <3>5. QED
      BY <2>2, <3>1, <3>2, <3>3, <3>4 DEF Deletes
  <2>6. QED
    BY <1>1, <1>2, <1>5, <2>1, <2>2, <2>4, <2>5, DeletionKeeps DEF DeletionPhases, Rewriting
<1>6. QED
  BY <1>1, <1>4, <1>5 DEF UpdateEdges

LEMMA DeleteChunksOrderly ==
    ASSUME IInv, Orderly, NEW w \in Workers, DeleteChunks(w)
    PROVE  Orderly'
<1>1. PICK t : t = worker[w]
  OBVIOUS
<1>2. /\ t.phase = "chunks" /\ worker' = [worker EXCEPT ![w] = Idle]
      /\ chunk' = [c \in Chunks |-> IF c \in t.gone THEN Nobody ELSE chunk[c]]
      /\ node' = node /\ edge' = edge /\ Known' = Known /\ lost' = lost /\ relationVector' = relationVector
      /\ built' = built
  BY <1>1 DEF DeleteChunks, Leave, Known
<1>3. /\ t \in WorkerStates /\ Deletes(t)
      /\ node \in [Entities -> SUBSET Chunks] /\ Known \in [Entities -> SUBSET Chunks]
      /\ edge \in [Pairs -> SUBSET Chunks] /\ relationVector \in [Pairs -> SUBSET Chunks]
      /\ Live(node, Rows) /\ Live(edge, Rows) /\ Live(Known, Rows) /\ Live(relationVector, Rows) /\ Ends
  BY <1>1, <1>2, RewritingFacts DEF Rewriting
<1>4. /\ Plan(node, {}, t.gone, Rows) /\ Plan(edge, {}, t.gone, Rows)
      /\ Plan(Known, {}, t.gone, Rows) /\ Plan(relationVector, {}, t.gone, Rows)
  <2>1. Sound({}, lost) = {}
    BY DEF Sound
  <2>2. QED
    BY <1>2, <1>3, <2>1 DEF Deletes, Rewriting
<1>5. /\ \A e \in Entities : node[e] \cap t.gone = {} /\ Known[e] \cap t.gone = {}
      /\ \A p \in Pairs : edge[p] \cap t.gone = {} /\ relationVector[p] \cap t.gone = {}
  BY <1>3, <1>4 DEF Plan
<1>6. Rows' = Rows \ t.gone
  BY <1>2 DEF Rows
<1>7. Live(node, Rows)' /\ Live(edge, Rows)' /\ Live(Known, Rows)' /\ Live(relationVector, Rows)'
  BY <1>2, <1>3, <1>5, <1>6 DEF Live
<1>8. Ends' /\ Homes'
  BY <1>2, <1>3 DEF Ends, Orderly, Contents, Homes
<1>9. \A c \in Chunks : chunk'[c] \in built' => Display(c)'
  <2>1. Nobody \notin built
    BY NobodyAssumption DEF IInv
  <2>2. \A c \in Chunks : chunk'[c] \in built' => Display(c)
    BY <1>2, <2>1 DEF Orderly, Contents
  <2>3. QED
    BY <1>2, <2>2 DEF Display, Seen, Drawn
<1>10. Contents'
  BY <1>7, <1>8, <1>9 DEF Contents
<1>11. Deletes(Idle)'
  BY IdleFine DEF Deletes, Rewriting
<1>12. QED
  BY <1>1, <1>2, <1>10, <1>11, IdleFine, DeletionKeeps DEF DeletionPhases, Rewriting

-----------------------------------------------------------------------------
LEMMA BuildOrderly ==
    ASSUME IInv, Orderly, NEW w \in Workers, BuildStep(w)
    PROVE  Orderly'
BY InsertOrderly, ComponentOrderly, FinishOrderly, ReadNodeOrderly, WriteNodeOrderly, WriteEntityVectorOrderly,
   ReadEdgeOrderly, CheckNodeOrderly, CreateNodeOrderly, WriteEdgeOrderly, WriteRelationVectorOrderly
   DEF BuildStep

LEMMA DeletionOrderly ==
    ASSUME IInv, Orderly, NEW w \in Workers, DeletionStep(w)
    PROVE  Orderly'
BY SelectOrderly, ScanOrderly, WriteEntityVectorsOrderly, LoseEntityVectorOrderly, WriteRelationVectorsOrderly,
   DropNodesOrderly, UpdateNodesOrderly, DropEdgesOrderly, UpdateEdgesOrderly, DeleteChunksOrderly DEF DeletionStep

\* Once a deletion has overlapped another task, it has.
LEMMA Overlapping ==
    ASSUME [Next]_vars, overlapped
    PROVE  overlapped'
<1>1. CASE UNCHANGED vars
  BY <1>1 DEF vars
<1>2. ASSUME NEW w \in Workers, StartBuild(w) \/ StartDeletion(w) \/ Fail(w)
      PROVE  overlapped'
  BY <1>2 DEF StartBuild, StartDeletion, Fail
<1>3. ASSUME NEW w \in Workers, BuildStep(w)
      PROVE  overlapped' = overlapped
  BY <1>3 DEF BuildStep, InsertChunks, NextComponent, FinishBuild, ReadNode, WriteNode, WriteEntityVector,
              ReadEdge, CheckNode, CreateNode, WriteEdge, WriteRelationVector
<1>4. ASSUME NEW w \in Workers, DeletionStep(w)
      PROVE  overlapped' = overlapped
  BY <1>4 DEF DeletionStep, SelectChunks, ScanVectorsAndGraph, WriteEntityVectors, LoseEntityVector, WriteRelationVectors,
              DropNodes, UpdateNodes, DropEdges, UpdateEdges, DeleteChunks
<1>5. QED
  BY <1>1, <1>2, <1>3, <1>4 DEF Next

LEMMA ContentsInvariance ==
    ASSUME CInv, [Next]_vars
    PROVE  CInv'
<1>1. IInv /\ IInv'
  BY Invariance DEF CInv
<1>2. SUFFICES ASSUME ~overlapped' PROVE Orderly'
  BY <1>1 DEF CInv
<1>3. Orderly
  BY <1>2, Overlapping DEF CInv
<1>4. CASE UNCHANGED vars
  <2>1. Contents'
    BY <1>3, <1>4, SameContents DEF vars
  <2>2. Alone'
    BY <1>3, <1>4 DEF vars, Orderly, Alone, Deleting
  <2>3. ASSUME NEW w \in Workers
        PROVE  Builds(worker[w])' /\ Deletes(worker[w])'
    <3>1. PICK x : x = worker[w]
      OBVIOUS
    <3>2. store' = store /\ built' = built /\ worker'[w] = x /\ Builds(x) /\ Deletes(x)
      BY <1>3, <1>4, <3>1 DEF vars, Orderly
    <3>3. Builds(x)'
      BY <3>2 DEF Builds, Found, Merges, Links, Covered, Rows, store, Known, Seen, Drawn
    <3>4. Deletes(x)'
      BY <3>2 DEF Deletes, store, Known, Rows
    <3>5. QED
      BY <3>2, <3>3, <3>4 DEF Builds, Deletes, Found, Merges, Links, Covered
  <2>4. QED
    BY <2>1, <2>2, <2>3 DEF Orderly
<1>5. ASSUME NEW w \in Workers, StartBuild(w) \/ StartDeletion(w) \/ Fail(w)
      PROVE  Orderly'
  BY <1>1, <1>2, <1>3, <1>5, StartBuildOrderly, StartDeletionOrderly, FailOrderly
<1>6. ASSUME NEW w \in Workers, BuildStep(w) \/ DeletionStep(w)
      PROVE  Orderly'
  BY <1>1, <1>3, <1>6, BuildOrderly, DeletionOrderly
<1>7. QED
  BY <1>4, <1>5, <1>6 DEF Next

LEMMA ContentsInductive == Spec => []CInv
BY ContentsBeginning, ContentsInvariance, PTL DEF Spec

\* The ends of every edge are nodes, whatever builds run at the same time and
\* wherever they and the deletions fail (_merge_edges_then_upsert,
\* remove_nodes).
THEOREM EndsAreNodes == Spec => []EndpointsExist
<1>1. CInv => EndpointsExist
  BY DEF CInv, Orderly, Contents, Ends, EndpointsExist
<1>2. QED
  BY <1>1, ContentsInductive, PTL

\* Nothing in the graph or in the vectors is left of a chunk that is gone
\* (adelete_by_doc_id), as long as deletions run alone: wherever a build or a
\* deletion before has failed, and but for the vectors of the entities whose
\* removal delete_entity gave up in silence, which Known leaves out.
THEOREM DeletionComplete == Spec => []NothingLeftBehind
<1>1. ASSUME CInv, ~overlapped, NEW c \in Chunks, chunk[c] = Nobody
      PROVE  /\ \A e \in Entities : c \notin node[e] /\ (e \notin lost => c \notin entityVector[e])
             /\ \A p \in Pairs : c \notin edge[p] \cup relationVector[p]
  <2>1. /\ c \notin Rows /\ IInv
        /\ Live(node, Rows) /\ Live(Known, Rows) /\ Live(edge, Rows) /\ Live(relationVector, Rows)
    BY <1>1 DEF CInv, Orderly, Contents, Rows
  <2>2. \A e \in Entities : c \notin node[e] /\ c \notin Known[e]
    BY <2>1, KnownTyped DEF IInv, Stored, Live
  <2>3. \A e \in Entities \ lost : Known[e] = entityVector[e]
    BY DEF Known
  <2>4. QED
    BY <2>1, <2>2, <2>3 DEF IInv, Stored, Live
<1>2. CInv => NothingLeftBehind
  BY <1>1 DEF NothingLeftBehind
<1>3. QED
  BY <1>2, ContentsInductive, PTL

\* What the chunks of a built document say of entities that are named with
\* their relations is in the graph and in the vectors, however many builds
\* merge into the same nodes and edges (_merge_nodes_and_edges_impl).
THEOREM BuildsRepresented == Spec => []Represented
<1>1. ASSUME CInv, ~overlapped, NEW c \in Chunks, chunk[c] \in built
      PROVE  Shown(c, Named, {p \in Pairs : p \subseteq Named})
  <2>1. Display(c)
    BY <1>1 DEF CInv, Orderly, Contents
  <2>2. \A e \in Named : Known[e] \subseteq entityVector[e]
    BY DEF Known, Named
  <2>3. QED
    BY <2>1, <2>2 DEF Display, Shown, Seen, Drawn
<1>2. CInv => Represented
  BY <1>1 DEF Represented, Named
<1>3. QED
  BY <1>2, ContentsInductive, PTL

=============================================================================
