-------------------------- MODULE FlowEngine_proofs --------------------------
(***************************************************************************)
(* Theorems about FlowEngine, for any nodes, any flows (with cycles or     *)
(* without) and any runners.                                               *)
(***************************************************************************)
EXTENDS FlowEngine, FiniteSetTheorems, TLAPS

\* The edges into a node that do not leave a node of S, and those that do.
EdgesLeft(n, S) == {e \in flow.edges : e[2] = n /\ e[1] \notin S}
EdgesFrom(n, S) == {e \in flow.edges : e[2] = n /\ e[1] \in S}

\* Where the engine is before it takes the first group.
Preparing == phase \in {"new", "sorting", "cyclic"}

\* What the engine leaves in its variables, whatever the runners return.
FlowType ==
    /\ flow \in Flows
    /\ phase \in Phases
    /\ degree \in [Nodes -> Nat]
    /\ ready \subseteq flow.nodes /\ processed \subseteq flow.nodes /\ group \subseteq flow.nodes
    /\ node \in [Nodes -> NodeStates]

StreamType ==
    /\ DOMAIN output = Nodes
    /\ events \in Seq([type : EventTypes, node : Nodes \cup {NoOutput}])
    /\ read \in 0..Len(events)
    /\ client \in {"reading", "none", "closed"}

\* Before the first group nothing has started.
Untouched ==
    /\ Preparing => group = {} /\ \A n \in Nodes : node[n] = "waiting"
    /\ phase = "new" => processed = {}

\* The counters count the edges that are left.
Counted ==
    phase \in {"sorting", "running"} => degree = [n \in Nodes |-> Cardinality(EdgesLeft(n, processed))]

\* What was sorted has a rank that grows along the edges.
Ranked ==
    \E rank \in [processed -> 1..Cardinality(processed)] :
        \A e \in flow.edges : e[2] \in processed => e[1] \in processed /\ rank[e[1]] < rank[e[2]]

\* The queue of the sort holds what has no edge left, and nothing else.
Sorted ==
    phase = "sorting" =>
        /\ Ranked
        /\ ready \cap processed = {}
        /\ \A n \in flow.nodes \ processed : n \in ready <=> EdgesLeft(n, processed) = {}

\* Nodes start in their group.
InGroups == \A n \in Nodes : node[n] # "waiting" => n \in processed

\* Groups were taken one after the other, each with all that comes before it.
Levelled ==
    /\ group \subseteq processed
    /\ \A n \in processed \ group : node[n] = "done"
    /\ \A e \in flow.edges : e[2] \in processed => e[1] \in processed \ group

Grouped == phase \in {"running", "ended"} => InGroups /\ Levelled

\* A flow that failed as cyclic has sorted nodes but no group; any other has
\* failed when its whole group had taken a step.
Failed ==
    phase = "failed" =>
        /\ \/ group = {} /\ \A n \in Nodes : node[n] = "waiting"
           \/ InGroups /\ Levelled
        /\ \A n \in group : node[n] # "waiting"

IInv == FlowType /\ Untouched /\ Counted /\ Sorted /\ OnlyCyclesRefused /\ Grouped /\ Failed

-----------------------------------------------------------------------------
(* Counting edges                                                          *)

\* The edges of a flow are finitely many.
LEMMA EdgesFinite ==
    ASSUME flow \in Flows
    PROVE  /\ IsFiniteSet(flow.edges)
           /\ flow.nodes \subseteq Nodes
           /\ \A e \in flow.edges : e[1] \in flow.nodes /\ e[2] \in flow.nodes
<1>1. IsFiniteSet(flow.nodes)
  BY NodesAssumption, FlowsAssumption, FS_Subset
<1>2. IsFiniteSet(flow.nodes \X flow.nodes)
  BY <1>1, FS_Product
<1>3. QED
  BY <1>2, FlowsAssumption, FS_Subset

\* Disjoint sets are counted apart.
LEMMA Disjoint ==
    ASSUME NEW A, NEW B, IsFiniteSet(A), IsFiniteSet(B), A \cap B = {}
    PROVE  Cardinality(A \cup B) = Cardinality(A) + Cardinality(B)
<1>1. Cardinality(A \cup B) = Cardinality(A) + Cardinality(B) - Cardinality(A \cap B)
  BY FS_Union
<1>2. Cardinality(A) \in Nat /\ Cardinality(B) \in Nat
  BY FS_CardinalityType
<1>3. Cardinality(A \cap B) = 0
  BY FS_EmptySet, Zenon
<1>4. QED
  BY <1>1, <1>2, <1>3

\* Taking the edges of a group off the counters leaves the edges of the rest
\* (_find_parallel_groups).
LEMMA TakingOff ==
    ASSUME flow \in Flows, NEW n, NEW S, NEW T, S \cap T = {}
    PROVE  Cardinality(EdgesLeft(n, S)) - Cardinality(EdgesFrom(n, T)) = Cardinality(EdgesLeft(n, S \cup T))
<1>1. IsFiniteSet(flow.edges)
  BY EdgesFinite
<1>2. IsFiniteSet(EdgesLeft(n, S)) /\ IsFiniteSet(EdgesFrom(n, T)) /\ IsFiniteSet(EdgesLeft(n, S \cup T))
  BY <1>1, FS_Subset DEF EdgesLeft, EdgesFrom
<1>3. EdgesLeft(n, S) = EdgesFrom(n, T) \cup EdgesLeft(n, S \cup T)
  BY DEF EdgesLeft, EdgesFrom
<1>4. EdgesFrom(n, T) \cap EdgesLeft(n, S \cup T) = {}
  BY DEF EdgesLeft, EdgesFrom
<1>5. Cardinality(EdgesFrom(n, T) \cup EdgesLeft(n, S \cup T)) =
        Cardinality(EdgesFrom(n, T)) + Cardinality(EdgesLeft(n, S \cup T))
  BY <1>2, <1>4, Disjoint
<1>6. /\ Cardinality(EdgesFrom(n, T)) \in Nat
      /\ Cardinality(EdgesLeft(n, S \cup T)) \in Nat
  BY <1>2, FS_CardinalityType
<1>7. QED
  BY <1>3, <1>5, <1>6

\* A counter at zero: no edge is left.
LEMMA NothingLeft ==
    ASSUME flow \in Flows, NEW n, NEW S
    PROVE  Cardinality(EdgesLeft(n, S)) = 0 <=> EdgesLeft(n, S) = {}
<1>1. IsFiniteSet(EdgesLeft(n, S))
  BY EdgesFinite, FS_Subset DEF EdgesLeft
<1>2. QED
  BY <1>1, FS_EmptySet

\* Counts are natural numbers.
LEMMA CountsAreNat ==
    ASSUME flow \in Flows, NEW n, NEW S
    PROVE  Cardinality(EdgesLeft(n, S)) \in Nat
<1>1. IsFiniteSet(EdgesLeft(n, S))
  BY EdgesFinite, FS_Subset DEF EdgesLeft
<1>2. QED
  BY <1>1, FS_CardinalityType

\* Nothing is taken off yet.
LEMMA AllLeft == InDegree = [n \in Nodes |-> Cardinality(EdgesLeft(n, {}))]
  BY DEF InDegree, EdgesLeft

\* A set of natural numbers has a least one.
LEMMA Least ==
    ASSUME NEW T, T \subseteq Nat, T # {}
    PROVE  \E m \in T : \A k \in T : m <= k
<1> DEFINE Family == {0..k : k \in T}
<1>1. \A k \in Nat : 0..k \in FiniteSubsetsOf(Nat)
  BY FS_Interval DEF FiniteSubsetsOf
<1>2. Family \subseteq FiniteSubsetsOf(Nat) /\ Family # {}
  BY <1>1
<1>3. IsWellFoundedOn(StrictSubsetOrdering(Nat), FiniteSubsetsOf(Nat))
  BY FS_StrictSubsetOrderingWellFounded
<1>4. PICK F \in Family : \A G \in Family : ~(<<G, F>> \in StrictSubsetOrdering(Nat))
  <2> HIDE DEF Family
  <2>1. QED
    BY <1>2, <1>3, WFMin
<1>5. PICK m \in T : F = 0..m
  BY <1>4
<1>6. ASSUME NEW k \in T
      PROVE  m <= k
  <2>1. ~(<<0..k, 0..m>> \in StrictSubsetOrdering(Nat))
    BY <1>4, <1>5
  <2>2. ASSUME k < m
        PROVE  <<0..k, 0..m>> \in StrictSubsetOrdering(Nat)
    <3>1. 0..k \subseteq 0..m /\ m \in 0..m /\ m \notin 0..k
      BY <2>2
    <3>2. 0..k \in SUBSET Nat /\ 0..m \in SUBSET Nat /\ 0..k # 0..m
      BY <3>1
    <3>3. QED
      BY <3>1, <3>2 DEF StrictSubsetOrdering
  <2>3. QED
    BY <2>1, <2>2
<1>7. QED
  BY <1>6

\* Nodes each of which has an edge from another one of them are on a cycle or
\* behind one: no rank grows along the edges.
LEMMA Stuck ==
    ASSUME flow \in Flows, NEW S, S \subseteq flow.nodes, S # flow.nodes,
           \A n \in flow.nodes \ S : EdgesLeft(n, S) # {}
    PROVE  ~Acyclic(flow)
<1>1. SUFFICES ASSUME NEW rank \in [flow.nodes -> 1..Cardinality(flow.nodes)],
                      \A e \in flow.edges : rank[e[1]] < rank[e[2]]
               PROVE  FALSE
  BY DEF Acyclic
<1> DEFINE T == {rank[n] : n \in flow.nodes \ S}
<1>2. IsFiniteSet(flow.nodes) /\ Cardinality(flow.nodes) \in Nat
  BY NodesAssumption, FlowsAssumption, FS_Subset, FS_CardinalityType
<1>3. T \subseteq Nat /\ T # {}
  BY <1>2
<1>4. PICK m \in T : \A k \in T : m <= k
  BY <1>3, Least
<1>5. PICK n \in flow.nodes \ S : m = rank[n]
  BY <1>4
<1>6. PICK e \in flow.edges : e[2] = n /\ e[1] \notin S
  BY <1>5 DEF EdgesLeft
<1>7. e[1] \in flow.nodes \ S
  BY <1>6, EdgesFinite
<1>8. rank[e[1]] \in T /\ rank[e[1]] < m
  BY <1>1, <1>5, <1>6, <1>7
<1>9. m \in Nat /\ rank[e[1]] \in Nat /\ m <= rank[e[1]]
  BY <1>3, <1>4, <1>8
<1>10. QED
  BY <1>8, <1>9

-----------------------------------------------------------------------------
(* The steps                                                               *)

\* Before anything runs.
LEMMA Start == Init => IInv
  BY DEF Init, IInv, FlowType, Untouched, Counted, Sorted, OnlyCyclesRefused, Grouped, Failed,
         Preparing, Phases, NodeStates

\* The counters are set, and the queue holds the nodes without a predecessor.
LEMMA Starting ==
    ASSUME IInv, StartFlow
    PROVE  IInv'
<1>1. /\ phase = "new" /\ phase' = (IF ready' = {} THEN "cyclic" ELSE "sorting")
      /\ flow' = flow /\ processed' = processed /\ group' = group /\ node' = node
      /\ degree' = InDegree /\ ready' = Sources(InDegree)
  BY DEF StartFlow
<1>2. /\ flow \in Flows /\ processed = {} /\ group = {} /\ node \in [Nodes -> NodeStates]
      /\ flow.nodes \subseteq Nodes /\ \A n \in Nodes : node[n] = "waiting"
  BY <1>1, EdgesFinite DEF IInv, FlowType, Untouched, Preparing
<1>3. degree' = [n \in Nodes |-> Cardinality(EdgesLeft(n, processed))]
  BY <1>1, <1>2, AllLeft
<1>4. degree' \in [Nodes -> Nat]
  BY <1>2, <1>3, CountsAreNat
<1>5. \A n \in flow.nodes : n \in ready' <=> EdgesLeft(n, processed) = {}
  <2>1. ASSUME NEW n \in flow.nodes
        PROVE  n \in ready' <=> EdgesLeft(n, processed) = {}
    <3>1. degree'[n] = Cardinality(EdgesLeft(n, processed))
      BY <1>2, <1>3
    <3>2. n \in ready' <=> degree'[n] = 0
      BY <1>1 DEF Sources
    <3>3. QED
      BY <1>2, <3>1, <3>2, NothingLeft
  <2>2. QED
    BY <2>1
<1>6. ready' \subseteq flow.nodes
  BY <1>1 DEF Sources
<1>7. Sorted'
  <2>1. Ranked
    <3>1. Cardinality({}) = 0
      BY FS_EmptySet
    <3>2. <<>> \in [{} -> 1..0]
      BY SMT
    <3>3. QED
      BY <1>2, <3>1, <3>2 DEF Ranked
  <2>2. Ranked'
    BY <2>1, <1>1 DEF Ranked
  <2>3. QED
    BY <1>1, <1>2, <1>5, <2>2 DEF Sorted, EdgesLeft
<1>8. ASSUME phase' = "cyclic"
      PROVE  flow.nodes = {} \/ ~Acyclic(flow)
  <2>1. ready' = {}
    BY <1>1, <1>8
  <2>2. \A n \in flow.nodes \ {} : EdgesLeft(n, {}) # {}
    BY <2>1, <1>2, <1>5
  <2>3. QED
    BY <2>2, <1>2, Stuck
<1>9. OnlyCyclesRefused'
  BY <1>1, <1>8 DEF OnlyCyclesRefused, Acyclic
<1>10. Counted'
  BY <1>1, <1>3 DEF Counted, EdgesLeft
<1>11. QED
  BY <1>1, <1>2, <1>4, <1>6, <1>7, <1>9, <1>10
     DEF IInv, FlowType, Untouched, Grouped, Failed, Preparing, Phases

\* A node leaves the queue: what it alone was waited for by comes in.
LEMMA Sorting ==
    ASSUME IInv, NEW n \in Nodes, SortNode(n)
    PROVE  IInv'
<1>1. /\ phase = "sorting" /\ phase' = phase /\ flow' = flow /\ group' = group /\ node' = node
      /\ n \in ready /\ processed' = processed \cup {n}
      /\ degree' = Without({n})
      /\ ready' = (ready \ {n}) \cup {m \in flow.nodes : <<n, m>> \in flow.edges /\ degree'[m] = 0}
  BY DEF SortNode
<1>2. /\ flow \in Flows /\ flow.nodes \subseteq Nodes
      /\ ready \subseteq flow.nodes /\ processed \subseteq flow.nodes
      /\ degree = [m \in Nodes |-> Cardinality(EdgesLeft(m, processed))]
      /\ Ranked /\ ready \cap processed = {}
      /\ \A m \in flow.nodes \ processed : m \in ready <=> EdgesLeft(m, processed) = {}
  BY <1>1, EdgesFinite DEF IInv, FlowType, Counted, Sorted
<1>3. n \in flow.nodes \ processed /\ EdgesLeft(n, processed) = {}
  BY <1>1, <1>2
<1>4. \A e \in flow.edges : e[2] = n => e[1] \in processed
  BY <1>3 DEF EdgesLeft
<1>5. degree' = [m \in Nodes |-> Cardinality(EdgesLeft(m, processed'))]
  <2>1. ASSUME NEW m \in Nodes
        PROVE  degree[m] - Cardinality(EdgesFrom(m, {n})) = Cardinality(EdgesLeft(m, processed'))
    <3>1. Cardinality(EdgesLeft(m, processed)) - Cardinality(EdgesFrom(m, {n}))
            = Cardinality(EdgesLeft(m, processed \cup {n}))
      BY <1>2, <1>3, TakingOff
    <3>2. QED
      BY <3>1, <1>1, <1>2
  <2>2. degree' = [m \in Nodes |-> degree[m] - Cardinality(EdgesFrom(m, {n}))]
    BY <1>1 DEF Without, EdgesFrom
  <2>3. QED
    BY <2>1, <2>2
<1>6. degree' \in [Nodes -> Nat]
  BY <1>2, <1>5, CountsAreNat
<1>7. \A m \in flow.nodes : degree'[m] = 0 <=> EdgesLeft(m, processed') = {}
  <2>1. ASSUME NEW m \in flow.nodes
        PROVE  degree'[m] = 0 <=> EdgesLeft(m, processed') = {}
    <3>1. degree'[m] = Cardinality(EdgesLeft(m, processed'))
      BY <1>2, <1>5
    <3>2. QED
      BY <1>2, <3>1, NothingLeft
  <2>2. QED
    BY <2>1
<1>8. PICK rank \in [processed -> 1..Cardinality(processed)] :
        \A e \in flow.edges : e[2] \in processed => e[1] \in processed /\ rank[e[1]] < rank[e[2]]
  BY <1>2 DEF Ranked
<1>9. ready' \cap processed' = {}
  <2>1. ASSUME NEW m, <<n, m>> \in flow.edges
        PROVE  m \notin processed'
    <3>1. m \notin processed
      BY <2>1, <1>3, <1>8
    <3>2. m # n
      BY <2>1, <1>3, <1>4
    <3>3. QED
      BY <3>1, <3>2, <1>1
  <2>2. QED
    BY <2>1, <1>1, <1>2
<1>10. ASSUME NEW m \in flow.nodes \ processed'
       PROVE  m \in ready' <=> EdgesLeft(m, processed') = {}
  <2>1. m \in flow.nodes \ processed /\ m # n
    BY <1>10, <1>1
  <2>2. CASE EdgesLeft(m, processed) = {}
    <3>1. m \in ready'
      BY <2>1, <2>2, <1>1, <1>2
    <3>2. EdgesLeft(m, processed') = {}
      BY <2>2, <1>1 DEF EdgesLeft
    <3>3. QED
      BY <3>1, <3>2
  <2>3. CASE EdgesLeft(m, processed) # {}
    <3>1. m \notin ready
      BY <2>1, <2>3, <1>2
    <3>2. m \in ready' <=> <<n, m>> \in flow.edges /\ degree'[m] = 0
      BY <3>1, <1>1, <2>1
    <3>3. ASSUME EdgesLeft(m, processed') = {}
          PROVE  <<n, m>> \in flow.edges
      <4>1. PICK e \in flow.edges : e[2] = m /\ e[1] \notin processed
        BY <2>3 DEF EdgesLeft
      <4>2. e[1] = n
        BY <4>1, <3>3, <1>1 DEF EdgesLeft
      <4>3. e = <<e[1], e[2]>>
        BY <4>1, <1>2, FlowsAssumption
      <4>4. QED
        BY <4>1, <4>2, <4>3
    <3>4. QED
      BY <3>2, <3>3, <2>1, <1>7
  <2>4. QED
    BY <2>2, <2>3
<1>11. Ranked'
  <2> DEFINE longer == [x \in processed' |-> IF x = n THEN Cardinality(processed) + 1 ELSE rank[x]]
  <2>1. IsFiniteSet(processed)
    BY <1>2, NodesAssumption, FS_Subset
  <2>2. Cardinality(processed) \in Nat /\ Cardinality(processed') = Cardinality(processed) + 1
    BY <2>1, <1>1, <1>3, FS_AddElement, FS_CardinalityType
  <2>3. \A x \in processed : rank[x] \in 1..Cardinality(processed)
    BY <1>8
  <2>4. longer \in [processed' -> 1..Cardinality(processed')]
    BY <2>2, <2>3, <1>1
  <2>5. ASSUME NEW e \in flow'.edges, e[2] \in processed'
        PROVE  e[1] \in processed' /\ longer[e[1]] < longer[e[2]]
    <3>1. e \in flow.edges
      BY <2>5, <1>1
    <3>2. CASE e[2] = n
      <4>1. e[1] \in processed /\ e[1] # n
        BY <3>1, <3>2, <1>3, <1>4
      <4>2. QED
        BY <4>1, <3>2, <2>2, <2>3, <1>1
    <3>3. CASE e[2] # n
      <4>1. e[2] \in processed
        BY <2>5, <3>3, <1>1
      <4>2. e[1] \in processed /\ rank[e[1]] < rank[e[2]] /\ e[1] # n
        BY <4>1, <3>1, <1>3, <1>8
      <4>3. QED
        BY <4>1, <4>2, <3>3, <1>1
    <3>4. QED
      BY <3>2, <3>3
  <2>6. QED
    BY <2>4, <2>5 DEF Ranked
<1>12. Sorted'
  BY <1>1, <1>9, <1>10, <1>11 DEF Sorted, EdgesLeft
<1>13. Counted'
  BY <1>1, <1>5 DEF Counted, EdgesLeft
<1>14. FlowType'
  BY <1>1, <1>2, <1>3, <1>6 DEF IInv, FlowType
<1>15. QED
  BY <1>1, <1>12, <1>13, <1>14
     DEF IInv, Untouched, Grouped, Failed, Preparing, OnlyCyclesRefused

\* The sort ends: either every node is ranked, or those left wait in a ring.
LEMMA EndingSort ==
    ASSUME IInv, EndSort
    PROVE  IInv'
<1>1. /\ phase = "sorting" /\ ready = {} /\ flow' = flow /\ ready' = ready /\ group' = group /\ node' = node
      /\ processed' = {} /\ degree' = InDegree
      /\ phase' = IF Cardinality(processed) # Cardinality(flow.nodes) THEN "cyclic" ELSE "running"
  BY DEF EndSort
<1>2. /\ flow \in Flows /\ flow.nodes \subseteq Nodes /\ processed \subseteq flow.nodes
      /\ Ranked
      /\ \A m \in flow.nodes \ processed : EdgesLeft(m, processed) # {}
      /\ group = {} /\ node \in [Nodes -> NodeStates] /\ \A n \in Nodes : node[n] = "waiting"
  BY <1>1, EdgesFinite DEF IInv, FlowType, Sorted, Untouched, Preparing
<1>3. degree' = [n \in Nodes |-> Cardinality(EdgesLeft(n, {}))]
  BY <1>1, AllLeft
<1>4. degree' \in [Nodes -> Nat]
  BY <1>2, <1>3, CountsAreNat
<1>5. ASSUME phase' = "cyclic"
      PROVE  ~Acyclic(flow)
  BY <1>1, <1>2, <1>5, Stuck
<1>6. ASSUME phase' = "running"
      PROVE  Acyclic(flow)
  <2>1. IsFiniteSet(flow.nodes)
    BY <1>2, NodesAssumption, FS_Subset
  <2>2. Cardinality(processed) = Cardinality(flow.nodes)
    BY <1>1, <1>6
  <2>3. processed = flow.nodes
    BY <2>1, <2>2, <1>2, FS_Subset
  <2>4. \A e \in flow.edges : e[2] \in flow.nodes
    BY <1>2, EdgesFinite
  <2>5. QED
    BY <2>3, <2>4, <1>2 DEF Ranked, Acyclic
<1>7. OnlyCyclesRefused'
  BY <1>1, <1>5, <1>6 DEF OnlyCyclesRefused, Acyclic
<1>8. Counted'
  BY <1>1, <1>3 DEF Counted, EdgesLeft
<1>9. (InGroups /\ Levelled)'
  BY <1>1, <1>2 DEF InGroups, Levelled
<1>10. QED
  BY <1>1, <1>2, <1>4, <1>7, <1>8, <1>9
     DEF IInv, FlowType, Untouched, Sorted, Grouped, Failed, Preparing, Phases

\* The next group: what comes before it has finished.
LEMMA Grouping ==
    ASSUME IInv, NextGroup
    PROVE  IInv'
<1>1. /\ phase = "running" /\ flow' = flow /\ phase' = phase /\ node' = node /\ ready' = ready
      /\ group' = Sources(degree) \ processed
      /\ processed' = processed \cup group' /\ degree' = Without(group')
      /\ GroupDone
  BY DEF NextGroup
<1>2. /\ flow \in Flows /\ processed \subseteq flow.nodes /\ group \subseteq flow.nodes
      /\ flow.nodes \subseteq Nodes /\ node \in [Nodes -> NodeStates]
      /\ degree = [n \in Nodes |-> Cardinality(EdgesLeft(n, processed))]
      /\ InGroups /\ Levelled
  BY <1>1, EdgesFinite DEF IInv, FlowType, Counted, Grouped
<1>3. \A n \in processed : node[n] = "done"
  BY <1>1, <1>2 DEF GroupDone, Levelled
<1>4. group' \subseteq flow.nodes /\ group' \cap processed = {}
  BY <1>1 DEF Sources
<1>5. Levelled'
  <2>1. group' \subseteq processed'
    BY <1>1
  <2>2. \A n \in processed' \ group' : node'[n] = "done"
    BY <1>1, <1>3
  <2>3. ASSUME NEW e \in flow'.edges, e[2] \in processed'
        PROVE  e[1] \in processed' \ group'
    <3>1. CASE e[2] \in processed
      BY <3>1, <2>3, <1>1, <1>2, <1>4 DEF Levelled
    <3>2. CASE e[2] \in group'
      <4>1. degree[e[2]] = 0
        BY <3>2, <1>1 DEF Sources
      <4>2. Cardinality(EdgesLeft(e[2], processed)) = 0
        BY <4>1, <3>2, <1>2, <1>4
      <4>3. e[1] \in processed
        BY <4>2, <2>3, <3>2, <1>1, <1>2, NothingLeft DEF EdgesLeft
      <4>4. QED
        BY <4>3, <1>1, <1>4
    <3>3. QED
      BY <3>1, <3>2, <2>3, <1>1
  <2>4. QED
    BY <2>1, <2>2, <2>3 DEF Levelled
<1>6. InGroups'
  BY <1>1, <1>2 DEF InGroups
<1>7. degree' = [n \in Nodes |-> Cardinality(EdgesLeft(n, processed'))]
  <2>1. ASSUME NEW n \in Nodes
        PROVE  degree[n] - Cardinality(EdgesFrom(n, group')) = Cardinality(EdgesLeft(n, processed'))
    <3>1. Cardinality(EdgesLeft(n, processed)) - Cardinality(EdgesFrom(n, group'))
            = Cardinality(EdgesLeft(n, processed \cup group'))
      BY <1>2, <1>4, TakingOff
    <3>2. QED
      BY <3>1, <1>1, <1>2
  <2>2. degree' = [n \in Nodes |-> degree[n] - Cardinality(EdgesFrom(n, group'))]
    BY <1>1 DEF Without, EdgesFrom
  <2>3. QED
    BY <2>1, <2>2
<1>8. degree' \in [Nodes -> Nat]
  BY <1>2, <1>7, CountsAreNat
<1>9. Counted'
  BY <1>1, <1>7 DEF Counted, EdgesLeft
<1>10. QED
  BY <1>1, <1>2, <1>4, <1>5, <1>6, <1>8, <1>9
     DEF IInv, FlowType, Untouched, Sorted, Grouped, Failed, Preparing, OnlyCyclesRefused

\* A node of the group takes a step, or one that outlived its flow does.
LEMMA Running ==
    ASSUME IInv, NEW n \in Nodes, NodeStep(n)
    PROVE  IInv'
<1>1. /\ flow' = flow /\ phase' = phase /\ group' = group /\ processed' = processed /\ degree' = degree /\ ready' = ready
  BY DEF NodeStep, StartNode, BindFails, RunnerMissing, FinishNode, NodeFails, sorting
<1>2. PICK s \in {"started", "done", "failed"} : node' = [node EXCEPT ![n] = s]
  BY DEF NodeStep, StartNode, BindFails, RunnerMissing, FinishNode, NodeFails
<1>3. node[n] # "done" /\ (node[n] = "waiting" => n \in group)
  BY DEF NodeStep, StartNode, BindFails, RunnerMissing, FinishNode, NodeFails
<1>4. /\ node \in [Nodes -> NodeStates]
      /\ flow.nodes \subseteq Nodes /\ processed \subseteq Nodes
      /\ node' \in [Nodes -> NodeStates]
  BY <1>2, EdgesFinite DEF IInv, FlowType, NodeStates
<1>5. FlowType'
  BY <1>1, <1>4 DEF IInv, FlowType
<1>6. ~Preparing
  BY <1>3, <1>4 DEF IInv, Untouched, Phases
<1>7. ASSUME InGroups, Levelled
      PROVE  InGroups' /\ Levelled'
  BY <1>1, <1>2, <1>3, <1>4, <1>7 DEF InGroups, Levelled
<1>8. group # {} \/ \E m \in Nodes : node[m] # "waiting"
  BY <1>3
<1>9. InGroups /\ Levelled
  BY <1>6, <1>8, <1>5, <1>1 DEF IInv, FlowType, Grouped, Failed, Preparing, Phases
<1>10. Counted'
  BY <1>1 DEF IInv, Counted, EdgesLeft
<1>11. ASSUME phase = "failed"
       PROVE  \A m \in group : node'[m] # "waiting"
  BY <1>11, <1>1, <1>2, <1>4 DEF IInv, FlowType, Failed
<1>12. QED
  BY <1>1, <1>5, <1>6, <1>7, <1>9, <1>10, <1>11
     DEF IInv, Untouched, Sorted, OnlyCyclesRefused, Grouped, Failed, Preparing

\* The end of the flow, and the steps of the client.
LEMMA Ending ==
    ASSUME IInv, EndFlow \/ FailFlow \/ SendEvent \/ Disconnect \/ UNCHANGED vars
    PROVE  IInv'
<1>1. /\ flow' = flow /\ group' = group /\ processed' = processed /\ degree' = degree /\ ready' = ready /\ node' = node
  BY DEF EndFlow, FailFlow, SendEvent, Disconnect, vars, sorting
<1>2. \/ phase' = phase
      \/ phase = "running" /\ phase' = "ended"
      \/ phase = "cyclic" /\ phase' = "failed"
      \/ phase = "running" /\ phase' = "failed" /\ \A n \in group : node[n] # "waiting"
  BY DEF EndFlow, FailFlow, SendEvent, Disconnect, vars
<1>3. QED
  BY <1>1, <1>2
     DEF IInv, FlowType, Untouched, Counted, Sorted, Ranked, OnlyCyclesRefused, Grouped, Failed,
         Preparing, Phases, InGroups, Levelled, EdgesLeft

LEMMA Invariance == Spec => []IInv
<1>1. IInv /\ [Next]_vars => IInv'
  BY Starting, Sorting, EndingSort, Grouping, Running, Ending DEF Next, EngineStep
<1>2. QED
  BY Start, <1>1, PTL DEF Spec

-----------------------------------------------------------------------------
(* Theorems                                                                *)

\* The stream and the outputs are well typed along with the rest.
LEMMA StreamTyped ==
    ASSUME FlowType, FlowType', StreamType, [Next]_vars
    PROVE  StreamType'
<1> DEFINE Events == [type : EventTypes, node : Nodes \cup {NoOutput}]
<1>1. ASSUME NEW type \in EventTypes, NEW n \in Nodes \cup {NoOutput}, Emit(type, n), read' = read
      PROVE  events' \in Seq(Events) /\ read' \in 0..Len(events')
  <2>1. Event(type, n) \in Events
    BY DEF Event
  <2>2. QED
    BY <1>1, <2>1 DEF Emit, StreamType
<1>2. CASE StartFlow \/ EndFlow \/ FailFlow
  <2>1. PICK type \in EventTypes : Emit(type, NoOutput)
    BY <1>2 DEF StartFlow, EndFlow, FailFlow, EventTypes
  <2>2. output' = output /\ read' = read /\ client' = client
    BY <1>2 DEF StartFlow, EndFlow, FailFlow, stream
  <2>3. QED
    BY <1>1, <2>1, <2>2 DEF StreamType
<1>3. CASE (\E n \in Nodes : SortNode(n)) \/ EndSort \/ NextGroup \/ SendEvent \/ Disconnect \/ UNCHANGED vars
  <2>1. output' = output /\ events' = events
    BY <1>3 DEF SortNode, EndSort, NextGroup, SendEvent, Disconnect, vars
  <2>2. \/ read' = read
        \/ read < Len(events) /\ read' = read + 1
    BY <1>3 DEF SortNode, EndSort, NextGroup, SendEvent, Disconnect, vars, stream
  <2>3. client' \in {client, "closed", "none"}
    BY <1>3 DEF SortNode, EndSort, NextGroup, SendEvent, Disconnect, vars, stream
  <2>4. Len(events) \in Nat
    BY DEF StreamType
  <2>5. QED
    BY <2>1, <2>2, <2>3, <2>4 DEF StreamType
<1>4. ASSUME NEW n \in Nodes, NodeStep(n)
      PROVE  StreamType'
  <2>1. DOMAIN output' = Nodes /\ client' = client /\ read' = read
    BY <1>4 DEF StreamType, NodeStep, StartNode, BindFails, RunnerMissing, FinishNode, NodeFails, stream
  <2>2. events' = events \/ \E type \in EventTypes : Emit(type, n)
    BY <1>4 DEF NodeStep, StartNode, BindFails, RunnerMissing, FinishNode, NodeFails, EventTypes
  <2>3. QED
    BY <1>1, <2>1, <2>2 DEF StreamType
<1>5. QED
  BY <1>2, <1>3, <1>4 DEF Next, EngineStep

\* Every reachable state is well typed, whatever the runners return.
THEOREM TypeCorrect == Spec => []TypeOK
<1>1. Init => StreamType
  BY DEF Init, StreamType
<1>2. IInv /\ IInv' /\ StreamType /\ [Next]_vars => StreamType'
  BY StreamTyped DEF IInv
<1>3. IInv /\ StreamType => TypeOK
  BY DEF IInv, FlowType, StreamType, TypeOK
<1>4. QED
  BY <1>1, <1>2, <1>3, Invariance, PTL DEF Spec

\* Whatever the graph: it is refused if it has a cycle or no node, and runs
\* only if it has none.  What was sorted carries a rank; what the sort cannot
\* reach has none.
THEOREM RefusedExactly == Spec => []OnlyCyclesRefused
<1>1. IInv => OnlyCyclesRefused
  BY DEF IInv
<1>2. QED
  BY <1>1, Invariance, PTL

\* Whatever graph is executed, with whatever runners, and whichever of them
\* fail: a node has started only if all it depends on has finished.
THEOREM InputsAreReady == Spec => []InputsReady
<1>1. IInv => InputsReady
  <2>1. SUFFICES ASSUME IInv, NEW e \in flow.edges, node[e[2]] # "waiting"
                 PROVE  node[e[1]] = "done"
    BY DEF InputsReady
  <2>2. e[1] \in flow.nodes /\ e[2] \in flow.nodes /\ flow.nodes \subseteq Nodes
    BY <2>1, EdgesFinite DEF IInv, FlowType
  <2>3. InGroups /\ Levelled
    BY <2>1, <2>2 DEF IInv, FlowType, Untouched, Grouped, Failed, Preparing, Phases
  <2>4. QED
    BY <2>1, <2>2, <2>3 DEF InGroups, Levelled
<1>2. QED
  BY <1>1, Invariance, PTL

\* Whatever is under way when a flow fails: no node starts afterwards, and the
\* flow stays failed.
THEOREM FailureIsFinal == Spec => NothingStartsAfterFailure
<1>1. IInv /\ [Next]_vars =>
        (phase = "failed" => phase' = "failed" /\ \A n \in Nodes : node'[n] = "started" => node[n] = "started")
  <2>1. SUFFICES ASSUME IInv, [Next]_vars, phase = "failed"
                 PROVE  phase' = "failed" /\ \A n \in Nodes : node'[n] = "started" => node[n] = "started"
    OBVIOUS
  <2>2. CASE EngineStep \/ SendEvent \/ Disconnect \/ UNCHANGED vars
    BY <2>1, <2>2 DEF EngineStep, StartFlow, SortNode, EndSort, NextGroup, EndFlow, FailFlow, SendEvent, Disconnect, vars
  <2>3. ASSUME NEW m \in Nodes, NodeStep(m)
        PROVE  phase' = "failed" /\ \A n \in Nodes : node'[n] = "started" => node[n] = "started"
    <3>1. ~StartNode(m)
      BY <2>1 DEF StartNode, IInv, Failed
    <3>2. node \in [Nodes -> NodeStates]
      BY <2>1 DEF IInv, FlowType
    <3>3. QED
      BY <2>1, <2>3, <3>1, <3>2 DEF NodeStep, BindFails, RunnerMissing, FinishNode, NodeFails
  <2>4. QED
    BY <2>1, <2>2, <2>3 DEF Next
<1>2. QED
  BY <1>1, Invariance, PTL DEF Spec, NothingStartsAfterFailure

-----------------------------------------------------------------------------
(* The stream tells a flow that ended in full.  The events of a node say   *)
(* which state it is in, and a flow ends when each of its nodes is done:   *)
(* nothing can be emitted afterwards.                                      *)

Told ==
    \A n \in Nodes :
        /\ node[n] = "waiting" => Emitted("node_start", n) = 0
        /\ node[n] \in {"started", "done"} => Emitted("node_start", n) = 1
        /\ node[n] \in {"waiting", "started"} => Emitted("node_end", n) = 0
        /\ node[n] = "done" => Emitted("node_end", n) = 1
        /\ node[n] # "failed" => Emitted("node_error", n) = 0

Closed ==
    phase = "ended" =>
        /\ processed = flow.nodes
        /\ \A n \in flow.nodes : node[n] = "done"
        /\ events[Len(events)].type = "flow_end"

\* An event more is counted once, as what it is.
LEMMA Emission ==
    ASSUME StreamType, NEW type, NEW n, Emit(type, n), NEW t, NEW m
    PROVE  /\ t = type /\ m = n => Emitted(t, m)' = Emitted(t, m) + 1
           /\ t # type \/ m # n => Emitted(t, m)' = Emitted(t, m)
<1> DEFINE S == {i \in DOMAIN events : events[i] = Event(t, m)}
           T == {i \in DOMAIN events' : events'[i] = Event(t, m)}
           k == Len(events) + 1
<1>1. events' = Append(events, Event(type, n)) /\ Len(events) \in Nat /\ DOMAIN events = 1..Len(events)
  BY DEF Emit, StreamType
<1>2. /\ DOMAIN events' = 1..k /\ events'[k] = Event(type, n)
      /\ \A i \in 1..Len(events) : events'[i] = events[i]
  BY <1>1 DEF StreamType
<1>3. k \notin S /\ IsFiniteSet(S)
  <2>1. k \notin S
    BY <1>1
  <2>2. IsFiniteSet(1..Len(events)) /\ S \subseteq 1..Len(events)
    BY <1>1, FS_Interval
  <2>3. IsFiniteSet(S)
    BY <2>2, FS_Subset
  <2>4. QED
    BY <2>1, <2>3
<1>4. Event(type, n) = Event(t, m) <=> t = type /\ m = n
  BY DEF Event
<1>5. CASE t = type /\ m = n
  <2>1. T = S \cup {k}
    BY <1>1, <1>2, <1>4, <1>5
  <2>2. Cardinality(T) = Cardinality(S) + 1
    BY <1>3, <2>1, FS_AddElement
  <2>3. QED
    BY <1>5, <2>2 DEF Emitted
<1>6. CASE t # type \/ m # n
  <2>1. T = S
    BY <1>1, <1>2, <1>4, <1>6
  <2>2. QED
    BY <1>6, <2>1 DEF Emitted
<1>7. QED
  BY <1>5, <1>6

\* No event counts as any other.
LEMMA NoEmission ==
    ASSUME UNCHANGED events, NEW t, NEW m
    PROVE  Emitted(t, m)' = Emitted(t, m)
  BY DEF Emitted

LEMMA ToldStep ==
    ASSUME IInv, StreamType, Told, [Next]_vars
    PROVE  Told'
<1>1. node \in [Nodes -> NodeStates]
  BY DEF IInv, FlowType
<1>2. CASE UNCHANGED <<node, events>>
  BY <1>2, NoEmission DEF Told
<1>3. CASE StartFlow \/ EndFlow \/ FailFlow
  <2>1. PICK type \in {"flow_start", "flow_end", "flow_error"} : Emit(type, NoOutput)
    BY <1>3 DEF StartFlow, EndFlow, FailFlow
  <2>2. \A n \in Nodes : \A t \in {"node_start", "node_end", "node_error"} : Emitted(t, n)' = Emitted(t, n)
    BY <2>1, Emission
  <2>3. node' = node
    BY <1>3 DEF StartFlow, EndFlow, FailFlow
  <2>4. QED
    BY <2>2, <2>3 DEF Told
<1>4. ASSUME NEW n \in Nodes, NEW s, node' = [node EXCEPT ![n] = s],
             NEW type \in {"node_start", "node_end", "node_error"}, Emit(type, n),
             \/ type = "node_start" /\ node[n] = "waiting" /\ s = "started"
             \/ type = "node_end" /\ node[n] = "started" /\ s = "done"
             \/ type = "node_error" /\ s = "failed"
      PROVE  Told'
  <2>1. \A m \in Nodes : m # n => node'[m] = node[m]
    BY <1>4
  <2>2. node'[n] = s
    BY <1>1, <1>4
  <2>3. \A m \in Nodes : \A t \in {"node_start", "node_end", "node_error"} :
            /\ m = n /\ t = type => Emitted(t, m)' = Emitted(t, m) + 1
            /\ m # n \/ t # type => Emitted(t, m)' = Emitted(t, m)
    BY <1>4, Emission
  <2> DEFINE Tells(m) ==
               /\ node[m] = "waiting" => Emitted("node_start", m) = 0
               /\ node[m] \in {"started", "done"} => Emitted("node_start", m) = 1
               /\ node[m] \in {"waiting", "started"} => Emitted("node_end", m) = 0
               /\ node[m] = "done" => Emitted("node_end", m) = 1
               /\ node[m] # "failed" => Emitted("node_error", m) = 0
  <2>4. ASSUME NEW m \in Nodes, m # n
        PROVE  Tells(m)'
    BY <2>1, <2>3, <2>4 DEF Told
  <2>5. Tells(n)'
    <3>1. CASE type = "node_start"
      BY <1>4, <2>2, <2>3, <3>1 DEF Told
    <3>2. CASE type = "node_end"
      BY <1>4, <2>2, <2>3, <3>2 DEF Told
    <3>3. CASE type = "node_error"
      BY <1>4, <2>2, <3>3
    <3>4. QED
      BY <3>1, <3>2, <3>3
  <2>6. QED
    BY <2>4, <2>5 DEF Told
<1>5. ASSUME NEW n \in Nodes, RunnerMissing(n)
      PROVE  Told'
  <2>1. node' = [node EXCEPT ![n] = "failed"] /\ node[n] = "waiting" /\ events' = events
    BY <1>5 DEF RunnerMissing
  <2>2. \A m \in Nodes : node'[m] = node[m] \/ node'[m] = "failed"
    BY <1>1, <2>1
  <2>3. \A m \in Nodes : \A t \in {"node_start", "node_end", "node_error"} : Emitted(t, m)' = Emitted(t, m)
    BY <2>1, NoEmission
  <2>4. QED
    BY <2>2, <2>3 DEF Told
<1>6. ASSUME NEW n \in Nodes, NodeStep(n)
      PROVE  Told'
  <2>1. CASE StartNode(n)
    BY <1>4, <2>1 DEF StartNode
  <2>2. CASE BindFails(n)
    BY <1>4, <2>2 DEF BindFails
  <2>3. CASE FinishNode(n)
    BY <1>4, <2>3 DEF FinishNode
  <2>4. CASE NodeFails(n)
    BY <1>4, <2>4 DEF NodeFails
  <2>5. QED
    BY <1>5, <1>6, <2>1, <2>2, <2>3, <2>4 DEF NodeStep
<1>7. QED
  BY <1>2, <1>3, <1>6 DEF Next, EngineStep, SortNode, EndSort, NextGroup, SendEvent, Disconnect, vars

LEMMA ClosedStep ==
    ASSUME IInv, StreamType, Closed, [Next]_vars
    PROVE  Closed'
<1>1. CASE EndFlow
  <2>1. events' = Append(events, Event("flow_end", NoOutput))
    BY <1>1 DEF EndFlow, Emit
  <2>2. events'[Len(events')] = Event("flow_end", NoOutput)
    BY <2>1 DEF StreamType
  <2>3. Levelled /\ GroupDone /\ processed = flow.nodes
    BY <1>1 DEF EndFlow, IInv, Grouped
  <2>4. \A n \in flow.nodes : node[n] = "done"
    BY <2>3 DEF Levelled, GroupDone
  <2>5. QED
    BY <1>1, <2>2, <2>3, <2>4 DEF EndFlow, Closed, Event, sorting
<1>2. CASE ~EndFlow
  <2>1. phase' = "ended" => phase = "ended"
    BY <1>2
    DEF Next, EngineStep, NodeStep, StartFlow, SortNode, EndSort, NextGroup, FailFlow, StartNode, BindFails,
        RunnerMissing, FinishNode, NodeFails, SendEvent, Disconnect, vars
  <2>2. CASE phase = "ended"
    <3>1. ASSUME NEW n \in Nodes, NodeStep(n)
          PROVE  FALSE
      <4>1. node[n] # "done" /\ (n \in group \/ node[n] # "waiting")
        BY <3>1 DEF NodeStep, StartNode, BindFails, RunnerMissing, FinishNode, NodeFails
      <4>2. n \in processed
        BY <2>2, <4>1 DEF IInv, Grouped, InGroups, Levelled
      <4>3. QED
        BY <2>2, <4>1, <4>2 DEF Closed
    <3>2. UNCHANGED <<flow, processed, node, events>>
      BY <1>2, <2>2, <3>1
      DEF Next, EngineStep, StartFlow, SortNode, EndSort, NextGroup, FailFlow, SendEvent, Disconnect, vars, sorting
    <3>3. QED
      BY <2>2, <3>2 DEF Closed
  <2>3. QED
    BY <2>1, <2>2 DEF Closed
<1>3. QED
  BY <1>1, <1>2

\* Whatever the graph and the runners: the stream of a flow that ended names
\* each node once at its start and once at its end, and closes with the end of
\* the flow.
THEOREM EndedInFull == Spec => []EndedIsComplete
<1>1. Init => StreamType /\ Told /\ Closed
  <2>1. SUFFICES ASSUME Init
                 PROVE  StreamType /\ Told /\ Closed
    OBVIOUS
  <2>2. \A t : \A n \in Nodes : Emitted(t, n) = 0
    BY <2>1, FS_EmptySet DEF Init, Emitted
  <2>3. QED
    BY <2>1, <2>2 DEF Init, StreamType, Told, Closed
<1>2. IInv /\ IInv' /\ StreamType /\ Told /\ Closed /\ [Next]_vars => StreamType' /\ Told' /\ Closed'
  BY StreamTyped, ToldStep, ClosedStep DEF IInv
<1>3. IInv /\ Told /\ Closed => EndedIsComplete
  <2>1. flow \in Flows => flow.nodes \subseteq Nodes
    BY EdgesFinite
  <2>2. QED
    BY <2>1 DEF IInv, FlowType, Told, Closed, EndedIsComplete
<1>4. QED
  BY <1>1, <1>2, <1>3, Invariance, PTL DEF Spec

=============================================================================
