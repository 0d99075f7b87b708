------------------------------ MODULE FlowEngine ------------------------------
(***************************************************************************)
(* The engine that executes a flow: a graph of nodes, run level by level,  *)
(* the nodes of a level in parallel, and the stream of events a client may *)
(* read meanwhile.                                                         *)
(*                                                                         *)
(* The engine is a coroutine of an event loop.  Its steps are what happens *)
(* between two suspensions: sorting and grouping suspend nowhere and are   *)
(* split only to be readable.  The nodes of a group all take their first   *)
(* step before the failure of one of them reaches the engine, and those    *)
(* that have not failed run on afterwards, as nobody cancels them.         *)
(***************************************************************************)
EXTENDS Integers, Sequences, FiniteSets

CONSTANTS
    Nodes,          \* identifiers of nodes
    Flows,          \* the flows that are executed
    Unregistered,   \* nodes whose type no runner is registered for
    NoOutput,       \* what the context holds for a node that has not finished
    Run(_, _, _),   \* what the runner of a node may return in a flow, given the outputs
    MayRaise(_, _)  \* whether the runner of a node of a flow may raise

ASSUME NodesAssumption == IsFiniteSet(Nodes) /\ Unregistered \subseteq Nodes

\* uses: the pairs <<n, m>> such that an input of n refers to the output of m.
ASSUME FlowsAssumption ==
    \A f \in Flows :
        /\ f = [nodes |-> f.nodes, edges |-> f.edges, uses |-> f.uses]
        /\ f.nodes \subseteq Nodes
        /\ f.edges \subseteq f.nodes \X f.nodes
        /\ f.uses \subseteq f.nodes \X f.nodes

VARIABLES
    flow,           \* the flow
    phase,          \* where execute_flow is
    degree,         \* in_degree, of the sort and then of the grouping
    ready,          \* the sort's queue
    processed,      \* nodes sorted, then nodes in groups
    group,          \* the group being executed
    node,           \* the state of each node
    output,         \* context.outputs
    events,         \* everything put on the event queue
    read,           \* how many of them the client has been sent
    client          \* whether a client reads the stream

sorting == <<degree, ready, processed, group>>
stream == <<read, client>>
vars == <<flow, phase, sorting, node, output, events, stream>>

-----------------------------------------------------------------------------
Phases == {"new", "sorting", "cyclic", "running", "ended", "failed"}

NodeStates == {"waiting", "started", "done", "failed"}

Event(type, n) == [type |-> type, node |-> n]

Emit(type, n) == events' = Append(events, Event(type, n))

EventTypes == {"flow_start", "flow_end", "flow_error", "node_start", "node_end", "node_error"}

Init ==
    /\ flow \in Flows
    /\ phase = "new"
    /\ degree = [n \in Nodes |-> 0]
    /\ ready = {}
    /\ processed = {}
    /\ group = {}
    /\ node = [n \in Nodes |-> "waiting"]
    /\ output = [n \in Nodes |-> NoOutput]
    /\ events = <<>>
    /\ read = 0
    /\ client \in {"reading", "none"}

InDegree == [n \in Nodes |-> Cardinality({e \in flow.edges : e[2] = n})]

\* The degrees when the edges that leave the nodes of S have been taken off.
Without(S) == [n \in Nodes |-> degree[n] - Cardinality({e \in flow.edges : e[2] = n /\ e[1] \in S})]

\* Mutant: a node is ready when one of its predecessors is left.
NearSources(deg) == {n \in flow.nodes : deg[n] <= 1}

Sources(deg) == {n \in flow.nodes : deg[n] = 0}

-----------------------------------------------------------------------------
(* _topological_sort: only whether it takes in every node is used.         *)

StartFlow ==
    /\ phase = "new"
    /\ degree' = InDegree
    /\ ready' = Sources(InDegree)
    /\ phase' = IF ready' = {} THEN "cyclic" ELSE "sorting"
    /\ Emit("flow_start", NoOutput)
    /\ UNCHANGED <<flow, processed, group, node, output, stream>>

SortNode(n) ==
    /\ phase = "sorting"
    /\ n \in ready
    /\ degree' = Without({n})
    /\ ready' = (ready \ {n}) \cup {m \in flow.nodes : <<n, m>> \in flow.edges /\ degree'[m] = 0}
    /\ processed' = processed \cup {n}
    /\ UNCHANGED <<flow, phase, group, node, output, events, stream>>

\* Mutant: what was sorted is not compared with the flow.
EndSortUnchecked ==
    /\ phase = "sorting"
    /\ ready = {}
    /\ phase' = "running"
    /\ degree' = InDegree
    /\ processed' = {}
    /\ UNCHANGED <<flow, ready, group, node, output, events, stream>>

EndSort ==
    /\ phase = "sorting"
    /\ ready = {}
    /\ phase' = IF Cardinality(processed) # Cardinality(flow.nodes) THEN "cyclic" ELSE "running"
    /\ degree' = InDegree
    /\ processed' = {}
    /\ UNCHANGED <<flow, ready, group, node, output, events, stream>>

-----------------------------------------------------------------------------
(* _find_parallel_groups and _execute_node_group                           *)

\* Mutant: the group is not awaited.
GroupStarted == \A n \in group : node[n] \in {"started", "done"}

GroupDone == \A n \in group : node[n] = "done"

\* Mutant: the nodes of earlier groups are not left out.
Regroup ==
    /\ phase = "running"
    /\ GroupDone
    /\ processed # flow.nodes
    /\ group' = Sources(degree)
    /\ processed' = processed \cup group'
    /\ degree' = Without(group')
    /\ UNCHANGED <<flow, phase, ready, node, output, events, stream>>

NextGroup ==
    /\ phase = "running"
    /\ GroupDone
    /\ processed # flow.nodes
    /\ group' = Sources(degree) \ processed
    /\ processed' = processed \cup group'
    /\ degree' = Without(group')
    /\ UNCHANGED <<flow, phase, ready, node, output, events, stream>>

Bound(n) == \A use \in flow.uses : use[1] = n => output[use[2]] # NoOutput

\* _bind_node_inputs finds every output that the inputs refer to.
StartNode(n) ==
    /\ n \in group
    /\ node[n] = "waiting"
    /\ n \notin Unregistered
    /\ Bound(n)
    /\ node' = [node EXCEPT ![n] = "started"]
    /\ Emit("node_start", n)
    /\ UNCHANGED <<flow, phase, sorting, output, stream>>

BindFails(n) ==
    /\ n \in group
    /\ node[n] = "waiting"
    /\ n \notin Unregistered
    /\ ~Bound(n)
    /\ node' = [node EXCEPT ![n] = "failed"]
    /\ Emit("node_error", n)
    /\ UNCHANGED <<flow, phase, sorting, output, stream>>

\* No runner: raised before anything is emitted.
RunnerMissing(n) ==
    /\ n \in group
    /\ node[n] = "waiting"
    /\ n \in Unregistered
    /\ node' = [node EXCEPT ![n] = "failed"]
    /\ UNCHANGED <<flow, phase, sorting, output, events, stream>>

\* The node may outlive its flow.
FinishNode(n) ==
    /\ node[n] = "started"
    /\ node' = [node EXCEPT ![n] = "done"]
    /\ \E o \in Run(flow, n, output) : output' = [output EXCEPT ![n] = o]
    /\ Emit("node_end", n)
    /\ UNCHANGED <<flow, phase, sorting, stream>>

NodeFails(n) ==
    /\ node[n] = "started"
    /\ MayRaise(flow, n)
    /\ node' = [node EXCEPT ![n] = "failed"]
    /\ Emit("node_error", n)
    /\ UNCHANGED <<flow, phase, sorting, output, stream>>

-----------------------------------------------------------------------------
EndFlow ==
    /\ phase = "running"
    /\ GroupDone
    /\ processed = flow.nodes
    /\ phase' = "ended"
    /\ Emit("flow_end", NoOutput)
    /\ UNCHANGED <<flow, sorting, node, output, stream>>

\* Mutant: the error of a node ends the flow while siblings have yet to start.
FailFlowEarly ==
    /\ \/ phase = "cyclic"
       \/ phase = "running" /\ \E n \in group : node[n] = "failed"
    /\ phase' = "failed"
    /\ Emit("flow_error", NoOutput)
    /\ UNCHANGED <<flow, sorting, node, output, stream>>

\* gather hands on the first exception when every node has taken a step.
FailFlow ==
    /\ \/ phase = "cyclic"
       \/ /\ phase = "running"
          /\ \E n \in group : node[n] = "failed"
          /\ \A n \in group : node[n] # "waiting"
    /\ phase' = "failed"
    /\ Emit("flow_error", NoOutput)
    /\ UNCHANGED <<flow, sorting, node, output, stream>>

\* stream_flow_events: up to the end of the flow or its error.
SendEvent ==
    /\ client = "reading"
    /\ read < Len(events)
    /\ read' = read + 1
    /\ client' = IF events[read'].type \in {"flow_end", "flow_error"} THEN "closed" ELSE client
    /\ UNCHANGED <<flow, phase, sorting, node, output, events>>

\* The client goes away: the flow runs on.
Disconnect ==
    /\ client = "reading"
    /\ client' = "none"
    /\ UNCHANGED <<flow, phase, sorting, node, output, events, read>>

EngineStep == StartFlow \/ (\E n \in Nodes : SortNode(n)) \/ EndSort \/ NextGroup \/ EndFlow \/ FailFlow

NodeStep(n) == StartNode(n) \/ BindFails(n) \/ RunnerMissing(n) \/ FinishNode(n) \/ NodeFails(n)

Next == EngineStep \/ (\E n \in Nodes : NodeStep(n)) \/ SendEvent \/ Disconnect

Spec == Init /\ [][Next]_vars

\* The event loop runs what is ready, and every runner returns or raises.
FairSpec == Spec /\ WF_vars(EngineStep) /\ (\A n \in Nodes : WF_vars(NodeStep(n))) /\ WF_vars(SendEvent)

-----------------------------------------------------------------------------
(* Properties                                                              *)

TypeOK ==
    /\ flow \in Flows
    /\ phase \in Phases
    /\ degree \in [Nodes -> Nat]
    /\ ready \subseteq flow.nodes /\ processed \subseteq flow.nodes /\ group \subseteq flow.nodes
    /\ node \in [Nodes -> NodeStates]
    /\ DOMAIN output = Nodes
    /\ events \in Seq([type : EventTypes, node : Nodes \cup {NoOutput}])
    /\ read \in 0..Len(events)
    /\ client \in {"reading", "none", "closed"}

\* A node starts only when every node before it has finished and left its
\* output, although the grouping works with counters and takes the edges off
\* as it goes (_find_parallel_groups, _execute_node_group).
InputsReady ==
    \A e \in flow.edges : node[e[2]] # "waiting" => node[e[1]] = "done"

\* A rank of the nodes that grows along the edges: there is one exactly when
\* the flow has no cycle.
Acyclic(f) ==
    \E rank \in [f.nodes -> 1..Cardinality(f.nodes)] : \A e \in f.edges : rank[e[1]] < rank[e[2]]

\* The sort refuses exactly the flows that have a cycle, and those that have
\* no node; no node of such a flow ever runs (_topological_sort).
OnlyCyclesRefused ==
    /\ phase = "cyclic" => flow.nodes = {} \/ ~Acyclic(flow)
    /\ phase = "running" => Acyclic(flow)

Emitted(type, n) == Cardinality({i \in DOMAIN events : events[i] = Event(type, n)})

\* The stream of a flow that ended names every node exactly once at its start
\* and once at its end, and nothing follows the end of the flow.
EndedIsComplete ==
    phase = "ended" =>
        /\ events[Len(events)].type = "flow_end"
        /\ \A n \in flow.nodes : Emitted("node_start", n) = 1 /\ Emitted("node_end", n) = 1 /\ Emitted("node_error", n) = 0

\* Once the flow has failed no node starts any more: what its siblings still
\* emit is the end of what was under way (gather does not cancel them).
NothingStartsAfterFailure ==
    [][phase = "failed" => phase' = "failed" /\ \A n \in Nodes : node'[n] = "started" => node[n] = "started"]_vars

\* Every execution ends, and a client that stays is told so, whichever node
\* fails and whenever.
FlowEnds == (phase = "new") ~> (phase \in {"ended", "failed"} /\ client # "reading")
===============================================================================
