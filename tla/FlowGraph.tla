------------------------------ MODULE FlowGraph ------------------------------
(***************************************************************************)
(* The graph an Agentflow V2 is executed on, and the pure functions of     *)
(* utils/buildAgentflow.ts and utils/index.ts that read it.                *)
(*                                                                         *)
(* A flow is a record with the fields                                      *)
(*                                                                         *)
(*   nodes   the ids of its nodes                                          *)
(*   kind    the part of node.data.name the executor branches on           *)
(*   outs    how many output conditions the node reports when it runs      *)
(*   edges   the edges, in the order of flowData.edges; the field `out' of *)
(*           an edge is the index in its sourceHandle, source-output-index *)
(*   back    the node a loop node goes back to (any node for the others)   *)
(*                                                                         *)
(* The canvas refuses an edge that closes a cycle, so the edges of a flow  *)
(* form a DAG; only a loop node goes back.                                 *)
(***************************************************************************)
EXTENDS Subsequence

CONSTANTS Node,     \* the ids of nodes
          NoNode    \* stands for `undefined' or null where an id is expected

Kinds == {"plain", "condition", "human", "agent", "loop"}

\* conditionAgentflow and conditionAgentAgentflow are "condition", humanInputAgentflow
\* is "human": the three names the executor treats as decisions.
IsDecision(f, n) == f.kind[n] \in {"condition", "human"}

EdgesInto(f, n) == {i \in DOMAIN f.edges : f.edges[i].tgt = n}
EdgesFrom(f, n) == {i \in DOMAIN f.edges : f.edges[i].src = n}
Outputs(f, n)   == 0 .. f.outs[n] - 1

First(I) == CHOOSE i \in I : \A j \in I : i <= j

\* constructGraphs: graph[n], the targets of the edges that leave n, in edge order
\* and once per edge.
Targets(f)  == [i \in DOMAIN f.edges |-> f.edges[i].tgt]
Graph(f, n) == Pick(Targets(f), EdgesFrom(f, n))

\* getStartingNode: the nodes without an incoming edge.
StartingNodes(f) == {n \in f.nodes : EdgesInto(f, n) = {}}

(***************************************************************************)
(* findConditionParent: the node itself when it is a decision, else the    *)
(* first decision met walking up the first incoming edge of each node.     *)
(***************************************************************************)
FirstParent(f, n) ==
    IF n = NoNode \/ EdgesInto(f, n) = {}
    THEN NoNode ELSE f.edges[First(EdgesInto(f, n))].src

\* Mutant: only the node itself is looked at, not the nodes above it.
OwnConditionParent(f, n) == IF IsDecision(f, n) THEN n ELSE NoNode

ConditionParent(f, n) ==
    LET up[k \in 0 .. Cardinality(f.nodes)] ==
            IF k = 0 THEN n ELSE FirstParent(f, up[k - 1])
        decisions == {k \in DOMAIN up : up[k] # NoNode /\ IsDecision(f, up[k])}
    IN  IF decisions = {} THEN NoNode ELSE up[First(decisions)]

(***************************************************************************)
(* setupNodeDependencies: which inputs a node expects. An input under no   *)
(* decision is required; the others are grouped by their decision, and one *)
(* of each group is enough.                                                *)
(***************************************************************************)
Sources(f, n) == {f.edges[i].src : i \in EdgesInto(f, n)}

NodeDependencies(f, n) ==
    LET under(s) == ConditionParent(f, s)
    IN  [expected |-> {s \in Sources(f, n) : under(s) = NoNode},
         groups   |-> {{s \in Sources(f, n) : under(s) = c} :
                         c \in {under(s) : s \in Sources(f, n)} \ {NoNode}}]

\* hasReceivedRequiredInputs: all the required inputs, and one of each group.
HasRequiredInputs(dep, received) ==
    /\ dep.expected \subseteq received
    /\ \A g \in dep.groups : g \cap received # {}

(***************************************************************************)
(* determineNodesToIgnore: `fulfilled' is the set of output conditions the *)
(* decision reported as fulfilled. When none is, the last one is taken; a  *)
(* child is ignored when the first edge of an unfulfilled output leads to  *)
(* it.                                                                     *)
(***************************************************************************)
Taken(f, n, fulfilled) ==
    IF fulfilled = {} /\ f.outs[n] > 0 THEN {f.outs[n] - 1} ELSE fulfilled

\* Mutants: nothing is ignored; the fulfilled outputs are ignored.
IgnoreNone(f, n, taken)  == {}
IgnoreTaken(f, n, taken) == {f.edges[e].tgt : e \in {x \in EdgesFrom(f, n) : f.edges[x].out \in taken}}

NodesToIgnore(f, n, taken) ==
    LET edges(i) == {e \in EdgesFrom(f, n) : f.edges[e].out = i}
    IN  {f.edges[First(edges(i))].tgt :
            i \in {o \in Outputs(f, n) \ taken : edges(o) # {}}}

\* The children processNodeOutputs goes through after n has reported `taken'.
Fired(f, n, taken) ==
    LET ignored == IF IsDecision(f, n) THEN NodesToIgnore(f, n, taken) ELSE {}
    IN  Pick(Targets(f), {e \in EdgesFrom(f, n) : f.edges[e].tgt \notin ignored})

\* The children a run that reported `taken' is meant to reach: the targets of the
\* edges that leave a taken output, or of every edge when n is no decision.
Reaches(f, n, taken) ==
    {f.edges[e].tgt : e \in {x \in EdgesFrom(f, n) :
                                IsDecision(f, n) => f.edges[x].out \in taken}}

Flow == [nodes : SUBSET Node, kind : [Node -> Kinds], outs : [Node -> Nat],
         edges : Seq([src : Node, tgt : Node, out : Nat]), back : [Node -> Node]]
==============================================================================
