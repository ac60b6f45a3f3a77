----------------------------- MODULE FlowBuild -----------------------------
(***************************************************************************)
(* buildFlow: the nodes of a chatflow are initialised one after the other, *)
(* before the flow is executed or its documents are upserted. A node needs *)
(* the instances of the nodes that lead to it. The builder takes the nodes *)
(* from a queue, and after each one puts in the nodes of the next depth    *)
(* whose inputs have all been initialised.                                 *)
(*                                                                         *)
(* A flow, with the request to build it, is a record with the fields       *)
(*                                                                         *)
(*   nodes   the ids of its nodes, in the order of flowData.nodes          *)
(*   edges   its edges; `out' of one that leaves an ifElseFunction is the  *)
(*           branch it belongs to, TRUE for returnTrue                     *)
(*   kind    "ifElse" for an ifElseFunction; "loader" for a document       *)
(*           loader that leads to a vector store that is not in memory     *)
(*           (checkIfDocLoaderShouldBeIgnored); "plain" for the others     *)
(*   chains  the nodes of a category that may end a flow                   *)
(*   stop    the vector store to upsert into; NoNode for a prediction      *)
(*                                                                         *)
(* The order in which a JavaScript object lists its keys, and that of the  *)
(* edges, are left open: neighbours come in any order.                     *)
(***************************************************************************)
EXTENDS Subsequence

CONSTANTS Node,     \* the ids of nodes
          NoNode,   \* no node
          Flows,    \* the flows that may be built
          MaxLoop   \* maxLoop

Flow == [nodes  : Seq(Node),
         edges  : SUBSET [src : Node, tgt : Node, out : BOOLEAN],
         kind   : [Node -> {"plain", "ifElse", "loader"}],
         chains : SUBSET Node,
         stop   : Node \cup {NoNode}]

Sources(f, n) == {e.src : e \in {x \in f.edges : x.tgt = n}}
Targets(f, n) == {e.tgt : e \in {x \in f.edges : x.src = n}}
Upserts(f)    == f.stop # NoNode

\* No edges form a cycle: among any nodes is one that none of them leads to.
Acyclic(f) == \A S \in SUBSET Node : S # {} => \E n \in S : Sources(f, n) \cap S = {}

ASSUME FlowBuildAssumption ==
    /\ IsFiniteSet(Node) /\ NoNode \notin Node
    /\ \A f \in Flows :
          /\ f \in Flow /\ f.nodes # <<>>
          /\ {f.nodes[i] : i \in DOMAIN f.nodes} = Node
    /\ MaxLoop \in Nat /\ MaxLoop > 1

\* walkGraph assumes a directed acyclic graph: on a cycle it would not return.
ASSUME AcyclicAssumption == \A f \in Flows : Acyclic(f)

VARIABLES flow,         \* the flow and the request: never changes
          depthQueue,   \* depthQueue: never changes
          graph,        \* graph, which buildFlow adds to
          nodeQueue,    \* nodeQueue
          exploredNode, \* exploredNode, for the nodes that have an entry
          initialized,  \* initializedNodes
          ignoreNodes,  \* ignoreNodeIds
          last,         \* the node at the end of flowNodes
          built,        \* history: how often init() of each node was called
          phase         \* "building", "done" or "failed"

vars == <<flow, depthQueue, graph, nodeQueue, exploredNode, initialized,
          ignoreNodes, last, built, phase>>

(***************************************************************************)
(* Where the build starts                                                  *)
(***************************************************************************)
\* getEndingNodes: the sinks that something leads to, of a category that may end a flow.
EndingNodes(f) ==
    Pick(f.nodes, {i \in DOMAIN f.nodes :
                      /\ f.nodes[i] \in f.chains
                      /\ \/ Len(f.nodes) = 1
                         \/ Targets(f, f.nodes[i]) = {} /\ Sources(f, f.nodes[i]) # {}})

Largest(S) == CHOOSE k \in S : \A j \in S : j <= k

\* The nodes with a way of k edges to the end.
Away(f, end) ==
    LET away[k \in 0 .. Len(f.nodes)] ==
            IF k = 0 THEN {end} ELSE UNION {Sources(f, n) : n \in away[k - 1]}
    IN  away

\* Mutant: the shortest way to the end counts (walkGraph without Math.max).
LeastDepth(f, end) ==
    LET away    == Away(f, end)
        ways(n) == {k \in DOMAIN away : n \in away[k]}
        near(n) == CHOOSE k \in ways(n) : \A j \in ways(n) : k <= j
        walked  == {n \in Node : ways(n) # {}}
    IN  [n \in walked |-> Largest({near(m) : m \in walked}) - near(n)]

(***************************************************************************)
(* getStartingNodes, for one end. walkGraph gives each node that leads to  *)
(* the end the length of the longest way there; its depth is what is left  *)
(* of the longest of all.                                                  *)
(***************************************************************************)
DepthFrom(f, end) ==
    LET away    == Away(f, end)
        ways(n) == {k \in DOMAIN away : n \in away[k]}
        far     == Largest({k \in DOMAIN away : away[k] # {}})
    IN  [n \in {m \in Node : ways(m) # {}} |-> far - Largest(ways(n))]

\* The ends that are walked from: the vector store of an upsert, or every end.
Ends(f) == IF Upserts(f) THEN <<f.stop>> ELSE EndingNodes(f)

Depths(f) == [i \in DOMAIN Ends(f) |-> DepthFrom(f, Ends(f)[i])]

\* A start for one end is a start.
StartingNodes(f) ==
    LET depth == Depths(f)
    IN  {n \in Node : \E i \in DOMAIN depth : n \in DOMAIN depth[i] /\ depth[i][n] = 0}

\* Object.assign: the depth from a later end wins.
DepthQueue(f) ==
    LET depth   == Depths(f)
        from(n) == {i \in DOMAIN depth : n \in DOMAIN depth[i]}
    IN  [n \in {m \in Node : from(m) # {}} |-> depth[Largest(from(n))][n]]

\* The set S in any order, and the entries of the queue for it.
Orders(S) ==
    {s \in [1 .. Cardinality(S) -> S] :
        /\ \A i, j \in DOMAIN s : s[i] = s[j] => i = j
        /\ \A n \in S : \E i \in DOMAIN s : s[i] = n}

Entries(order, d) == [i \in DOMAIN order |-> [node |-> order[i], depth |-> d]]

(***************************************************************************)
(* A prediction is built on the graph of the flow; an upsert on the        *)
(* reversed graph, cut to what leads to the vector store. A flow without   *)
(* an end is refused before it is built.                                   *)
(***************************************************************************)
Init ==
    /\ flow \in Flows /\ Ends(flow) # <<>>
    /\ depthQueue = DepthQueue(flow)
    /\ graph = [n \in Node |-> IF Upserts(flow) THEN Sources(flow, n) ELSE Targets(flow, n)]
    /\ LET starts == StartingNodes(flow)
       IN  /\ \E order \in Orders(starts) : nodeQueue = Entries(order, 0)
           /\ exploredNode = [n \in starts |-> [remainingLoop |-> MaxLoop, lastSeenDepth |-> 0]]
    /\ initialized = {} /\ ignoreNodes = {}
    /\ last = flow.nodes[Len(flow.nodes)]
    /\ built = [n \in Node |-> 0]
    /\ phase = "building"

(***************************************************************************)
(* One turn of the loop                                                    *)
(***************************************************************************)
Near(edges, S) == S \cup {e.src : e \in {x \in edges : x.tgt \in S}}
                    \cup {e.tgt : e \in {x \in edges : x.src \in S}}

\* getAllConnectedNodes, on a graph without directions.
Connected(f, edges, n) ==
    LET reach[k \in 0 .. Len(f.nodes)] == IF k = 0 THEN {n} ELSE Near(edges, reach[k - 1])
    IN  {m \in Node : m \in reach[Len(f.nodes)]}

(***************************************************************************)
(* An ifElseFunction n that took the branch `side' has the first node of   *)
(* the other branch ignored, and all that is connected to it without the   *)
(* edges of that branch: one set for each edge that may be the first.      *)
(***************************************************************************)
Untaken(f, n, side) ==
    LET other == {e \in f.edges : e.src = n /\ e.out # side}
    IN  IF other = {} THEN {{}} ELSE {Connected(f, f.edges \ other, e.tgt) : e \in other}

\* What may be ignored after n has been initialised.
Ignored(f, n) ==
    IF f.kind[n] = "ifElse" THEN UNION {Untaken(f, n, side) : side \in BOOLEAN} ELSE {{}}

\* Mutants: a node may be queued twice at a depth; or when it is initialised already.
DueAgain(n, ready, d) == n \notin ready /\ Sources(flow, n) \subseteq ready
DueReady(n, ready, d) ==
    /\ Sources(flow, n) \subseteq ready
    /\ n \in DOMAIN exploredNode => exploredNode[n].lastSeenDepth # d

\* A neighbour at depth d is due: not initialised, its inputs are, and it has not been
\* queued for this depth.
Due(n, ready, d) ==
    /\ n \notin ready /\ Sources(flow, n) \subseteq ready
    /\ n \in DOMAIN exploredNode => exploredNode[n].lastSeenDepth # d

Spent(n) == n \in DOMAIN exploredNode /\ exploredNode[n].remainingLoop = 0

\* Those that are due go into the queue. The first that has no loop left ends the loop,
\* and which ones come before it is open.
Pushes(due) ==
    IF \E n \in due : Spent(n) THEN SUBSET {n \in due : ~ Spent(n)} ELSE {due}

Seen(n, d) ==
    [remainingLoop |-> IF n \in DOMAIN exploredNode THEN exploredNode[n].remainingLoop - 1 ELSE MaxLoop,
     lastSeenDepth |-> d]

\* The neighbours of n when they are at depth d: the list in graph takes in the nodes
\* of that depth.
Neighbours(n, d) == graph[n] \cup {m \in DOMAIN depthQueue : depthQueue[m] = d}

\* Mutant: the end node is not moved to the end of flowNodes.
PushOnly(n, d) ==
    LET neighbours == Neighbours(n, d) \ ignoreNodes'
        due == {m \in neighbours : Due(m, initialized', d)}
    IN  /\ graph' = [graph EXCEPT ![n] = Neighbours(n, d)]
        /\ \E new \in Pushes(due) : \E order \in Orders(new) :
              /\ nodeQueue' = Tail(nodeQueue) \o Entries(order, d)
              /\ exploredNode' = [m \in DOMAIN exploredNode \cup new |->
                                    IF m \in new THEN Seen(m, d) ELSE exploredNode[m]]
        /\ last' = last

PushNext(n, d) ==
    LET neighbours == Neighbours(n, d) \ ignoreNodes'
        due == {m \in neighbours : Due(m, initialized', d)}
    IN  /\ graph' = [graph EXCEPT ![n] = Neighbours(n, d)]
        /\ \E new \in Pushes(due) : \E order \in Orders(new) :
              /\ nodeQueue' = Tail(nodeQueue) \o Entries(order, d)
              /\ exploredNode' = [m \in DOMAIN exploredNode \cup new |->
                                    IF m \in new THEN Seen(m, d) ELSE exploredNode[m]]
        /\ last' = IF neighbours = {} THEN n ELSE last

Turn(n) == phase = "building" /\ nodeQueue # <<>> /\ n = Head(nodeQueue).node

\* init() of the node at the head is called, unless it is a loader whose documents are
\* already in the vector store, and what is next is queued.
Visit(n) ==
    /\ Turn(n) /\ n # flow.stop
    /\ built' = IF flow.kind[n] = "loader" /\ ~ Upserts(flow)
                THEN built ELSE [built EXCEPT ![n] = @ + 1]
    /\ initialized' = initialized \cup {n}
    /\ \E gone \in Ignored(flow, n) : ignoreNodes' = ignoreNodes \cup gone
    /\ PushNext(n, Head(nodeQueue).depth + 1)
    /\ UNCHANGED <<flow, depthQueue, phase>>

\* The turn of the vector store: its upsert is called, and the loop ends.
Upsert(n) ==
    /\ Turn(n) /\ n = flow.stop
    /\ built' = [built EXCEPT ![n] = @ + 1]
    /\ phase' = "done"
    /\ UNCHANGED <<flow, depthQueue, graph, nodeQueue, exploredNode, initialized, ignoreNodes, last>>

\* init() or the upsert throws, and so does buildFlow.
Fail ==
    /\ phase = "building" /\ nodeQueue # <<>>
    /\ phase' = "failed"
    /\ UNCHANGED <<flow, depthQueue, graph, nodeQueue, exploredNode, initialized, ignoreNodes, last, built>>

Finish ==
    /\ phase = "building" /\ nodeQueue = <<>>
    /\ phase' = "done"
    /\ UNCHANGED <<flow, depthQueue, graph, nodeQueue, exploredNode, initialized, ignoreNodes, last, built>>

Next == Fail \/ Finish \/ \E n \in Node : Visit(n) \/ Upsert(n)

Spec == Init /\ [][Next]_vars

\* initEndingNode: what a prediction executes then.
Executed == IF Len(EndingNodes(flow)) = 1 THEN EndingNodes(flow)[1] ELSE last

(***************************************************************************)
(* Properties                                                              *)
(***************************************************************************)
\* The state is well-formed.
TypeOK ==
    /\ flow \in Flows
    /\ DOMAIN depthQueue \subseteq Node
    /\ graph \in [Node -> SUBSET Node]
    /\ nodeQueue \in Seq([node : Node, depth : Nat])
    /\ DOMAIN exploredNode \subseteq Node
    /\ \A n \in DOMAIN exploredNode : exploredNode[n] \in [remainingLoop : Nat, lastSeenDepth : Nat]
    /\ initialized \subseteq Node /\ ignoreNodes \subseteq Node /\ last \in Node
    /\ built \in [Node -> Nat]
    /\ phase \in {"building", "done", "failed"}

\* The nodes that are ready for those that need them: an upsert that was called is.
Ready == initialized \cup {n \in {flow.stop} \cap Node : built[n] > 0}

Order == INSTANCE BuildOrder
            WITH needs  <- [n \in Node |-> Sources(flow, n)],
                 wanted <- DOMAIN depthQueue \ ignoreNodes,
                 ready  <- Ready

\* Whatever the shape of the flow, the queue and its depths lead to a build in the
\* order of the dependencies, which ends with every node that leads to an end and has
\* not been ignored: buildFlow implements BuildOrder.
ImplementsBuildOrder == Order!Spec

\* A node that is not initialised yet can be queued once more when another depth comes
\* up, so init() may be called twice; it is never called a third time, and the limit of
\* loops, which would drop the neighbours after the node, is never reached.
TwiceAtMost ==
    /\ \A n \in Node : built[n] <= 2
    /\ \A n \in Node : ~ Spent(n)

\* An upsert goes depth by depth: no node that leads to the vector store is initialised
\* twice, and the documents are not upserted twice.
UpsertBuildsOnce == Upserts(flow) => \A n \in Node : built[n] <= 1

\* Branches that can be told apart: both lead to an end, and taking one does not ignore
\* where it leads, as a node that both use would do.
BranchesApart ==
    \A n \in Node : flow.kind[n] = "ifElse" => \A side \in BOOLEAN :
        LET taken == DOMAIN depthQueue
                        \cap {e.tgt : e \in {x \in flow.edges : x.src = n /\ x.out = side}}
        IN  taken # {} /\ \A gone \in Untaken(flow, n, side) : taken \cap gone = {}

\* The ends agree on the depths of the nodes they share.
DepthsAgree ==
    \A i, j \in DOMAIN Depths(flow) : \A n \in DOMAIN Depths(flow)[i] \cap DOMAIN Depths(flow)[j] :
        Depths(flow)[i][n] = Depths(flow)[j][n]

\* The node that a prediction executes has been built: with several ends that is the
\* one moved last, which the ends of a branch not taken must not be. An end is moved
\* when nothing of the next depth is left beside it, also nothing that belongs to
\* another end. An ifElseFunction that is built twice may take both branches.
ExecutedIsBuilt ==
    phase = "done" /\ ~ Upserts(flow) /\ BranchesApart /\ DepthsAgree
        /\ (\A n \in Node : flow.kind[n] = "ifElse" => built[n] <= 1)
    => Executed \in initialized
=============================================================================
