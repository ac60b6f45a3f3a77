------------------------------ MODULE FlowShapes ------------------------------
(***************************************************************************)
(* The shapes of agentflows under which the executor keeps its promises:   *)
(* what the theorems of AgentFlow_proofs assume of a flow. Each is a       *)
(* statement about the graph alone, through what a node calls when it has  *)
(* reported an output (Fired) and what a node waits for                    *)
(* (NodeDependencies); MCAgentFlow evaluates them on the flows of the runs.*)
(***************************************************************************)
EXTENDS FlowGraph

OneStart(f) == \E start \in f.nodes : StartingNodes(f) = {start}
LoopFree(f) == \A n \in f.nodes : f.kind[n] # "loop"

\* No two outputs of a decision lead to the same node.
OneOutputEach(f) ==
    \A e, x \in DOMAIN f.edges :
        f.edges[e].src = f.edges[x].src /\ f.edges[e].tgt = f.edges[x].tgt
        /\ IsDecision(f, f.edges[e].src)
        => f.edges[e].out = f.edges[x].out

\* The nodes n calls when it has taken an output, and what a run of n may take.
Callees(f, n, taken) == {Fired(f, n, taken)[i] : i \in DOMAIN Fired(f, n, taken)}

Outcomes(f, n) ==
    IF IsDecision(f, n)
    THEN {Taken(f, n, fulfilled) : fulfilled \in {{}} \cup {{o} : o \in Outputs(f, n)}}
    ELSE {{}}

(***************************************************************************)
(* A course of a flow is a set of steps, a node and what it took, with one *)
(* step per node, such that each node was called by the others as it       *)
(* requires.                                                               *)
(***************************************************************************)
Steps(f) == UNION {{[node |-> n, taken |-> o] : o \in Outcomes(f, n)} : n \in f.nodes}

RanIn(c)         == {x.node : x \in c}
Callers(f, c, n) == {x.node : x \in {y \in c : n \in Callees(f, y.node, y.taken)}}
CalledIn(f, c)   == {n \in f.nodes : Callers(f, c, n) # {}}

Satisfied(f, n, received) == HasRequiredInputs(NodeDependencies(f, n), received)

Courses(f) ==
    {c \in SUBSET Steps(f) :
        /\ \A x, y \in c : x.node = y.node => x = y
        /\ \A n \in RanIn(c) : Satisfied(f, n, Callers(f, c, n))}

(***************************************************************************)
(* Flows in which a node runs once: no node calls another by two edges,    *)
(* and of the inputs that wait for one decision a course calls from one    *)
(* only. The executor counts an input of such a group as enough: a second  *)
(* one starts the node again.                                              *)
(***************************************************************************)
CallsOnce(f) ==
    \A n \in f.nodes : \A taken \in Outcomes(f, n) :
        \A i, j \in DOMAIN Fired(f, n, taken) :
            Fired(f, n, taken)[i] = Fired(f, n, taken)[j] => i = j

OneOfEachGroup(f) ==
    \A c \in Courses(f) : \A n \in f.nodes : \A g \in NodeDependencies(f, n).groups :
        \A a, b \in g \cap Callers(f, c, n) : a = b

RunsOnce(f) == LoopFree(f) /\ CallsOnce(f) /\ OneOfEachGroup(f)

(***************************************************************************)
(* Flows whose executions are complete. Either no join ever waits: every   *)
(* input is enough by itself and a node calls one other at most. Or joins  *)
(* fill: a course in which every node that has its inputs has run has run  *)
(* every node it called; and a node that may stop is the last one called   *)
(* that has not run, because a resume forgets what was queued or waited.   *)
(***************************************************************************)
OneAtATime(f) ==
    /\ \A n \in f.nodes : \A s \in Sources(f, n) : Satisfied(f, n, {s})
    /\ \A n \in Node : \A taken \in Outcomes(f, n) :
          Len(Fired(f, n, taken)) <= IF f.kind[n] = "loop" THEN 0 ELSE 1

JoinsFill(f) ==
    \A c \in Courses(f) :
        (\A n \in CalledIn(f, c) : Satisfied(f, n, Callers(f, c, n)) => n \in RanIn(c))
        => CalledIn(f, c) \subseteq RanIn(c)

StopsAlone(f) ==
    \A c \in Courses(f) : \A h \in f.nodes \ RanIn(c) :
        f.kind[h] \in {"human", "agent"} /\ Satisfied(f, h, Callers(f, c, h))
        => CalledIn(f, c) \subseteq RanIn(c) \cup {h}

Completes(f) == OneAtATime(f) \/ (RunsOnce(f) /\ JoinsFill(f) /\ StopsAlone(f))
==============================================================================
