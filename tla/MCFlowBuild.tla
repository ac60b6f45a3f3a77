---------------------------- MODULE MCFlowBuild ----------------------------
(***************************************************************************)
(* The acyclic flows over five nodes, each of them on one of at most       *)
(* MaxEdges edges. Those without a decision are built for predictions and  *)
(* for upserts, and list their nodes along the edges or against them; in   *)
(* the others n2 is an ifElseFunction, whose edges leave by either output, *)
(* and n1 may be a document loader.                                        *)
(***************************************************************************)
EXTENDS FlowBuild, TLC

CONSTANTS n1, n2, n3, n4, n5,
          MaxEdges  \* bound: edges of a flow

List    == <<n1, n2, n3, n4, n5>>
Against == [i \in 1 .. 5 |-> List[6 - i]]
Along   == {p \in (1 .. 5) \X (1 .. 5) : p[1] < p[2]}
Shapes  == {P \in SUBSET Along : /\ Cardinality(P) <= MaxEdges
                                 /\ \A i \in 1 .. 5 : \E p \in P : i \in {p[1], p[2]}}

Edges(P, out) == {[src |-> List[p[1]], tgt |-> List[p[2]], out |-> p \in out] : p \in P}

Kinds(decider, loader) ==
    [n \in Node |-> IF n = decider THEN "ifElse" ELSE IF n = loader THEN "loader" ELSE "plain"]

Plain ==
    {[nodes |-> l, edges |-> Edges(P, {}), kind |-> Kinds(NoNode, NoNode), chains |-> c, stop |-> s] :
        P \in Shapes, l \in {List, Against}, c \in {Node, Node \ {n5}}, s \in {NoNode, n5}}

Deciding ==
    UNION {{[nodes |-> List, edges |-> Edges(P, out), kind |-> Kinds(n2, l), chains |-> c, stop |-> NoNode] :
                out \in SUBSET {p \in P : List[p[1]] = n2}, l \in {NoNode, n1},
                c \in {Node, Node \ {n4}}} : P \in Shapes}

MCFlows == Plain \cup Deciding
=============================================================================
