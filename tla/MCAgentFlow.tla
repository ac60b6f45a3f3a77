----------------------------- MODULE MCAgentFlow -----------------------------
(***************************************************************************)
(* The flows AgentFlow is checked on. Each is small and there for one      *)
(* shape: a flow is named after it. S is the start node, C a condition, H  *)
(* a human input, G an agent whose tool wants approval, L a loop node and  *)
(* J a join.                                                               *)
(***************************************************************************)
EXTENDS AgentFlow, TLC

CONSTANTS S, A, B, C, G, H, J, L, P

MCNode == {S, A, B, C, G, H, J, L, P}

MCKind == [n \in MCNode |-> CASE n = C -> "condition"
                              [] n = H -> "human"
                              [] n = G -> "agent"
                              [] n = L -> "loop"
                              [] OTHER -> "plain"]

MCOuts == [n \in MCNode |-> IF n \in {C, H} THEN 2 ELSE 0]

E(s, o, t) == [src |-> s, tgt |-> t, out |-> o]

MCFlow(edges, back) ==
    [nodes |-> UNION {{edges[i].src, edges[i].tgt} : i \in DOMAIN edges},
     kind |-> MCKind, outs |-> MCOuts, edges |-> edges,
     back |-> [n \in MCNode |-> back]]

\* Two parallel routes, one longer than the other, and a join that requires both.
Fork == MCFlow(<<E(S,0,A), E(S,0,B), E(A,0,J), E(B,0,P), E(P,0,J)>>, S)

\* Two branches of a condition that meet again with a route that is always taken.
Mixed == MCFlow(<<E(S,0,C), E(C,0,A), E(C,1,B), E(S,0,P), E(A,0,J), E(B,0,J), E(P,0,J)>>,
                S)

\* A human input whose proceed branch goes through an agent that may stop as well.
Approval == MCFlow(<<E(S,0,A), E(A,0,H), E(H,0,G), E(H,1,B), E(G,0,J), E(B,0,J), E(J,0,P)>>,
                   S)

\* A join of two routes before a human input, and a node that either of its branches leads to.
JoinHuman == MCFlow(<<E(S,0,A), E(S,0,B), E(A,0,J), E(B,0,J), E(J,0,H), E(H,0,P), E(H,1,G),
                      E(P,0,C), E(G,0,C)>>, S)

\* A loop over a condition, and a human input that is asked again on reject.
Loop == MCFlow(<<E(S,0,A), E(A,0,C), E(C,0,L), E(C,1,B)>>, A)
AskAgain == MCFlow(<<E(S,0,H), E(H,0,A), E(H,1,L)>>, H)

\* Two starting nodes: refused.
TwoStarts == MCFlow(<<E(S,0,J), E(A,0,J)>>, S)

\* Both outputs of a condition lead to the same node.
SameTarget == MCFlow(<<E(S,0,C), E(C,0,J), E(C,1,J), E(J,0,A)>>, S)

\* The flows of the runs.
MCSameTarget == "sameTarget" :> SameTarget
MCApproval == "approval" :> Approval @@ "askAgain" :> AskAgain
MCSession == "fork" :> Fork @@ "mixed" :> Mixed @@ "approval" :> Approval
             @@ "joinHuman" :> JoinHuman @@ "loop" :> Loop @@ "askAgain" :> AskAgain
             @@ "twoStarts" :> TwoStarts
==============================================================================
