---------------------------- MODULE MCFlowShapes ----------------------------
(***************************************************************************)
(* The flows of the runs meet what the theorems of AgentFlow_proofs assume *)
(* of a flow, and each part of what they assume excludes a flow.           *)
(***************************************************************************)
EXTENDS MCAgentFlow, FlowShapes

\* Two routes below one branch of a condition, and their join.
ForkBelow == MCFlow(<<E(S,0,C), E(C,0,A), E(A,0,B), E(A,0,P), E(B,0,J), E(P,0,J)>>, S)

\* A human input beside another route.
SideStop == MCFlow(<<E(S,0,A), E(S,0,H), E(A,0,B), E(B,0,P)>>, S)

\* A join below two decisions, of which only some outputs lead to it.
Crossed == MCFlow(<<E(S,0,C), E(S,0,H), E(C,0,A), E(C,1,B), E(H,0,P), E(A,0,J), E(P,0,J)>>, S)

FlowsOfRuns == {MCSession[id] : id \in DOMAIN MCSession} \cup {MCApproval[id] : id \in DOMAIN MCApproval}

\* LoopFreeRunOnce and ExecutedFlowsComplete, the hypotheses of NodesFinishOnce and
\* FinishedExecutionsComplete.
ASSUME HypothesesHold ==
    \A f \in FlowsOfRuns :
        /\ LoopFree(f) => RunsOnce(f)
        /\ OneStart(f) => OneOutputEach(f) /\ Completes(f)

\* Completes holds in either way: some flows run one node at a time, others have joins.
ASSUME BothWays ==
    /\ \A f \in {Loop, AskAgain, Approval} : OneAtATime(f)
    /\ \A f \in {Fork, Mixed, JoinHuman} : ~OneAtATime(f)

\* Flows that a hypothesis excludes: the executor runs J twice in ForkBelow, forgets a route in
\* SideStop, does not reach J in SameTarget and waits in vain in Crossed.
ASSUME Excluded ==
    /\ ~OneOfEachGroup(ForkBelow)
    /\ ~StopsAlone(SideStop)
    /\ ~OneOutputEach(SameTarget)
    /\ ~JoinsFill(Crossed)
==============================================================================
