----------------------------- MODULE BuildOrder -----------------------------
(***************************************************************************)
(* What building a flow promises: a node is made ready when the nodes it   *)
(* needs are, and the build is done when every node that is wanted is      *)
(* ready. A node may be made ready again; a decision may take nodes off    *)
(* the wanted ones, and a node that cannot be made ready fails the build.  *)
(***************************************************************************)
CONSTANT Node

VARIABLES needs,    \* the nodes each node needs: never changes
          wanted,   \* the nodes that the build is for
          ready,    \* the nodes that are ready
          phase     \* "building", "done" or "failed"

vars == <<needs, wanted, ready, phase>>

Init ==
    /\ needs \in [Node -> SUBSET Node]
    /\ wanted \in SUBSET Node
    /\ ready = {}
    /\ phase = "building"

Prepare(n) ==
    /\ phase = "building"
    /\ needs[n] \subseteq ready
    /\ ready' = ready \cup {n}
    /\ wanted' \in SUBSET wanted
    /\ phase' \in {"building", "done"}
    /\ phase' = "done" => wanted' \subseteq ready'
    /\ UNCHANGED needs

Fail == phase = "building" /\ phase' = "failed" /\ UNCHANGED <<needs, wanted, ready>>

Finish ==
    /\ phase = "building" /\ wanted \subseteq ready
    /\ phase' = "done"
    /\ UNCHANGED <<needs, wanted, ready>>

Next == Fail \/ Finish \/ \E n \in Node : Prepare(n)
Spec == Init /\ [][Next]_vars
=============================================================================
