-------------------------- MODULE FlowBuild_proofs --------------------------
(***************************************************************************)
(* Theorems about FlowBuild, for any nodes, any flows over them and any    *)
(* limit of loops above one: type correctness, how often a node is         *)
(* initialised, and the refinement of BuildOrder; and that what is         *)
(* executed has been built.                                                *)
(*                                                                         *)
(* How often (QueueInv): the queue is sorted by depth, and holds two       *)
(* depths at most (Layers); a node is in it once for each depth            *)
(* (OncePerDepth), so twice. While a node is not initialised its entries   *)
(* stay, the last of them at the depth it was last seen at (Loops), so it  *)
(* cannot be queued a third time; once it is, none is added (Counted). An  *)
(* upsert takes a node at its depth only (AtItsDepth), so once.            *)
(*                                                                         *)
(* The order (BuildInv): what is in the queue has its inputs initialised   *)
(* (Fed). That nothing is left out is harder: a node is queued by its last *)
(* input (Called), or when its depth comes up (Brought), and a depth comes *)
(* up because a node is never initialised before the length of a way to it *)
(* (Climbed); what is ignored is all that leads to an end (Whole).         *)
(*                                                                         *)
(* What is executed (EndInv, LastInv): one end is never ignored; of        *)
(* several the last one moved has been initialised, because every turn     *)
(* moves its node or leaves another one to build (LeftToBuild).            *)
(***************************************************************************)
EXTENDS FlowBuild, Subsequence_proofs, FiniteSetTheorems, TLAPS

Entry   == [node : Node, depth : Nat]
Seeings == [remainingLoop : Nat, lastSeenDepth : Nat]

-----------------------------------------------------------------------------
(* The queue *)

\* An order of a finite set is a sequence.
LEMMA OrdersAreSequences ==
  ASSUME NEW S, IsFiniteSet(S), NEW order \in Orders(S)
  PROVE  /\ order \in Seq(S) /\ Len(order) = Cardinality(S) /\ DOMAIN order = 1 .. Len(order)
         /\ \A i, j \in DOMAIN order : order[i] = order[j] => i = j
         /\ \A n \in S : \E i \in DOMAIN order : order[i] = n
<1>1. Cardinality(S) \in Nat
  BY FS_CardinalityType
<1>2. order \in [1 .. Cardinality(S) -> S]
  BY DEF Orders
<1>3. /\ \A i, j \in DOMAIN order : order[i] = order[j] => i = j
      /\ \A n \in S : \E i \in DOMAIN order : order[i] = n
  BY DEF Orders
<1>4. QED
  BY <1>1, <1>2, <1>3

LEMMA EntriesAreSequences ==
  ASSUME NEW S, S \subseteq Node, NEW order \in Seq(S), NEW d \in Nat
  PROVE  /\ Entries(order, d) \in Seq(Entry)
         /\ Len(Entries(order, d)) = Len(order)
         /\ \A i \in 1 .. Len(order) :
                Entries(order, d)[i].node = order[i] /\ Entries(order, d)[i].depth = d
<1>1. /\ DOMAIN order = 1 .. Len(order) /\ Len(order) \in Nat
      /\ \A i \in 1 .. Len(order) : order[i] \in Node
  OBVIOUS
<1>2. Entries(order, d) = [i \in 1 .. Len(order) |-> [node |-> order[i], depth |-> d]]
  BY <1>1 DEF Entries
<1>3. \A i \in 1 .. Len(order) : [node |-> order[i], depth |-> d] \in Entry
  BY <1>1 DEF Entry
<1>4. ASSUME NEW i \in 1 .. Len(order)
      PROVE  Entries(order, d)[i].node = order[i] /\ Entries(order, d)[i].depth = d
  <2>1. Entries(order, d)[i] = [node |-> order[i], depth |-> d]
    BY <1>2
  <2>2. QED
    BY <2>1
<1>5. Entries(order, d) \in Seq(Entry) /\ Len(Entries(order, d)) = Len(order)
  BY <1>1, <1>2, <1>3
<1>6. QED
  BY <1>4, <1>5

\* A sequence behind another.
LEMMA AppendedAfter ==
  ASSUME NEW S, NEW s \in Seq(S), NEW t \in Seq(S)
  PROVE  /\ s \o t \in Seq(S) /\ Len(s \o t) = Len(s) + Len(t)
         /\ \A i \in 1 .. Len(s) : (s \o t)[i] = s[i]
         /\ \A i \in 1 .. Len(t) : (s \o t)[Len(s) + i] = t[i]
  OBVIOUS

-----------------------------------------------------------------------------
(* Type correctness *)

\* What is taken from a flow are nodes.
LEMMA FlowTypes ==
  ASSUME NEW f \in Flows
  PROVE  /\ \A n \in Node : Sources(f, n) \subseteq Node /\ Targets(f, n) \subseteq Node
         /\ f.nodes[Len(f.nodes)] \in Node
         /\ StartingNodes(f) \subseteq Node
         /\ DOMAIN DepthQueue(f) \subseteq Node
         /\ \A n \in Node : \A gone \in Ignored(f, n) : gone \subseteq Node
<1>1. /\ f.edges \subseteq [src : Node, tgt : Node, out : BOOLEAN]
      /\ f.nodes \in Seq(Node) /\ f.nodes # <<>>
  BY FlowBuildAssumption DEF Flow
<1>2. \A n \in Node : Sources(f, n) \subseteq Node /\ Targets(f, n) \subseteq Node
  BY <1>1 DEF Sources, Targets
<1>3. f.nodes[Len(f.nodes)] \in Node
  BY <1>1
<1>4. StartingNodes(f) \subseteq Node
  BY DEF StartingNodes
<1>5. DOMAIN DepthQueue(f) \subseteq Node
  BY DEF DepthQueue
<1>6. \A n \in Node : \A gone \in Ignored(f, n) : gone \subseteq Node
  <2>1. \A edges, n : Connected(f, edges, n) \subseteq Node
    BY DEF Connected
  <2>2. \A n, side : \A gone \in Untaken(f, n, side) : gone \subseteq Node
    BY <2>1 DEF Untaken
  <2>3. QED
    BY <2>2 DEF Ignored
<1>7. QED
  BY <1>2, <1>3, <1>4, <1>5, <1>6

LEMMA TypeInit == Init => TypeOK
<1> SUFFICES ASSUME Init PROVE TypeOK
  OBVIOUS
<1>1. flow \in Flows
  BY DEF Init
<1> USE <1>1
<1>2. DOMAIN depthQueue \subseteq Node /\ graph \in [Node -> SUBSET Node] /\ last \in Node
  BY FlowTypes DEF Init
<1> DEFINE starts == StartingNodes(flow)
<1>3. PICK order \in Orders(starts) : nodeQueue = Entries(order, 0)
  BY DEF Init
<1>4. nodeQueue \in Seq([node : Node, depth : Nat])
  <2>1. starts \subseteq Node /\ IsFiniteSet(starts)
    BY FlowTypes, FlowBuildAssumption, FS_Subset
  <2>2. order \in Seq(starts)
    BY <2>1, OrdersAreSequences
  <2>3. QED
    BY <1>3, <2>1, <2>2, EntriesAreSequences DEF Entry
<1>5. /\ DOMAIN exploredNode \subseteq Node
      /\ \A n \in DOMAIN exploredNode : exploredNode[n] \in [remainingLoop : Nat, lastSeenDepth : Nat]
  BY FlowTypes, FlowBuildAssumption DEF Init
<1>6. /\ initialized \subseteq Node /\ ignoreNodes \subseteq Node
      /\ built \in [Node -> Nat] /\ phase \in {"building", "done", "failed"}
  BY DEF Init
<1>7. QED
  BY <1>2, <1>4, <1>5, <1>6 DEF TypeOK

(***************************************************************************)
(* What a turn puts into the queue: `new' at the depth below the head's,   *)
(* behind what was there.                                                  *)
(***************************************************************************)
Pushed(n, new, order) ==
    LET d == Head(nodeQueue).depth + 1
    IN  /\ new \subseteq Node /\ order \in Seq(new)
        /\ \A i, j \in 1 .. Len(order) : order[i] = order[j] => i = j
        /\ \A m \in new : \E i \in 1 .. Len(order) : order[i] = m
        /\ \A m \in new : Due(m, initialized', d) /\ ~ Spent(m)
        /\ nodeQueue' = Tail(nodeQueue) \o Entries(order, d)
        /\ exploredNode' = [m \in DOMAIN exploredNode \cup new |->
                               IF m \in new THEN Seen(m, d) ELSE exploredNode[m]]

LEMMA VisitPushes ==
  ASSUME TypeOK, NEW n \in Node, Visit(n)
  PROVE  \E new, order : Pushed(n, new, order)
<1> DEFINE d == Head(nodeQueue).depth + 1
           neighbours == Neighbours(n, d) \ ignoreNodes'
           due == {m \in neighbours : Due(m, initialized', d)}
<1>1. PICK new \in Pushes(due) : \E order \in Orders(new) :
              /\ nodeQueue' = Tail(nodeQueue) \o Entries(order, d)
              /\ exploredNode' = [m \in DOMAIN exploredNode \cup new |->
                                    IF m \in new THEN Seen(m, d) ELSE exploredNode[m]]
  BY DEF Visit, PushNext
<1>2. PICK order \in Orders(new) :
              /\ nodeQueue' = Tail(nodeQueue) \o Entries(order, d)
              /\ exploredNode' = [m \in DOMAIN exploredNode \cup new |->
                                    IF m \in new THEN Seen(m, d) ELSE exploredNode[m]]
  BY <1>1
<1>3. new \subseteq due /\ \A m \in new : ~ Spent(m)
  BY <1>1 DEF Pushes
<1>4. due \subseteq Node
  BY DEF TypeOK, Neighbours
<1>5. IsFiniteSet(new)
  BY <1>3, <1>4, FlowBuildAssumption, FS_Subset
<1>6. /\ order \in Seq(new) /\ DOMAIN order = 1 .. Len(order)
      /\ \A i, j \in DOMAIN order : order[i] = order[j] => i = j
      /\ \A m \in new : \E i \in DOMAIN order : order[i] = m
  BY <1>5, OrdersAreSequences
<1>7. Pushed(n, new, order)
  BY <1>2, <1>3, <1>4, <1>6 DEF Pushed
<1>8. QED
  BY <1>7

\* The entries after a turn, by their places.
LEMMA PushedEntries ==
  ASSUME TypeOK, nodeQueue # <<>>, NEW n, NEW new, NEW order, Pushed(n, new, order)
  PROVE  /\ nodeQueue' \in Seq(Entry)
         /\ Len(nodeQueue') = Len(nodeQueue) - 1 + Len(order)
         /\ \A i \in 1 .. Len(nodeQueue) - 1 : nodeQueue'[i] = nodeQueue[i + 1]
         /\ \A i \in 1 .. Len(order) :
                /\ nodeQueue'[Len(nodeQueue) - 1 + i].node = order[i]
                /\ nodeQueue'[Len(nodeQueue) - 1 + i].depth = nodeQueue[1].depth + 1
         /\ Head(nodeQueue) = nodeQueue[1] /\ nodeQueue[1] \in Entry
<1> DEFINE d == nodeQueue[1].depth + 1
<1>1. /\ nodeQueue \in Seq(Entry) /\ Len(nodeQueue) \in Nat \ {0}
      /\ Head(nodeQueue) = nodeQueue[1] /\ nodeQueue[1] \in Entry
  <2>1. nodeQueue \in Seq(Entry)
    BY DEF TypeOK, Entry
  <2>2. QED
    BY <2>1
<1>2. d \in Nat
  BY <1>1 DEF Entry
<1>3. /\ Entries(order, d) \in Seq(Entry) /\ Len(Entries(order, d)) = Len(order)
      /\ \A i \in 1 .. Len(order) :
             Entries(order, d)[i].node = order[i] /\ Entries(order, d)[i].depth = d
      /\ Len(order) \in Nat
  <2>1. new \subseteq Node /\ order \in Seq(new)
    BY DEF Pushed
  <2> HIDE DEF d
  <2>2. QED
    BY <1>2, <2>1, EntriesAreSequences
<1>4. /\ Tail(nodeQueue) \in Seq(Entry) /\ Len(Tail(nodeQueue)) = Len(nodeQueue) - 1
      /\ \A i \in 1 .. Len(nodeQueue) - 1 : Tail(nodeQueue)[i] = nodeQueue[i + 1]
  BY <1>1
<1>5. nodeQueue' = Tail(nodeQueue) \o Entries(order, d)
  BY <1>1 DEF Pushed
<1> HIDE DEF d
<1>6. /\ nodeQueue' \in Seq(Entry)
      /\ Len(nodeQueue') = Len(nodeQueue) - 1 + Len(order)
      /\ \A i \in 1 .. Len(nodeQueue) - 1 : nodeQueue'[i] = Tail(nodeQueue)[i]
      /\ \A i \in 1 .. Len(order) : nodeQueue'[Len(nodeQueue) - 1 + i] = Entries(order, d)[i]
  <2> DEFINE s == Tail(nodeQueue)
             t == Entries(order, d)
  <2>1. s \in Seq(Entry) /\ t \in Seq(Entry)
    BY <1>3, <1>4
  <2>2. Len(s) = Len(nodeQueue) - 1 /\ Len(t) = Len(order) /\ nodeQueue' = s \o t
    BY <1>3, <1>4, <1>5
  <2> HIDE DEF s, t
  <2>3. /\ s \o t \in Seq(Entry) /\ Len(s \o t) = Len(s) + Len(t)
        /\ \A i \in 1 .. Len(s) : (s \o t)[i] = s[i]
        /\ \A i \in 1 .. Len(t) : (s \o t)[Len(s) + i] = t[i]
    BY <2>1, AppendedAfter
  <2>4. QED
    BY <2>2, <2>3 DEF s, t
<1>7. \A i \in 1 .. Len(nodeQueue) - 1 : nodeQueue'[i] = nodeQueue[i + 1]
  BY <1>4, <1>6
<1>8. \A i \in 1 .. Len(order) : /\ nodeQueue'[Len(nodeQueue) - 1 + i].node = order[i]
                                  /\ nodeQueue'[Len(nodeQueue) - 1 + i].depth = d
  BY <1>3, <1>6
<1>9. QED
  BY <1>1, <1>3, <1>6, <1>7, <1>8 DEF d

LEMMA TypeVisit ==
  ASSUME TypeOK, NEW n \in Node, Visit(n)
  PROVE  TypeOK'
<1>1. PICK new, order : Pushed(n, new, order)
  BY VisitPushes
<1>2. nodeQueue # <<>> /\ flow' = flow /\ depthQueue' = depthQueue /\ phase' = phase
  BY DEF Visit, Turn
<1>3. nodeQueue' \in Seq([node : Node, depth : Nat]) /\ Head(nodeQueue).depth \in Nat
  BY <1>1, <1>2, PushedEntries DEF Entry
<1>4. graph' \in [Node -> SUBSET Node] /\ last' \in Node
  BY DEF Visit, PushNext, Neighbours, TypeOK
<1>5. /\ DOMAIN exploredNode' \subseteq Node
      /\ \A m \in DOMAIN exploredNode' : exploredNode'[m] \in Seeings
  <2> DEFINE d == Head(nodeQueue).depth + 1
  <2>1. d \in Nat /\ new \subseteq Node
    BY <1>1, <1>3 DEF Pushed
  <2>2. \A m \in DOMAIN exploredNode : exploredNode[m] \in Seeings
    BY DEF TypeOK, Seeings
  <2>3. ASSUME NEW m \in new PROVE Seen(m, d) \in Seeings
    <3>1. ~ Spent(m)
      BY <1>1 DEF Pushed
    <3>2. CASE m \in DOMAIN exploredNode
      <4>1. exploredNode[m].remainingLoop - 1 \in Nat
        BY <2>2, <3>1, <3>2 DEF Spent, Seeings
      <4>2. QED
        BY <4>1, <3>2, <2>1 DEF Seen, Seeings
    <3>3. CASE m \notin DOMAIN exploredNode
      BY <3>3, <2>1, FlowBuildAssumption DEF Seen, Seeings
    <3>4. QED
      BY <3>2, <3>3
  <2>4. exploredNode' = [m \in DOMAIN exploredNode \cup new |->
                               IF m \in new THEN Seen(m, d) ELSE exploredNode[m]]
    BY <1>1 DEF Pushed
  <2> HIDE DEF d
  <2>5. QED
    BY <2>1, <2>2, <2>3, <2>4 DEF TypeOK
<1>6. initialized' \subseteq Node /\ ignoreNodes' \subseteq Node
  BY FlowTypes DEF Visit, TypeOK
<1>7. built' \in [Node -> Nat]
  BY DEF Visit, TypeOK
<1>8. QED
  BY <1>2, <1>3, <1>4, <1>5, <1>6, <1>7 DEF TypeOK, Seeings

LEMMA TypeStep == TypeOK /\ [Next]_vars => TypeOK'
<1> SUFFICES ASSUME TypeOK, [Next]_vars PROVE TypeOK'
  OBVIOUS
<1>1. ASSUME NEW n \in Node, Visit(n) PROVE TypeOK'
  BY <1>1, TypeVisit
<1>2. ASSUME NEW n \in Node, Upsert(n) PROVE TypeOK'
  BY <1>2 DEF Upsert, TypeOK
<1>3. CASE Fail
  BY <1>3 DEF Fail, TypeOK
<1>4. CASE Finish
  BY <1>4 DEF Finish, TypeOK
<1>5. CASE UNCHANGED vars
  BY <1>5 DEF vars, TypeOK
<1>6. QED
  BY <1>1, <1>2, <1>3, <1>4, <1>5 DEF Next

\* The state of a build is well-formed, for every flow.
THEOREM BuildTyped == Spec => []TypeOK
  BY TypeInit, TypeStep, PTL DEF Spec
-----------------------------------------------------------------------------
(* How often a node is initialised *)

\* The queue is sorted by depth, and holds two depths at most.
Layers ==
    \A i, j \in 1 .. Len(nodeQueue) : i <= j =>
        /\ nodeQueue[i].depth <= nodeQueue[j].depth
        /\ nodeQueue[j].depth <= nodeQueue[i].depth + 1

\* A node is in the queue once for each depth.
OncePerDepth ==
    \A i, j \in 1 .. Len(nodeQueue) : nodeQueue[i] = nodeQueue[j] => i = j

\* A node in the queue has been seen, at the depth it is queued for or later; and no node
\* has been seen beyond the depth that is next.
SeenInOrder ==
    \A i \in 1 .. Len(nodeQueue) :
        /\ nodeQueue[i].node \in DOMAIN exploredNode
        /\ nodeQueue[i].depth <= exploredNode[nodeQueue[i].node].lastSeenDepth
        /\ \A n \in DOMAIN exploredNode : exploredNode[n].lastSeenDepth <= nodeQueue[i].depth + 1

QueuedAt(n, d) == \E i \in 1 .. Len(nodeQueue) : nodeQueue[i].node = n /\ nodeQueue[i].depth = d

\* A node that has been seen and is not initialised waits in the queue at the depth it
\* was last seen at; if it has lost a loop, it waits at a lesser depth as well. It never
\* loses a second one.
Loops ==
    \A n \in DOMAIN exploredNode :
        /\ exploredNode[n].remainingLoop \in {MaxLoop, MaxLoop - 1}
        /\ n \notin initialized => QueuedAt(n, exploredNode[n].lastSeenDepth)
        /\ n \notin initialized /\ exploredNode[n].remainingLoop = MaxLoop - 1 =>
              \E d \in Nat : d < exploredNode[n].lastSeenDepth /\ QueuedAt(n, d)

\* What is left in the queue of a node that has been initialised once, or twice.
CountedFor(n) ==
    /\ n \notin initialized => built[n] = 0
    /\ built[n] <= 2
    /\ built[n] = 1 =>
          \A i, j \in 1 .. Len(nodeQueue) : nodeQueue[i].node = n /\ nodeQueue[j].node = n => i = j
    /\ built[n] = 2 => \A i \in 1 .. Len(nodeQueue) : nodeQueue[i].node # n

Counted == \A n \in Node : CountedFor(n)

QueueInv ==
    /\ TypeOK
    /\ TwiceAtMost
    /\ phase = "building" => Layers /\ OncePerDepth /\ SeenInOrder /\ Loops /\ Counted

QueuedNext(n, d) == \E i \in 1 .. Len(nodeQueue') : nodeQueue'[i].node = n /\ nodeQueue'[i].depth = d

LEMMA LoopsLeft ==
  ASSUME TypeOK, Loops
  PROVE  \A n \in Node : ~ Spent(n)
<1>1. \A n \in DOMAIN exploredNode : exploredNode[n].remainingLoop \in {MaxLoop, MaxLoop - 1}
  BY DEF Loops
<1>2. QED
  BY <1>1, FlowBuildAssumption DEF Spent

LEMMA QueueInit == Init => QueueInv
<1> SUFFICES ASSUME Init PROVE QueueInv
  OBVIOUS
<1>1. TypeOK
  BY TypeInit
<1>a. PICK starts : starts = StartingNodes(flow)
  OBVIOUS
<1>2. PICK order \in Orders(starts) : nodeQueue = Entries(order, 0)
  BY <1>a DEF Init
<1>3. starts \subseteq Node /\ IsFiniteSet(starts)
  BY <1>1, <1>a, FlowTypes, FlowBuildAssumption, FS_Subset DEF TypeOK
<1>4. /\ order \in Seq(starts) /\ DOMAIN order = 1 .. Len(order)
      /\ \A i, j \in DOMAIN order : order[i] = order[j] => i = j
      /\ \A n \in starts : \E i \in DOMAIN order : order[i] = n
  BY <1>3, OrdersAreSequences
<1>5. /\ Len(nodeQueue) = Len(order) /\ Len(order) \in Nat
      /\ \A i \in 1 .. Len(order) : /\ nodeQueue[i].node = order[i] /\ nodeQueue[i].depth = 0
                                     /\ order[i] \in starts
  <2>1. /\ Len(nodeQueue) = Len(order) /\ Len(order) \in Nat
        /\ \A i \in 1 .. Len(order) : nodeQueue[i].node = order[i] /\ nodeQueue[i].depth = 0
    BY <1>2, <1>3, <1>4, EntriesAreSequences
  <2>2. \A i \in 1 .. Len(order) : order[i] \in starts
    BY <1>4
  <2>3. QED
    BY <2>1, <2>2
<1>6. exploredNode = [n \in starts |-> [remainingLoop |-> MaxLoop, lastSeenDepth |-> 0]]
  BY <1>a DEF Init
<1>7. initialized = {} /\ built = [n \in Node |-> 0]
  BY DEF Init
<1>8. Layers
  BY <1>5 DEF Layers
<1>9. OncePerDepth
  BY <1>4, <1>5 DEF OncePerDepth
<1>10. SeenInOrder
  BY <1>4, <1>5, <1>6 DEF SeenInOrder
<1>11. Loops
  <2>1. \A n \in starts : QueuedAt(n, 0)
    BY <1>4, <1>5 DEF QueuedAt
  <2>2. QED
    BY <1>6, <2>1, FlowBuildAssumption DEF Loops
<1>12. Counted
  BY <1>7 DEF Counted, CountedFor
<1>13. TwiceAtMost
  BY <1>1, <1>7, <1>11, LoopsLeft DEF TwiceAtMost
<1>14. QED
  BY <1>1, <1>8, <1>9, <1>10, <1>11, <1>12, <1>13 DEF QueueInv

(***************************************************************************)
(* A turn keeps the invariant. What it pushes is not initialised and was   *)
(* not seen at the new depth.                                              *)
(***************************************************************************)
LEMMA QueueVisit ==
  ASSUME QueueInv, NEW n \in Node, Visit(n)
  PROVE  QueueInv'
<1>1. TypeOK /\ TypeOK'
  BY TypeVisit DEF QueueInv
<1>2. /\ phase = "building" /\ nodeQueue # <<>>
      /\ initialized' = initialized \cup {n}
      /\ Head(nodeQueue).node = n
  BY DEF Visit, Turn
<1>3. Layers /\ OncePerDepth /\ SeenInOrder /\ Loops /\ Counted
  BY <1>2 DEF QueueInv
<1>4. PICK new, order : Pushed(n, new, order)
  BY <1>1, VisitPushes
<1>a. PICK L : L = Len(nodeQueue) - 1
  OBVIOUS
<1>b. PICK h : h = nodeQueue[1].depth
  OBVIOUS
<1>5. /\ nodeQueue' \in Seq(Entry)
      /\ Len(nodeQueue') = L + Len(order)
      /\ \A i \in 1 .. L : nodeQueue'[i] = nodeQueue[i + 1]
      /\ \A i \in 1 .. Len(order) : nodeQueue'[L + i].node = order[i] /\ nodeQueue'[L + i].depth = h + 1
      /\ Head(nodeQueue) = nodeQueue[1] /\ nodeQueue[1] \in Entry
  BY <1>1, <1>2, <1>4, <1>a, <1>b, PushedEntries
<1>6. nodeQueue \in Seq(Entry) /\ L \in Nat /\ h \in Nat /\ Len(order) \in Nat /\ Len(nodeQueue) = L + 1
  <2>1. nodeQueue \in Seq(Entry)
    BY <1>1 DEF TypeOK, Entry
  <2>2. Len(order) \in Nat
    BY <1>4 DEF Pushed
  <2>3. QED
    BY <2>1, <2>2, <1>2, <1>5, <1>a, <1>b DEF Entry
<1>7. nodeQueue[1].node = n
  BY <1>2, <1>5
<1>8. /\ \A i \in 1 .. Len(order) : order[i] \in new
      /\ \A i, j \in 1 .. Len(order) : order[i] = order[j] => i = j
      /\ \A m \in new : \E i \in 1 .. Len(order) : order[i] = m
      /\ new \subseteq Node
  BY <1>4 DEF Pushed
<1>9. \A m \in new : /\ m \notin initialized' /\ m \notin initialized /\ m # n
                     /\ m \in DOMAIN exploredNode => exploredNode[m].lastSeenDepth # h + 1
  BY <1>2, <1>4, <1>5, <1>b DEF Pushed, Due
<1>10. exploredNode' = [m \in DOMAIN exploredNode \cup new |->
                               IF m \in new THEN Seen(m, h + 1) ELSE exploredNode[m]]
  BY <1>4, <1>5, <1>b DEF Pushed
<1>11. \A m \in DOMAIN exploredNode : /\ exploredNode[m].lastSeenDepth \in Nat
                                      /\ exploredNode[m].remainingLoop \in Nat
  BY <1>1 DEF TypeOK
<1>12. \A m \in DOMAIN exploredNode : exploredNode[m].lastSeenDepth <= h + 1
  BY <1>3, <1>6, <1>b DEF SeenInOrder
<1>13. \A i \in 1 .. L + 1 : /\ nodeQueue[i] \in Entry /\ nodeQueue[i].depth \in Nat
                             /\ h <= nodeQueue[i].depth /\ nodeQueue[i].depth <= h + 1
  <2>1. \A i \in 1 .. L + 1 : nodeQueue[i] \in Entry
    BY <1>6
  <2>2. \A i \in 1 .. L + 1 : h <= nodeQueue[i].depth /\ nodeQueue[i].depth <= h + 1
    BY <1>3, <1>6, <1>b DEF Layers
  <2>3. QED
    BY <2>1, <2>2 DEF Entry
\* The places of the queue after the turn.
<1>14. /\ \A i \in 1 .. L : /\ nodeQueue'[i] = nodeQueue[i + 1] /\ i + 1 \in 1 .. L + 1
                              /\ i \in 1 .. L + Len(order)
       /\ \A i \in 1 .. L + Len(order) : i \notin 1 .. L =>
              \E k \in 1 .. Len(order) :
                 /\ i = L + k
                 /\ nodeQueue'[i].node = order[k] /\ nodeQueue'[i].depth = h + 1
  <2>1. \A i \in 1 .. L : i + 1 \in 1 .. L + 1 /\ i \in 1 .. L + Len(order)
    BY <1>6
  <2>2. \A i \in 1 .. L + Len(order) : i \notin 1 .. L => i - L \in 1 .. Len(order) /\ i = L + (i - L)
    BY <1>6
  <2>3. \A k \in 1 .. Len(order) : /\ nodeQueue'[L + k].node = order[k]
                                    /\ nodeQueue'[L + k].depth = h + 1
    BY <1>5
  <2>4. QED
    BY <2>1, <2>2, <2>3, <1>5
\* What a place holds that was pushed was not in the queue at that depth.
<1>15. \A m \in new : \A i \in 1 .. L + 1 : ~ (nodeQueue[i].node = m /\ nodeQueue[i].depth = h + 1)
  <2> SUFFICES ASSUME NEW m \in new, NEW i \in 1 .. L + 1, nodeQueue[i].node = m, nodeQueue[i].depth = h + 1
               PROVE  FALSE
    OBVIOUS
  <2>1. m \in DOMAIN exploredNode /\ h + 1 <= exploredNode[m].lastSeenDepth
    BY <1>3, <1>6 DEF SeenInOrder
  <2>2. QED
    BY <2>1, <1>6, <1>9, <1>11, <1>12
<1>16. Layers'
  <2> SUFFICES ASSUME NEW i \in 1 .. L + Len(order), NEW j \in 1 .. L + Len(order), i <= j
               PROVE  /\ nodeQueue'[i].depth <= nodeQueue'[j].depth
                      /\ nodeQueue'[j].depth <= nodeQueue'[i].depth + 1
    BY <1>5 DEF Layers
  <2>1. CASE i \in 1 .. L /\ j \in 1 .. L
    <3>1. /\ nodeQueue'[i] = nodeQueue[i + 1] /\ nodeQueue'[j] = nodeQueue[j + 1]
          /\ i + 1 \in 1 .. Len(nodeQueue) /\ j + 1 \in 1 .. Len(nodeQueue) /\ i + 1 <= j + 1
      BY <2>1, <1>5, <1>6
    <3>2. QED
      BY <3>1, <1>3 DEF Layers
  <2>2. CASE i \in 1 .. L /\ j \notin 1 .. L
    <3>1. nodeQueue'[j].depth = h + 1
      BY <2>2, <1>14
    <3>2. nodeQueue'[i].depth \in Nat /\ h <= nodeQueue'[i].depth /\ nodeQueue'[i].depth <= h + 1
      BY <2>2, <1>6, <1>13, <1>14
    <3>3. QED
      BY <3>1, <3>2, <1>6
  <2>3. CASE i \notin 1 .. L
    <3>1. j \notin 1 .. L
      BY <2>3, <1>6
    <3>2. nodeQueue'[i].depth = h + 1 /\ nodeQueue'[j].depth = h + 1
      BY <2>3, <3>1, <1>14
    <3>3. QED
      BY <3>2, <1>6
  <2>4. QED
    BY <2>1, <2>2, <2>3
<1>17. OncePerDepth'
  <2> SUFFICES ASSUME NEW i \in 1 .. L + Len(order), NEW j \in 1 .. L + Len(order),
                      nodeQueue'[i] = nodeQueue'[j]
               PROVE  i = j
    BY <1>5 DEF OncePerDepth
  <2>1. CASE i \in 1 .. L /\ j \in 1 .. L
    <3>1. nodeQueue[i + 1] = nodeQueue[j + 1] /\ i + 1 \in 1 .. L + 1 /\ j + 1 \in 1 .. L + 1
      BY <2>1, <1>5, <1>6
    <3>2. i + 1 = j + 1
      BY <3>1, <1>3, <1>6 DEF OncePerDepth
    <3>3. QED
      BY <2>1, <3>2, <1>6
  <2>2. CASE i \in 1 .. L /\ j \notin 1 .. L
    <3>1. nodeQueue'[i] = nodeQueue[i + 1] /\ i + 1 \in 1 .. L + 1
      BY <2>2, <1>14
    <3>2. nodeQueue'[j].node \in new /\ nodeQueue'[j].depth = h + 1
      BY <2>2, <1>8, <1>14
    <3>3. QED
      BY <3>1, <3>2, <1>15
  <2>3. CASE i \notin 1 .. L /\ j \in 1 .. L
    <3>1. nodeQueue'[j] = nodeQueue[j + 1] /\ j + 1 \in 1 .. L + 1
      BY <2>3, <1>14
    <3>2. nodeQueue'[i].node \in new /\ nodeQueue'[i].depth = h + 1
      BY <2>3, <1>8, <1>14
    <3>3. QED
      BY <3>1, <3>2, <1>15
  <2>4. CASE i \notin 1 .. L /\ j \notin 1 .. L
    <3>1. PICK k \in 1 .. Len(order) : i = L + k /\ nodeQueue'[i].node = order[k]
      BY <2>4, <1>14
    <3>2. PICK l \in 1 .. Len(order) : j = L + l /\ nodeQueue'[j].node = order[l]
      BY <2>4, <1>14
    <3>3. order[k] = order[l]
      BY <3>1, <3>2
    <3>4. QED
      BY <3>1, <3>2, <3>3, <1>8
  <2>5. QED
    BY <2>1, <2>2, <2>3, <2>4
<1>18. /\ DOMAIN exploredNode' = DOMAIN exploredNode \cup new
       /\ \A m \in new : exploredNode'[m].lastSeenDepth = h + 1
       /\ \A m \in DOMAIN exploredNode \ new : exploredNode'[m] = exploredNode[m]
  BY <1>10 DEF Seen
<1>19. SeenInOrder'
  <2> SUFFICES ASSUME NEW i \in 1 .. L + Len(order)
               PROVE  /\ nodeQueue'[i].node \in DOMAIN exploredNode'
                      /\ nodeQueue'[i].depth <= exploredNode'[nodeQueue'[i].node].lastSeenDepth
                      /\ \A m \in DOMAIN exploredNode' :
                             exploredNode'[m].lastSeenDepth <= nodeQueue'[i].depth + 1
    BY <1>5 DEF SeenInOrder
  <2>1. nodeQueue'[i].depth \in Nat /\ h <= nodeQueue'[i].depth /\ nodeQueue'[i].depth <= h + 1
    BY <1>6, <1>13, <1>14
  <2>2. \A m \in DOMAIN exploredNode' : exploredNode'[m].lastSeenDepth <= h + 1
    BY <1>6, <1>12, <1>18
  <2>3. \A m \in DOMAIN exploredNode' : exploredNode'[m].lastSeenDepth \in Nat
    BY <1>6, <1>11, <1>18
  <2>4. \A m \in DOMAIN exploredNode' : exploredNode'[m].lastSeenDepth <= nodeQueue'[i].depth + 1
    BY <2>1, <2>2, <2>3, <1>6
  <2>5. nodeQueue'[i].node \in DOMAIN exploredNode'
        /\ nodeQueue'[i].depth <= exploredNode'[nodeQueue'[i].node].lastSeenDepth
    <3>1. CASE i \in 1 .. L
      <4>1. /\ nodeQueue'[i] = nodeQueue[i + 1]
            /\ nodeQueue[i + 1].node \in DOMAIN exploredNode
            /\ nodeQueue[i + 1].depth <= exploredNode[nodeQueue[i + 1].node].lastSeenDepth
        BY <3>1, <1>3, <1>5, <1>6 DEF SeenInOrder
      <4>2. CASE nodeQueue[i + 1].node \in new
        BY <4>1, <4>2, <2>1, <1>18
      <4>3. CASE nodeQueue[i + 1].node \notin new
        BY <4>1, <4>3, <1>18
      <4>4. QED
        BY <4>2, <4>3
    <3>2. CASE i \notin 1 .. L
      <4>1. nodeQueue'[i].node \in new /\ nodeQueue'[i].depth = h + 1
        <5>1. PICK k \in 1 .. Len(order) : /\ nodeQueue'[i].node = order[k]
                                           /\ nodeQueue'[i].depth = h + 1
          BY <3>2, <1>14
        <5>2. QED
          BY <5>1, <1>8
      <4>2. exploredNode'[nodeQueue'[i].node].lastSeenDepth = h + 1
        BY <4>1, <1>18
      <4>3. QED
        BY <4>1, <4>2, <1>6, <1>18
    <3>3. QED
      BY <3>1, <3>2
  <2>6. QED
    BY <2>4, <2>5
\* What waits stays, and what is pushed waits.
<1>20. \A m, d : QueuedAt(m, d) /\ m # n => QueuedNext(m, d)
  <2> SUFFICES ASSUME NEW m, NEW d, m # n,
                      NEW i \in 1 .. L + 1, nodeQueue[i].node = m, nodeQueue[i].depth = d
               PROVE  QueuedNext(m, d)
    BY <1>6 DEF QueuedAt
  <2>1. i # 1
    BY <1>7
  <2>2. i - 1 \in 1 .. L /\ i - 1 \in 1 .. L + Len(order) /\ (i - 1) + 1 = i
    BY <2>1, <1>6
  <2>3. nodeQueue'[i - 1] = nodeQueue[i]
    BY <2>2, <1>5
  <2>4. QED
    BY <2>2, <2>3, <1>5 DEF QueuedNext
<1>21. \A m \in new : QueuedNext(m, h + 1)
  <2> SUFFICES ASSUME NEW m \in new PROVE QueuedNext(m, h + 1)
    OBVIOUS
  <2>1. PICK k \in 1 .. Len(order) : order[k] = m
    BY <1>8
  <2>2. /\ L + k \in 1 .. L + Len(order)
        /\ nodeQueue'[L + k].node = m /\ nodeQueue'[L + k].depth = h + 1
    BY <2>1, <1>5, <1>6
  <2>3. QED
    BY <2>2, <1>5 DEF QueuedNext
<1>22. Loops'
  <2> SUFFICES ASSUME NEW m \in DOMAIN exploredNode'
               PROVE  /\ exploredNode'[m].remainingLoop \in {MaxLoop, MaxLoop - 1}
                      /\ m \notin initialized' => QueuedNext(m, exploredNode'[m].lastSeenDepth)
                      /\ m \notin initialized' /\ exploredNode'[m].remainingLoop = MaxLoop - 1 =>
                            \E d \in Nat : d < exploredNode'[m].lastSeenDepth /\ QueuedNext(m, d)
    BY DEF Loops, QueuedAt, QueuedNext
  <2>1. CASE m \notin new
    <3>1. m \in DOMAIN exploredNode /\ exploredNode'[m] = exploredNode[m]
      BY <2>1, <1>18
    <3>2. m \notin initialized' => m \notin initialized /\ m # n
      BY <1>2
    <3>3. QED
      BY <3>1, <3>2, <1>3, <1>20 DEF Loops
  <2>2. CASE m \in new /\ m \notin DOMAIN exploredNode
    <3>1. exploredNode'[m] = [remainingLoop |-> MaxLoop, lastSeenDepth |-> h + 1]
      BY <2>2, <1>10 DEF Seen
    <3>2. QED
      BY <2>2, <3>1, <1>21, FlowBuildAssumption
  <2>3. CASE m \in new /\ m \in DOMAIN exploredNode
    <3> DEFINE seen == exploredNode[m].lastSeenDepth
    <3>1. exploredNode'[m] = [remainingLoop |-> exploredNode[m].remainingLoop - 1, lastSeenDepth |-> h + 1]
      BY <2>3, <1>10 DEF Seen
    <3>2. m \notin initialized /\ m # n /\ seen \in Nat /\ seen <= h
      BY <2>3, <1>6, <1>9, <1>11, <1>12
    <3>3. exploredNode[m].remainingLoop = MaxLoop
      <4> SUFFICES ASSUME exploredNode[m].remainingLoop = MaxLoop - 1 PROVE FALSE
        BY <2>3, <1>3 DEF Loops
      <4>1. PICK d \in Nat : d < seen /\ QueuedAt(m, d)
        BY <2>3, <3>2, <1>3 DEF Loops
      <4>2. h <= d
        BY <4>1, <1>6, <1>13 DEF QueuedAt
      <4>3. QED
        BY <4>1, <4>2, <3>2, <1>6
    <3>4. QueuedNext(m, seen)
      <4>1. QueuedAt(m, seen)
        BY <2>3, <3>2, <1>3 DEF Loops
      <4>2. QED
        BY <4>1, <3>2, <1>20
    <3>5. QED
      BY <2>3, <3>1, <3>2, <3>3, <3>4, <1>6, <1>21, FlowBuildAssumption
  <2>4. QED
    BY <2>1, <2>2, <2>3
\* The node whose turn it was waits at the next depth at most.
<1>23. \A i, j \in 1 .. L + Len(order) : nodeQueue'[i].node = n /\ nodeQueue'[j].node = n => i = j
  <2>1. \A i \in 1 .. L + Len(order) : nodeQueue'[i].node = n => i \in 1 .. L
    BY <1>8, <1>9, <1>14
  <2>2. ASSUME NEW i \in 1 .. L, nodeQueue'[i].node = n
        PROVE  nodeQueue[i + 1] \in Entry /\ nodeQueue[i + 1].node = n /\ nodeQueue[i + 1].depth = h + 1
    <3>1. i + 1 \in 1 .. L + 1 /\ nodeQueue'[i] = nodeQueue[i + 1]
      BY <1>14
    <3>2. nodeQueue[i + 1].depth # h
      <4> SUFFICES ASSUME nodeQueue[i + 1].depth = h PROVE FALSE
        OBVIOUS
      <4>1. nodeQueue[i + 1] = nodeQueue[1]
        <5>1. nodeQueue[i + 1] \in Entry /\ nodeQueue[1] \in Entry
          BY <3>1, <1>5, <1>13
        <5>2. nodeQueue[i + 1].node = nodeQueue[1].node /\ nodeQueue[i + 1].depth = nodeQueue[1].depth
          BY <2>2, <3>1, <1>7, <1>b
        <5>3. QED
          BY <5>1, <5>2 DEF Entry
      <4>2. 1 \in 1 .. L + 1 /\ i + 1 # 1
        BY <1>6
      <4>3. QED
        BY <4>1, <4>2, <3>1, <1>3, <1>6 DEF OncePerDepth
    <3>3. QED
      BY <2>2, <3>1, <3>2, <1>6, <1>13
  <2>3. ASSUME NEW i \in 1 .. L, NEW j \in 1 .. L, nodeQueue'[i].node = n, nodeQueue'[j].node = n
        PROVE  i = j
    <3>1. nodeQueue[i + 1] = nodeQueue[j + 1]
      BY <2>2, <2>3 DEF Entry
    <3>2. i + 1 \in 1 .. L + 1 /\ j + 1 \in 1 .. L + 1
      BY <1>6
    <3>3. i + 1 = j + 1
      BY <3>1, <3>2, <1>3, <1>6 DEF OncePerDepth
    <3>4. QED
      BY <3>3, <1>6
  <2>4. QED
    BY <2>1, <2>3
\* Of a node that is initialised already, nothing is added.
<1>24. ASSUME NEW m \in Node, m \in initialized, NEW i \in 1 .. L + Len(order), nodeQueue'[i].node = m
       PROVE  i \in 1 .. L /\ nodeQueue[i + 1].node = m
  BY <1>24, <1>8, <1>9, <1>14
<1>25. \A m \in Node : m # n => built'[m] = built[m]
  BY <1>1 DEF Visit, TypeOK
<1>26. /\ built[n] \in Nat /\ built'[n] \in Nat
       /\ built'[n] = built[n] \/ built'[n] = built[n] + 1
  BY <1>1 DEF Visit, TypeOK
<1>27. Counted'
  <2> SUFFICES ASSUME NEW m \in Node
               PROVE  /\ m \notin initialized' => built'[m] = 0
                      /\ built'[m] <= 2
                      /\ built'[m] = 1 =>
                            \A i, j \in 1 .. L + Len(order) :
                               nodeQueue'[i].node = m /\ nodeQueue'[j].node = m => i = j
                      /\ built'[m] = 2 => \A i \in 1 .. L + Len(order) : nodeQueue'[i].node # m
    BY <1>5 DEF Counted, CountedFor
  <2>1. CountedFor(m)
    BY <1>3 DEF Counted
  <2>2. CASE m = n
    <3>1. built[n] = 0 \/ built[n] = 1
      <4>1. 1 \in 1 .. Len(nodeQueue)
        BY <1>6
      <4>2. built[n] # 2
        BY <2>1, <2>2, <4>1, <1>7 DEF CountedFor
      <4>3. QED
        BY <2>1, <2>2, <4>2, <1>26 DEF CountedFor
    <3>2. built'[n] = 2 => \A i \in 1 .. L + Len(order) : nodeQueue'[i].node # n
      <4> SUFFICES ASSUME built'[n] = 2, NEW i \in 1 .. L + Len(order), nodeQueue'[i].node = n
                   PROVE  FALSE
        OBVIOUS
      <4>1. built[n] = 1
        BY <3>1, <1>26
      <4>2. n \in initialized
        BY <4>1, <2>1, <2>2 DEF CountedFor
      <4>3. i \in 1 .. L /\ nodeQueue[i + 1].node = n
        BY <4>2, <1>24
      <4>4. 1 \in 1 .. Len(nodeQueue) /\ i + 1 \in 1 .. Len(nodeQueue) /\ i + 1 # 1
        BY <4>3, <1>6
      <4>5. QED
        BY <4>1, <4>3, <4>4, <1>7, <2>1, <2>2 DEF CountedFor
    <3>3. built'[n] <= 2 /\ n \in initialized'
      BY <3>1, <1>2, <1>26
    <3>4. QED
      BY <2>2, <3>2, <3>3, <1>23
  <2>3. CASE m # n
    <3>1. built'[m] = built[m] /\ (m \notin initialized' => m \notin initialized)
      BY <2>3, <1>2, <1>25
    <3>2. CASE built[m] = 0
      BY <3>1, <3>2
    <3>3. CASE built[m] # 0
      <4>1. m \in initialized
        BY <3>3, <2>1 DEF CountedFor
      <4>2. \A i \in 1 .. L + Len(order) : nodeQueue'[i].node = m =>
               i \in 1 .. L /\ i + 1 \in 1 .. Len(nodeQueue) /\ nodeQueue[i + 1].node = m
        BY <4>1, <1>6, <1>14, <1>24
      <4>3. built[m] <= 2 /\ m \in initialized'
        BY <4>1, <2>1, <1>2 DEF CountedFor
      <4>4. built[m] = 2 => \A i \in 1 .. L + Len(order) : nodeQueue'[i].node # m
        BY <4>2, <2>1 DEF CountedFor
      <4>5. ASSUME built[m] = 1, NEW i \in 1 .. L + Len(order), NEW j \in 1 .. L + Len(order),
                   nodeQueue'[i].node = m, nodeQueue'[j].node = m
            PROVE  i = j
        <5>1. i + 1 = j + 1 /\ i \in 1 .. L /\ j \in 1 .. L
          BY <4>5, <4>2, <2>1 DEF CountedFor
        <5>2. QED
          BY <5>1, <1>6
      <4>6. QED
        BY <3>1, <4>3, <4>4, <4>5
    <3>4. QED
      BY <3>2, <3>3
  <2>4. QED
    BY <2>2, <2>3
<1>28. TwiceAtMost'
  <2>1. \A m \in Node : built'[m] <= 2
    BY <1>27 DEF Counted, CountedFor
  <2>2. \A m \in Node : ~ (m \in DOMAIN exploredNode' /\ exploredNode'[m].remainingLoop = 0)
    BY <1>22, FlowBuildAssumption DEF Loops
  <2>3. QED
    BY <2>1, <2>2 DEF TwiceAtMost, Spent
<1>29. QED
  BY <1>1, <1>16, <1>17, <1>19, <1>22, <1>27, <1>28 DEF QueueInv

LEMMA QueueStep == QueueInv /\ [Next]_vars => QueueInv'
<1> SUFFICES ASSUME QueueInv, [Next]_vars PROVE QueueInv'
  OBVIOUS
<1>1. TypeOK'
  BY TypeStep DEF QueueInv
<1>2. ASSUME NEW n \in Node, Visit(n) PROVE QueueInv'
  BY <1>2, QueueVisit
<1>3. ASSUME NEW n \in Node, Upsert(n) PROVE QueueInv'
  <2>1. /\ phase = "building" /\ phase' = "done" /\ nodeQueue # <<>> /\ Head(nodeQueue).node = n
        /\ built' = [built EXCEPT ![n] = @ + 1] /\ exploredNode' = exploredNode
    BY <1>3 DEF Upsert, Turn
  <2>2. TypeOK /\ Counted /\ TwiceAtMost
    BY <2>1 DEF QueueInv
  <2>3. built[n] \in Nat /\ built[n] <= 1
    <3>1. 1 \in 1 .. Len(nodeQueue) /\ nodeQueue[1].node = n
      <4>1. nodeQueue \in Seq([node : Node, depth : Nat])
        BY <2>2 DEF TypeOK
      <4>2. QED
        BY <4>1, <2>1
    <3>2. CountedFor(n)
      BY <2>2 DEF Counted
    <3>3. built[n] \in Nat
      BY <2>2 DEF TypeOK
    <3>4. built[n] <= 2 /\ built[n] # 2
      BY <3>1, <3>2 DEF CountedFor
    <3>5. QED
      BY <3>3, <3>4
  <2>4. \A m \in Node : built'[m] <= 2
    BY <2>1, <2>2, <2>3 DEF TypeOK, TwiceAtMost
  <2>5. TwiceAtMost'
    BY <2>1, <2>2, <2>4 DEF TwiceAtMost, Spent
  <2>6. QED
    BY <1>1, <2>1, <2>5 DEF QueueInv
<1>4. CASE Fail
  BY <1>1, <1>4 DEF Fail, QueueInv, TwiceAtMost, Spent
<1>5. CASE Finish
  BY <1>1, <1>5 DEF Finish, QueueInv, TwiceAtMost, Spent
<1>6. CASE UNCHANGED vars
  BY <1>1, <1>6 DEF vars, QueueInv, TwiceAtMost, Spent, Layers, OncePerDepth, SeenInOrder, Loops,
                    QueuedAt, Counted, CountedFor
<1>7. QED
  BY <1>2, <1>3, <1>4, <1>5, <1>6 DEF Next

\* No flow has a node initialised three times, and the limit of loops never cuts off the
\* neighbours that come after a node: whatever the flow and the order of its keys.
THEOREM BuiltTwiceAtMost == Spec => []TwiceAtMost
<1>1. QueueInv => TwiceAtMost
  BY DEF QueueInv
<1>2. QED
  BY QueueInit, QueueStep, <1>1, PTL DEF Spec
-----------------------------------------------------------------------------
(* Recursion over numbers *)

\* Induction: a set of numbers that has zero, and with a number the next one, has all.
LEMMA Inductive ==
  ASSUME NEW T, 0 \in T, \A k \in Nat : k \in T => k + 1 \in T
  PROVE  \A k \in Nat : k \in T
<1> SUFFICES ASSUME NEW k \in Nat, k \notin T PROVE FALSE
  OBVIOUS
<1>1. Nat \ T \in SUBSET Nat /\ Nat \ T # {}
  OBVIOUS
<1>2. PICK m \in Nat \ T : \A x \in Nat \ T : m <= x
  BY <1>1, LeastNatural, Zenon
<1>3. m # 0 /\ m - 1 \in Nat /\ m - 1 \in T /\ (m - 1) + 1 = m
  BY <1>2
<1>4. QED
  BY <1>2, <1>3

Recurses(g, L, base, step) == g = [k \in 0 .. L |-> IF k = 0 THEN base ELSE step[g[k - 1]]]

\* A function that is given by its first value and a step exists.
LEMMA Recursion ==
  ASSUME NEW L \in Nat, NEW U, NEW base \in U, NEW step \in [U -> U]
  PROVE  \E g \in [0 .. L -> U] : Recurses(g, L, base, step)
<1> DEFINE Good(m, g) == /\ g \in [0 .. m -> U]
                         /\ g = [k \in 0 .. m |-> IF k = 0 THEN base ELSE step[g[k - 1]]]
           T == {m \in Nat : \E g : Good(m, g)}
<1>1. 0 \in T
  <2> DEFINE g == [k \in 0 .. 0 |-> base]
  <2>1. Good(0, g)
    OBVIOUS
  <2>2. QED
    BY <2>1
<1>2. ASSUME NEW m \in Nat, m \in T PROVE m + 1 \in T
  <2>1. PICK g : Good(m, g)
    BY <1>2
  <2> DEFINE h == [k \in 0 .. m + 1 |-> IF k = m + 1 THEN step[g[m]] ELSE g[k]]
  <2>2. g[m] \in U /\ step[g[m]] \in U
    BY <2>1
  <2>3. h \in [0 .. m + 1 -> U]
    BY <2>1, <2>2
  <2>4. ASSUME NEW k \in 0 .. m + 1
        PROVE  h[k] = IF k = 0 THEN base ELSE step[h[k - 1]]
    <3>1. CASE k = m + 1
      <4>1. m \in 0 .. m + 1 /\ m # m + 1 /\ k # 0 /\ k - 1 = m
        BY <3>1
      <4>2. h[k - 1] = g[m]
        BY <4>1
      <4>3. QED
        BY <3>1, <4>1, <4>2
    <3>2. CASE k # m + 1 /\ k = 0
      <4>1. g[0] = base
        BY <2>1
      <4>2. QED
        BY <3>2, <4>1
    <3>3. CASE k # m + 1 /\ k # 0
      <4>1. k \in 0 .. m /\ k - 1 \in 0 .. m + 1 /\ k - 1 # m + 1
        BY <3>3
      <4>2. h[k] = g[k] /\ h[k - 1] = g[k - 1]
        BY <3>3, <4>1
      <4>3. g[k] = step[g[k - 1]]
        BY <2>1, <3>3, <4>1
      <4>4. QED
        BY <3>3, <4>2, <4>3
    <3>4. QED
      BY <3>1, <3>2, <3>3
  <2>5. h = [k \in 0 .. m + 1 |-> IF k = 0 THEN base ELSE step[h[k - 1]]]
    <3> HIDE DEF h
    <3>1. DOMAIN h = 0 .. m + 1 /\ h = [k \in 0 .. m + 1 |-> h[k]]
      BY <2>3
    <3>2. QED
      BY <2>4, <3>1
  <2>6. Good(m + 1, h)
    BY <2>3, <2>5
  <2> HIDE DEF h, Good
  <2>7. QED
    BY <2>6
<1>3. L \in T
  <2> HIDE DEF T
  <2>1. QED
    BY <1>1, <1>2, Inductive
<1>4. QED
  BY <1>3 DEF Recurses

\* Some number of a bounded set is its largest one.
LEMMA LargestIs ==
  ASSUME NEW n \in Nat, NEW S \in SUBSET (0 .. n), S # {}
  PROVE  Largest(S) \in S /\ \A k \in S : k <= Largest(S)
<1> DEFINE U == {n - k : k \in S}
<1>1. U \in SUBSET Nat /\ U # {}
  <2>1. \A k \in S : n - k \in Nat
    OBVIOUS
  <2>2. QED
    BY <2>1, Zenon
<1>2. PICK u \in U : \A x \in U : u <= x
  BY <1>1, LeastNatural, Zenon
<1>3. PICK k \in S : u = n - k
  BY <1>2
<1>4. \A j \in S : n - k <= n - j
  BY <1>2, <1>3
<1>5. \A j \in S : j <= k
  BY <1>3, <1>4
<1>6. QED
  BY <1>3, <1>5, Zenon DEF Largest

-----------------------------------------------------------------------------
(* Depths *)

\* A flow lists each node, and its edges join nodes.
LEMMA Listed ==
  ASSUME NEW f \in Flows
  PROVE  /\ Len(f.nodes) \in Nat \ {0} /\ f.nodes \in Seq(Node)
         /\ Cardinality(Node) \in Nat /\ Cardinality(Node) <= Len(f.nodes)
         /\ \A n : Sources(f, n) \subseteq Node /\ (Sources(f, n) # {} => n \in Node)
         /\ \A e \in f.edges : e.src \in Sources(f, e.tgt) /\ e.src \in Node /\ e.tgt \in Node
<1>1. /\ f.edges \subseteq [src : Node, tgt : Node, out : BOOLEAN]
      /\ f.nodes \in Seq(Node) /\ f.nodes # <<>>
      /\ {f.nodes[i] : i \in DOMAIN f.nodes} = Node
  BY FlowBuildAssumption DEF Flow
<1>2. Len(f.nodes) \in Nat \ {0} /\ f.nodes \in [1 .. Len(f.nodes) -> Node]
  BY <1>1
<1>3. f.nodes \in Surjection(1 .. Len(f.nodes), Node)
  <2>1. \A n \in Node : \E i \in 1 .. Len(f.nodes) : f.nodes[i] = n
    BY <1>1, <1>2
  <2>2. QED
    BY <1>2, <2>1 DEF Surjection
<1>4. IsFiniteSet(1 .. Len(f.nodes)) /\ Cardinality(1 .. Len(f.nodes)) = Len(f.nodes)
  BY <1>2, FS_Interval
<1>5. Cardinality(Node) \in Nat /\ Cardinality(Node) <= Len(f.nodes)
  BY <1>3, <1>4, FS_Surjection, FS_CardinalityType, FlowBuildAssumption
<1>6. \A n : Sources(f, n) \subseteq Node /\ (Sources(f, n) # {} => n \in Node)
  BY <1>1 DEF Sources
<1>7. \A e \in f.edges : e.src \in Sources(f, e.tgt) /\ e.src \in Node /\ e.tgt \in Node
  BY <1>1 DEF Sources
<1>8. QED
  BY <1>1, <1>2, <1>5, <1>6, <1>7

\* The nodes of a flow have ranks that go up along each edge.
LEMMA Ranks ==
  ASSUME NEW f \in Flows
  PROVE  \E rank \in [Node -> 1 .. Cardinality(Node)] :
            \A n \in Node : \A s \in Sources(f, n) : rank[s] < rank[n]
<1> DEFINE C == Cardinality(Node)
           Ranked(T, r, k) ==
               /\ T \subseteq Node /\ Cardinality(T) = k /\ r \in [T -> 1 .. k]
               /\ \A n \in T : Sources(f, n) \subseteq T /\ \A s \in Sources(f, n) : r[s] < r[n]
           Ks == {k \in Nat : k <= C => \E T, r : Ranked(T, r, k)}
<1>1. 0 \in Ks
  <2>1. Ranked({}, [x \in {} |-> 0], 0)
    BY FS_EmptySet
  <2>2. QED
    BY <2>1
<1>2. ASSUME NEW k \in Nat, k \in Ks PROVE k + 1 \in Ks
  <2> SUFFICES ASSUME k + 1 <= C PROVE \E T, r : Ranked(T, r, k + 1)
    OBVIOUS
  <2>1. C \in Nat
    BY Listed
  <2>2. PICK T, r : Ranked(T, r, k)
    BY <1>2, <2>1
  <2>3. Node \ T # {}
    BY <2>1, <2>2
  <2>4. PICK n \in Node \ T : Sources(f, n) \cap (Node \ T) = {}
    BY <2>3, AcyclicAssumption DEF Acyclic
  <2>5. Sources(f, n) \subseteq T
    BY <2>4, Listed
  <2> DEFINE T1 == T \cup {n}
             r1 == [x \in T1 |-> IF x = n THEN k + 1 ELSE r[x]]
  <2>6. T1 \subseteq Node /\ Cardinality(T1) = k + 1
    <3>1. IsFiniteSet(T) /\ n \notin T /\ Cardinality(T) = k
      BY <2>2, <2>4, FlowBuildAssumption, FS_Subset
    <3>2. QED
      BY <2>2, <3>1, FS_AddElement
  <2>7. r1 \in [T1 -> 1 .. k + 1]
    BY <2>2
  <2>8. ASSUME NEW m \in T1
        PROVE  Sources(f, m) \subseteq T1 /\ \A s \in Sources(f, m) : r1[s] < r1[m]
    <3>1. CASE m = n
      BY <2>2, <2>4, <2>5, <3>1
    <3>2. CASE m # n
      <4>1. m \in T /\ Sources(f, m) \subseteq T /\ n \notin T
        BY <2>2, <2>4, <3>2
      <4>2. r1[m] = r[m] /\ \A s \in Sources(f, m) : r1[s] = r[s]
        BY <3>2, <4>1
      <4>3. QED
        BY <2>2, <4>1, <4>2
    <3>3. QED
      BY <3>1, <3>2
  <2>9. Ranked(T1, r1, k + 1)
    BY <2>6, <2>7, <2>8
  <2> HIDE DEF T1, r1, Ranked
  <2>10. QED
    BY <2>9
<1>3. C \in Ks
  <2>1. C \in Nat
    BY Listed
  <2> HIDE DEF Ks, C
  <2>2. QED
    BY <1>1, <1>2, <2>1, Inductive
<1>4. PICK T, r : Ranked(T, r, C)
  <2>1. C \in Nat /\ C <= C
    BY Listed
  <2> HIDE DEF Ranked
  <2>2. QED
    BY <1>3, <2>1
<1>5. T = Node
  BY <1>4, FlowBuildAssumption, FS_Subset
<1>6. QED
  BY <1>4, <1>5

\* The ways to a node, edge by edge.
LEMMA AwayIs ==
  ASSUME NEW f \in Flows, NEW end
  PROVE  /\ DOMAIN Away(f, end) = 0 .. Len(f.nodes)
         /\ Away(f, end)[0] = {end}
         /\ \A k \in Nat : k + 1 <= Len(f.nodes) =>
               /\ Away(f, end)[k + 1] = UNION {Sources(f, n) : n \in Away(f, end)[k]}
               /\ Away(f, end)[k + 1] \subseteq Node
<1> DEFINE L == Len(f.nodes)
           U == SUBSET (Node \cup {end})
           step == [S \in U |-> UNION {Sources(f, n) : n \in S}]
           Is(g) == g = [k \in 0 .. L |-> IF k = 0 THEN {end} ELSE UNION {Sources(f, n) : n \in g[k - 1]}]
<1>1. L \in Nat /\ {end} \in U /\ step \in [U -> U]
  <2>1. ASSUME NEW S \in U PROVE UNION {Sources(f, n) : n \in S} \in U
    BY Listed
  <2>2. QED
    BY <2>1, Listed
<1>2. PICK g \in [0 .. L -> U] : Recurses(g, L, {end}, step)
  <2> HIDE DEF L, U, step
  <2>1. QED
    BY <1>1, Recursion, Zenon
<1>3. Is(g)
  <2>1. ASSUME NEW k \in 0 .. L, k # 0 PROVE step[g[k - 1]] = UNION {Sources(f, n) : n \in g[k - 1]}
    <3>1. k - 1 \in 0 .. L
      BY <1>1, <2>1
    <3>2. g[k - 1] \in U
      BY <1>2, <3>1
    <3>3. QED
      BY <3>2
  <2> HIDE DEF L, U, step
  <2>2. QED
    BY <1>2, <2>1 DEF Recurses
<1>4. Is(Away(f, end))
  BY <1>3, Zenon DEF Away
<1>5. L \in Nat /\ \A n : Sources(f, n) \subseteq Node
  BY Listed
<1>6. DOMAIN Away(f, end) = 0 .. L /\ Away(f, end)[0] = {end}
  BY <1>4, <1>5
<1>7. ASSUME NEW k \in Nat, k + 1 <= L
      PROVE  Away(f, end)[k + 1] = UNION {Sources(f, n) : n \in Away(f, end)[k]}
  <2>1. k + 1 \in 0 .. L /\ k + 1 # 0 /\ (k + 1) - 1 = k
    BY <1>5, <1>7
  <2>2. QED
    BY <1>4, <2>1
<1>8. ASSUME NEW k \in Nat, k + 1 <= L PROVE Away(f, end)[k + 1] \subseteq Node
  BY <1>5, <1>7, <1>8
<1>9. QED
  BY <1>6, <1>7, <1>8

\* A way has no more nodes than there are: each edge goes up in rank.
LEMMA WaysAreShort ==
  ASSUME NEW f \in Flows, NEW end, NEW k \in Nat, k <= Len(f.nodes), Away(f, end)[k] # {}
  PROVE  k < Len(f.nodes)
<1> DEFINE A == Away(f, end)
           L == Len(f.nodes)
<1>1. PICK rank \in [Node -> 1 .. Cardinality(Node)] :
         \A n \in Node : \A s \in Sources(f, n) : rank[s] < rank[n]
  BY Ranks
<1>2. /\ L \in Nat \ {0} /\ Cardinality(Node) \in Nat /\ Cardinality(Node) <= L
      /\ \A n : Sources(f, n) \subseteq Node /\ (Sources(f, n) # {} => n \in Node)
  BY Listed
<1>3. /\ A[0] = {end}
      /\ \A j \in Nat : j + 1 <= L => A[j + 1] = UNION {Sources(f, n) : n \in A[j]}
  BY AwayIs
<1> HIDE DEF A, L
<1> DEFINE Climbs(j) == j <= L => \A n \in A[j] :
                          j = 0 \/ (end \in Node /\ n \in Node /\ rank[n] + j <= rank[end])
           T == {j \in Nat : Climbs(j)}
<1>4. 0 \in T
  OBVIOUS
<1>5. ASSUME NEW j \in Nat, j \in T PROVE j + 1 \in T
  <2> SUFFICES ASSUME j + 1 <= L, NEW n \in A[j + 1]
               PROVE  end \in Node /\ n \in Node /\ rank[n] + (j + 1) <= rank[end]
    OBVIOUS
  <2>1. PICK m \in A[j] : n \in Sources(f, m)
    <3>1. A[j + 1] = UNION {Sources(f, m) : m \in A[j]}
      BY <1>3, <1>5
    <3>2. QED
      BY <3>1, Zenon
  <2>2. m \in Node /\ n \in Node /\ rank[n] < rank[m] /\ rank[n] \in Nat /\ rank[m] \in Nat
    BY <1>1, <1>2, <2>1
  <2>3. CASE j = 0
    <3>1. m = end
      BY <1>3, <2>1, <2>3
    <3>2. QED
      BY <2>2, <2>3, <3>1
  <2>4. CASE j # 0
    <3>1. end \in Node /\ rank[m] + j <= rank[end]
      BY <1>2, <1>5, <2>1, <2>4
    <3>2. rank[end] \in Nat
      BY <1>1, <1>2, <3>1
    <3>3. QED
      BY <2>2, <3>1, <3>2
  <2>5. QED
    BY <2>3, <2>4
<1>6. k \in T
  <2> HIDE DEF T
  <2>1. QED
    BY <1>4, <1>5, Inductive
<1>7. CASE k = 0
  BY <1>2, <1>7 DEF L
<1>8. CASE k # 0
  <2>1. PICK n \in A[k] : TRUE
    BY DEF A
  <2>2. end \in Node /\ n \in Node /\ rank[n] + k <= rank[end]
    BY <1>6, <1>8, <2>1 DEF L
  <2>3. rank[n] \in 1 .. Cardinality(Node) /\ rank[end] \in 1 .. Cardinality(Node)
    BY <1>1, <2>2
  <2>4. QED
    BY <1>2, <2>2, <2>3 DEF L
<1>9. QED
  BY <1>7, <1>8

\* The depth of a node is what its longest way leaves of the longest of all, far.
IsDepth(f, end, far) ==
    /\ far \in Nat /\ far < Len(f.nodes) /\ Away(f, end)[far] # {}
    /\ \A k \in Nat : k <= Len(f.nodes) /\ Away(f, end)[k] # {} => k <= far
    /\ DOMAIN DepthFrom(f, end) = {n \in Node : \E k \in 0 .. far : n \in Away(f, end)[k]}
    /\ \A n \in DOMAIN DepthFrom(f, end) : \E k \in 0 .. far :
          /\ n \in Away(f, end)[k] /\ DepthFrom(f, end)[n] = far - k
          /\ \A j \in 0 .. far : n \in Away(f, end)[j] => j <= k

LEMMA DepthsFrom ==
  ASSUME NEW f \in Flows, NEW end
  PROVE  \E far : IsDepth(f, end, far)
<1> DEFINE A == Away(f, end)
           L == Len(f.nodes)
           ways(n) == {k \in DOMAIN A : n \in A[k]}
           far == Largest({k \in DOMAIN A : A[k] # {}})
<1>1. L \in Nat \ {0} /\ DOMAIN A = 0 .. L /\ A[0] = {end}
  BY Listed, AwayIs
<1>2. DepthFrom(f, end) = [n \in {m \in Node : ways(m) # {}} |-> far - Largest(ways(n))]
  BY DEF DepthFrom
<1> HIDE DEF A, L
<1>3. far \in {k \in 0 .. L : A[k] # {}} /\ \A k \in {j \in 0 .. L : A[j] # {}} : k <= far
  <2>1. {k \in 0 .. L : A[k] # {}} \in SUBSET (0 .. L) /\ 0 \in {k \in 0 .. L : A[k] # {}}
    BY <1>1
  <2>2. QED
    BY <1>1, <2>1, LargestIs
<1>4. far \in Nat /\ far < L /\ A[far] # {}
  <2> HIDE DEF far
  <2>1. far \in Nat /\ far <= L /\ A[far] # {}
    BY <1>1, <1>3
  <2>2. QED
    BY <2>1, WaysAreShort DEF A, L
<1>5. ASSUME NEW n, ways(n) # {}
      PROVE  /\ Largest(ways(n)) \in 0 .. far /\ n \in A[Largest(ways(n))]
             /\ \A j \in 0 .. far : n \in A[j] => j <= Largest(ways(n))
  <2>1. ways(n) \in SUBSET (0 .. L)
    BY <1>1
  <2>2. Largest(ways(n)) \in ways(n) /\ \A j \in ways(n) : j <= Largest(ways(n))
    BY <1>1, <1>5, <2>1, LargestIs
  <2>3. \A j \in 0 .. far : n \in A[j] => j \in ways(n)
    BY <1>1, <1>4
  <2> HIDE DEF far
  <2>4. QED
    BY <1>1, <1>3, <2>2, <2>3
<1>6. \A n : ways(n) # {} <=> \E k \in 0 .. far : n \in A[k]
  <2> HIDE DEF far
  <2>1. QED
    BY <1>1, <1>3, <1>4
<1>7. DOMAIN DepthFrom(f, end) = {n \in Node : \E k \in 0 .. far : n \in A[k]}
  <2> HIDE DEF far
  <2>1. QED
    BY <1>2, <1>6
<1>8. \A n \in DOMAIN DepthFrom(f, end) : \E k \in 0 .. far :
          /\ n \in A[k] /\ DepthFrom(f, end)[n] = far - k
          /\ \A j \in 0 .. far : n \in A[j] => j <= k
  <2> SUFFICES ASSUME NEW n \in DOMAIN DepthFrom(f, end)
               PROVE  \E k \in 0 .. far :
                         /\ n \in A[k] /\ DepthFrom(f, end)[n] = far - k
                         /\ \A j \in 0 .. far : n \in A[j] => j <= k
    OBVIOUS
  <2>1. ways(n) # {} /\ DepthFrom(f, end)[n] = far - Largest(ways(n))
    BY <1>2
  <2> HIDE DEF far, ways
  <2>2. QED
    BY <1>5, <2>1
<1>9. \A k \in Nat : k <= L /\ A[k] # {} => k <= far
  <2> HIDE DEF far
  <2>1. QED
    BY <1>1, <1>3
<1>10. IsDepth(f, end, far)
  <2> HIDE DEF far
  <2>1. QED
    BY <1>4, <1>7, <1>8, <1>9 DEF IsDepth, A, L
<1>11. QED
  BY <1>10
\* The nodes that a way of k edges leads to.
Behind(f) ==
    LET behind[k \in 0 .. Len(f.nodes)] ==
            IF k = 0 THEN Node ELSE {n \in Node : Sources(f, n) \cap behind[k - 1] # {}}
    IN  behind

LEMMA BehindIs ==
  ASSUME NEW f \in Flows
  PROVE  /\ Behind(f)[0] = Node
         /\ \A k \in Nat : k + 1 <= Len(f.nodes) =>
               Behind(f)[k + 1] = {n \in Node : Sources(f, n) \cap Behind(f)[k] # {}}
<1> DEFINE L == Len(f.nodes)
           U == SUBSET Node
           step == [S \in U |-> {n \in Node : Sources(f, n) \cap S # {}}]
           Is(g) == g = [k \in 0 .. L |->
                           IF k = 0 THEN Node ELSE {n \in Node : Sources(f, n) \cap g[k - 1] # {}}]
<1>1. L \in Nat /\ Node \in U /\ step \in [U -> U]
  BY Listed
<1>2. PICK g \in [0 .. L -> U] : Recurses(g, L, Node, step)
  <2> HIDE DEF L, U, step
  <2>1. QED
    BY <1>1, Recursion, Zenon
<1>3. Is(g)
  <2>1. ASSUME NEW k \in 0 .. L, k # 0
        PROVE  step[g[k - 1]] = {n \in Node : Sources(f, n) \cap g[k - 1] # {}}
    <3>1. k - 1 \in 0 .. L
      BY <1>1, <2>1
    <3>2. g[k - 1] \in U
      BY <1>2, <3>1
    <3>3. QED
      BY <3>2
  <2> HIDE DEF L, U, step
  <2>2. QED
    BY <1>2, <2>1 DEF Recurses
<1>4. Is(Behind(f))
  BY <1>3, Zenon DEF Behind
<1>5. L \in Nat
  BY Listed
<1>6. Behind(f)[0] = Node
  BY <1>4, <1>5
<1>7. ASSUME NEW k \in Nat, k + 1 <= L
      PROVE  Behind(f)[k + 1] = {n \in Node : Sources(f, n) \cap Behind(f)[k] # {}}
  <2>1. k + 1 \in 0 .. L /\ k + 1 # 0 /\ (k + 1) - 1 = k
    BY <1>5, <1>7
  <2>2. Behind(f)[k + 1] = {n \in Node : Sources(f, n) \cap Behind(f)[(k + 1) - 1] # {}}
    <3> HIDE DEF L
    <3>1. QED
      BY <1>4, <2>1, Zenon
  <2>3. QED
    BY <2>1, <2>2
<1>8. QED
  BY <1>6, <1>7

(***************************************************************************)
(* What the depths from one end are good for: they go up along the edges,  *)
(* every node but the end leads on, and at each depth up to the last is a  *)
(* node with as long a way behind it, as there is behind the end.          *)
(***************************************************************************)
Descends(f, end, d, far) ==
    /\ far < Len(f.nodes) /\ DOMAIN d \subseteq Node /\ end \in DOMAIN d
    /\ \A n \in DOMAIN d : d[n] \in 0 .. far
    /\ \A n \in DOMAIN d : \A s \in Sources(f, n) : s \in DOMAIN d /\ d[s] < d[n]
    /\ \A n \in DOMAIN d \ {end} : \E m \in DOMAIN d : n \in Sources(f, m)
    /\ \A j \in 0 .. far : \E x \in DOMAIN d : d[x] <= j /\ x \in Behind(f)[j]
    /\ end \in Behind(f)[d[end]]

\* Among some nodes with depths is a deepest one and one that is least deep.
LEMMA Deepest ==
  ASSUME NEW d, NEW far \in Nat, \A n \in DOMAIN d : d[n] \in 0 .. far,
         NEW X \in SUBSET DOMAIN d, X # {}
  PROVE  /\ \E x \in X : \A y \in X : d[y] <= d[x]
         /\ \E x \in X : \A y \in X : d[x] <= d[y]
<1> DEFINE S == {d[x] : x \in X}
<1>1. S \in SUBSET (0 .. far) /\ S # {} /\ S \in SUBSET Nat
  OBVIOUS
<1>2. \E k \in S : \A j \in S : j <= k
  <2> HIDE DEF S
  <2>1. QED
    BY <1>1, LargestIs
<1>3. \E k \in S : \A j \in S : k <= j
  <2> HIDE DEF S
  <2>1. QED
    BY <1>1, LeastNatural, Zenon
<1>4. QED
  BY <1>2, <1>3

LEMMA DepthsDescend ==
  ASSUME NEW f \in Flows, NEW end \in Node
  PROVE  \E far \in Nat : Descends(f, end, DepthFrom(f, end), far)
<1> DEFINE A == Away(f, end)
           L == Len(f.nodes)
           d == DepthFrom(f, end)
<1>1. PICK far : IsDepth(f, end, far)
  BY DepthsFrom
<1>2. L \in Nat \ {0} /\ \A n : Sources(f, n) \subseteq Node
  BY Listed
<1>3. A[0] = {end} /\ \A k \in Nat : k + 1 <= L => A[k + 1] = UNION {Sources(f, n) : n \in A[k]}
  BY AwayIs
<1>4. /\ far \in Nat /\ far < L /\ A[far] # {}
      /\ \A k \in Nat : k <= L /\ A[k] # {} => k <= far
      /\ DOMAIN d = {n \in Node : \E k \in 0 .. far : n \in A[k]}
      /\ \A n \in DOMAIN d : \E k \in 0 .. far :
            /\ n \in A[k] /\ d[n] = far - k
            /\ \A j \in 0 .. far : n \in A[j] => j <= k
  BY <1>1 DEF IsDepth
<1>5. \A k \in 0 .. far : A[k] \subseteq Node
  <2> SUFFICES ASSUME NEW k \in 0 .. far, NEW x \in A[k] PROVE x \in Node
    OBVIOUS
  <2>1. CASE k = 0
    BY <1>3, <2>1
  <2>2. CASE k # 0
    <3>1. k - 1 \in Nat /\ (k - 1) + 1 = k /\ k <= L
      BY <1>2, <1>4, <2>2
    <3>2. A[k] = UNION {Sources(f, n) : n \in A[k - 1]}
      BY <1>3, <3>1
    <3>3. QED
      BY <1>2, <3>2
  <2>3. QED
    BY <2>1, <2>2
<1> HIDE DEF A, L, d
<1>6. \A n \in DOMAIN d : d[n] \in 0 .. far
  BY <1>4
<1>7. end \in DOMAIN d
  BY <1>3, <1>4
<1>8. ASSUME NEW n \in DOMAIN d, NEW s \in Sources(f, n) PROVE s \in DOMAIN d /\ d[s] < d[n]
  <2>1. PICK k \in 0 .. far : n \in A[k] /\ d[n] = far - k
    BY <1>4
  <2>2. k + 1 \in Nat /\ k + 1 <= L
    BY <1>2, <1>4
  <2>3. A[k + 1] = UNION {Sources(f, m) : m \in A[k]}
    BY <1>3, <2>2
  <2>4. s \in A[k + 1]
    BY <2>1, <2>3, Zenon
  <2>5. k + 1 \in 0 .. far
    BY <1>4, <2>2, <2>4
  <2>6. s \in DOMAIN d
    BY <1>2, <1>4, <2>4, <2>5
  <2>7. PICK j \in 0 .. far : d[s] = far - j /\ k + 1 <= j
    BY <1>4, <2>4, <2>5, <2>6
  <2>8. QED
    BY <1>4, <2>1, <2>6, <2>7
<1>9. ASSUME NEW n \in DOMAIN d \ {end} PROVE \E m \in DOMAIN d : n \in Sources(f, m)
  <2>1. PICK k \in 0 .. far : n \in A[k]
    BY <1>4
  <2>2. k # 0 /\ k - 1 \in 0 .. far /\ k - 1 \in Nat /\ (k - 1) + 1 = k /\ k <= L
    BY <1>2, <1>3, <1>4, <2>1
  <2>3. A[k] = UNION {Sources(f, m) : m \in A[k - 1]}
    BY <1>3, <2>2
  <2>4. PICK m \in A[k - 1] : n \in Sources(f, m)
    BY <2>1, <2>3, Zenon
  <2>5. m \in DOMAIN d
    BY <1>4, <1>5, <2>2
  <2>6. QED
    BY <2>4, <2>5
<1>10. \A j \in 0 .. far : \E x \in A[far - j] : x \in Behind(f)[j]
  <2> DEFINE T == {j \in Nat : j <= far => \E x \in A[far - j] : x \in Behind(f)[j]}
  <2>1. 0 \in T
    <3>1. PICK x \in A[far] : TRUE
      BY <1>4
    <3>2. x \in Node /\ far - 0 = far
      BY <1>4, <1>5
    <3>3. QED
      BY <3>1, <3>2, BehindIs
  <2>2. ASSUME NEW j \in Nat, j \in T PROVE j + 1 \in T
    <3> SUFFICES ASSUME j + 1 <= far PROVE \E y \in A[far - (j + 1)] : y \in Behind(f)[j + 1]
      OBVIOUS
    <3>1. PICK x \in A[far - j] : x \in Behind(f)[j]
      BY <1>4, <2>2
    <3>2. /\ far - (j + 1) \in Nat /\ (far - (j + 1)) + 1 = far - j /\ far - j <= L
          /\ far - (j + 1) \in 0 .. far /\ j + 1 <= L
      BY <1>2, <1>4
    <3>3. A[far - j] = UNION {Sources(f, m) : m \in A[far - (j + 1)]}
      BY <1>3, <3>2
    <3>4. PICK y \in A[far - (j + 1)] : x \in Sources(f, y)
      BY <3>1, <3>3, Zenon
    <3>5. Behind(f)[j + 1] = {n \in Node : Sources(f, n) \cap Behind(f)[j] # {}}
      BY <3>2, BehindIs DEF L
    <3>6. y \in Behind(f)[j + 1]
      BY <1>5, <3>1, <3>2, <3>4, <3>5
    <3>7. QED
      BY <3>4, <3>6
  <2>3. \A j \in Nat : j \in T
    <3> HIDE DEF T
    <3>1. QED
      BY <2>1, <2>2, Inductive
  <2>4. QED
    BY <2>3
<1>11. ASSUME NEW j \in 0 .. far PROVE \E x \in DOMAIN d : d[x] <= j /\ x \in Behind(f)[j]
  <2>1. PICK x \in A[far - j] : x \in Behind(f)[j]
    BY <1>10
  <2>2. far - j \in 0 .. far
    BY <1>4
  <2>3. x \in DOMAIN d
    BY <1>4, <1>5, <2>1, <2>2
  <2>4. PICK k \in 0 .. far : d[x] = far - k /\ far - j <= k
    BY <1>4, <2>1, <2>2, <2>3
  <2>5. d[x] <= j
    BY <1>4, <2>4
  <2>6. QED
    BY <2>1, <2>3, <2>5
<1>12. DOMAIN d \subseteq Node
  BY <1>4
<1>13. end \in Behind(f)[d[end]]
  <2>1. PICK x \in DOMAIN d : \A y \in DOMAIN d : d[y] <= d[x]
    BY <1>4, <1>6, <1>7, Deepest
  <2>2. x = end
    <3>1. SUFFICES ASSUME x # end PROVE FALSE
      OBVIOUS
    <3>2. PICK m \in DOMAIN d : x \in Sources(f, m)
      BY <1>9, <3>1
    <3>3. d[x] < d[m]
      BY <1>8, <3>2
    <3>4. QED
      BY <1>6, <2>1, <3>2, <3>3
  <2>3. PICK k \in 0 .. far : end \in A[k] /\ d[end] = far - k
    BY <1>4, <1>7
  <2>4. k = 0
    <3>1. SUFFICES ASSUME k # 0 PROVE FALSE
      OBVIOUS
    <3>2. k - 1 \in 0 .. far /\ k - 1 \in Nat /\ (k - 1) + 1 = k /\ k <= L
      BY <1>2, <1>4, <3>1
    <3>3. A[k] = UNION {Sources(f, m) : m \in A[k - 1]}
      BY <1>3, <3>2
    <3>4. PICK m \in A[k - 1] : end \in Sources(f, m)
      BY <2>3, <3>3, Zenon
    <3>5. m \in DOMAIN d
      BY <1>4, <1>5, <3>2
    <3>6. d[end] < d[m] /\ d[m] <= d[end]
      BY <1>8, <2>1, <2>2, <3>4, <3>5
    <3>7. QED
      BY <1>6, <1>7, <3>5, <3>6
  <2>5. far \in 0 .. far /\ far - far = 0 /\ d[end] = far
    BY <1>4, <2>3, <2>4
  <2>6. \E y \in A[0] : y \in Behind(f)[far]
    BY <1>10, <2>5
  <2>7. QED
    BY <1>3, <2>5, <2>6
<1>14. Descends(f, end, d, far)
  BY <1>4, <1>6, <1>7, <1>8, <1>9, <1>11, <1>12, <1>13 DEF Descends, L
<1>15. QED
  BY <1>4, <1>14 DEF d

\* The ends are listed; an upsert has one, the vector store.
LEMMA EndsAre ==
  ASSUME NEW f \in Flows
  PROVE  \E N \in Nat : /\ DOMAIN Ends(f) = 1 .. N /\ N = Len(Ends(f)) /\ Ends(f) \in Seq(Node)
                        /\ \A i \in 1 .. N : Ends(f)[i] \in Node
                        /\ Upserts(f) => N = 1 /\ Ends(f)[1] = f.stop
<1>1. f.nodes \in Seq(Node) /\ f.stop \in Node \cup {NoNode}
  BY FlowBuildAssumption DEF Flow
<1>2. CASE Upserts(f)
  <2>1. Ends(f) = <<f.stop>> /\ f.stop \in Node
    BY <1>1, <1>2 DEF Ends, Upserts
  <2>2. QED
    BY <1>2, <2>1
<1>3. CASE ~ Upserts(f)
  <2>1. Ends(f) \in Seq(Node)
    <3>1. \A I \in SUBSET (DOMAIN f.nodes) : Pick(f.nodes, I) \in Seq(Node)
      BY <1>1, PickType
    <3> DEFINE I == {i \in DOMAIN f.nodes :
                      /\ f.nodes[i] \in f.chains
                      /\ \/ Len(f.nodes) = 1
                         \/ Targets(f, f.nodes[i]) = {} /\ Sources(f, f.nodes[i]) # {}}
    <3>2. I \in SUBSET (DOMAIN f.nodes) /\ Ends(f) = Pick(f.nodes, I)
      BY <1>3 DEF Ends, EndingNodes
    <3> HIDE DEF I
    <3>3. QED
      BY <3>1, <3>2
  <2>2. Len(Ends(f)) \in Nat /\ DOMAIN Ends(f) = 1 .. Len(Ends(f))
        /\ \A i \in 1 .. Len(Ends(f)) : Ends(f)[i] \in Node
    BY <2>1
  <2>3. QED
    BY <1>3, <2>1, <2>2
<1>4. QED
  BY <1>2, <1>3

\* The depth of a node is the one from the last of the ends that it leads to.
LEMMA Merged ==
  ASSUME NEW f \in Flows
  PROVE  /\ \A i \in DOMAIN Ends(f) : /\ Depths(f)[i] = DepthFrom(f, Ends(f)[i])
                                      /\ DOMAIN Depths(f)[i] \subseteq DOMAIN DepthQueue(f)
         /\ \A n \in DOMAIN DepthQueue(f) : \E i \in DOMAIN Ends(f) :
               /\ n \in DOMAIN Depths(f)[i] /\ DepthQueue(f)[n] = Depths(f)[i][n]
               /\ \A j \in DOMAIN Ends(f) : n \in DOMAIN Depths(f)[j] => j <= i
<1> DEFINE depth == Depths(f)
           from(n) == {i \in DOMAIN depth : n \in DOMAIN depth[i]}
<1>1. PICK N \in Nat : DOMAIN Ends(f) = 1 .. N /\ \A i \in 1 .. N : Ends(f)[i] \in Node
  BY EndsAre
<1>2. DOMAIN depth = 1 .. N /\ \A i \in 1 .. N : depth[i] = DepthFrom(f, Ends(f)[i])
  BY <1>1 DEF Depths
<1>3. DepthQueue(f) = [n \in {m \in Node : from(m) # {}} |-> depth[Largest(from(n))][n]]
  BY DEF DepthQueue
<1> HIDE DEF depth
<1>4. \A i \in 1 .. N : DOMAIN depth[i] \subseteq Node
  BY <1>1, <1>2, DepthsDescend DEF Descends
<1>5. \A i \in 1 .. N : DOMAIN depth[i] \subseteq DOMAIN DepthQueue(f)
  <2> SUFFICES ASSUME NEW i \in 1 .. N, NEW n \in DOMAIN depth[i] PROVE n \in DOMAIN DepthQueue(f)
    OBVIOUS
  <2>1. n \in Node /\ i \in from(n)
    BY <1>2, <1>4
  <2>2. QED
    BY <1>3, <2>1
<1>6. ASSUME NEW n \in DOMAIN DepthQueue(f)
      PROVE  \E i \in 1 .. N : /\ n \in DOMAIN depth[i] /\ DepthQueue(f)[n] = depth[i][n]
                               /\ \A j \in 1 .. N : n \in DOMAIN depth[j] => j <= i
  <2>1. from(n) # {} /\ from(n) \in SUBSET (0 .. N) /\ from(n) \subseteq 1 .. N
    BY <1>2, <1>3
  <2>2. Largest(from(n)) \in from(n) /\ \A j \in from(n) : j <= Largest(from(n))
    <3> HIDE DEF from
    <3>1. QED
      BY <2>1, LargestIs
  <2>3. DepthQueue(f)[n] = depth[Largest(from(n))][n]
    BY <1>3
  <2>4. \A j \in 1 .. N : n \in DOMAIN depth[j] => j \in from(n)
    BY <1>2
  <2>5. Largest(from(n)) \in 1 .. N /\ n \in DOMAIN depth[Largest(from(n))]
    BY <2>1, <2>2
  <2> HIDE DEF from
  <2>6. QED
    BY <2>2, <2>3, <2>4, <2>5
<1>7. QED
  BY <1>1, <1>2, <1>5, <1>6 DEF depth

\* The nodes at depth zero are starts, and nothing leads to a start. In an upsert the
\* depth goes up along each edge.
LEMMA StartsAre ==
  ASSUME NEW f \in Flows
  PROVE  /\ \A n \in StartingNodes(f) : Sources(f, n) = {} /\ n \in DOMAIN DepthQueue(f)
         /\ \A n \in DOMAIN DepthQueue(f) :
               DepthQueue(f)[n] \in Nat /\ (DepthQueue(f)[n] = 0 => n \in StartingNodes(f))
         /\ Upserts(f) =>
               /\ \A n \in StartingNodes(f) : DepthQueue(f)[n] = 0
               /\ DOMAIN DepthQueue(f) = DOMAIN DepthFrom(f, f.stop)
               /\ \A n \in DOMAIN DepthQueue(f) : \A s \in Sources(f, n) :
                     s \in DOMAIN DepthQueue(f) /\ DepthQueue(f)[s] < DepthQueue(f)[n]
<1>1. PICK N \in Nat : /\ DOMAIN Ends(f) = 1 .. N /\ \A i \in 1 .. N : Ends(f)[i] \in Node
                       /\ Upserts(f) => N = 1 /\ Ends(f)[1] = f.stop
  BY EndsAre
<1> DEFINE D == DepthQueue(f)
<1>2. \A i \in 1 .. N : /\ DOMAIN Depths(f)[i] \subseteq Node /\ DOMAIN Depths(f)[i] \subseteq DOMAIN D
                        /\ \A n \in DOMAIN Depths(f)[i] :
                              /\ Depths(f)[i][n] \in Nat
                              /\ \A s \in Sources(f, n) :
                                    s \in DOMAIN Depths(f)[i] /\ Depths(f)[i][s] < Depths(f)[i][n]
  <2> SUFFICES ASSUME NEW i \in 1 .. N
               PROVE  /\ DOMAIN Depths(f)[i] \subseteq Node /\ DOMAIN Depths(f)[i] \subseteq DOMAIN D
                      /\ \A n \in DOMAIN Depths(f)[i] :
                            /\ Depths(f)[i][n] \in Nat
                            /\ \A s \in Sources(f, n) :
                                  s \in DOMAIN Depths(f)[i] /\ Depths(f)[i][s] < Depths(f)[i][n]
    OBVIOUS
  <2>1. PICK far \in Nat : Descends(f, Ends(f)[i], DepthFrom(f, Ends(f)[i]), far)
    BY <1>1, DepthsDescend
  <2>2. Depths(f)[i] = DepthFrom(f, Ends(f)[i]) /\ DOMAIN Depths(f)[i] \subseteq DOMAIN D
    BY <1>1, Merged
  <2>3. Descends(f, Ends(f)[i], Depths(f)[i], far)
    BY <2>1, <2>2
  <2>4. QED
    BY <2>2, <2>3 DEF Descends
<1>3. /\ DOMAIN Depths(f) = 1 .. N
      /\ \A n \in DOMAIN D : \E i \in 1 .. N : n \in DOMAIN Depths(f)[i] /\ D[n] = Depths(f)[i][n]
  BY <1>1, Merged DEF Depths
<1>4. StartingNodes(f) =
         {n \in Node : \E i \in 1 .. N : n \in DOMAIN Depths(f)[i] /\ Depths(f)[i][n] = 0}
  BY <1>3 DEF StartingNodes
<1> HIDE DEF D
<1>5. ASSUME NEW n \in StartingNodes(f) PROVE Sources(f, n) = {} /\ n \in DOMAIN D
  <2>1. PICK i \in 1 .. N : n \in DOMAIN Depths(f)[i] /\ Depths(f)[i][n] = 0
    BY <1>4
  <2>2. \A s \in Sources(f, n) : FALSE
    BY <1>2, <2>1
  <2>3. QED
    BY <1>2, <2>1, <2>2
<1>6. ASSUME NEW n \in DOMAIN D PROVE D[n] \in Nat /\ (D[n] = 0 => n \in StartingNodes(f))
  <2>1. PICK i \in 1 .. N : n \in DOMAIN Depths(f)[i] /\ D[n] = Depths(f)[i][n]
    BY <1>3
  <2>2. n \in Node /\ D[n] \in Nat
    BY <1>2, <2>1
  <2>3. QED
    BY <1>4, <2>1, <2>2
<1>7. ASSUME Upserts(f)
      PROVE  /\ \A n \in StartingNodes(f) : D[n] = 0
             /\ DOMAIN D = DOMAIN DepthFrom(f, f.stop)
             /\ \A n \in DOMAIN D : \A s \in Sources(f, n) : s \in DOMAIN D /\ D[s] < D[n]
  <2>1. N = 1 /\ Depths(f)[1] = DepthFrom(f, f.stop)
    BY <1>1, <1>7, Merged
  <2>2. \A n \in DOMAIN D : n \in DOMAIN Depths(f)[1] /\ D[n] = Depths(f)[1][n]
    BY <1>3, <2>1
  <2>3. DOMAIN D = DOMAIN Depths(f)[1]
    BY <1>2, <2>1, <2>2
  <2>4. \A n \in StartingNodes(f) : D[n] = 0
    BY <1>4, <2>1, <2>2, <2>3
  <2>5. \A n \in DOMAIN D : \A s \in Sources(f, n) : s \in DOMAIN D /\ D[s] < D[n]
    BY <1>2, <2>1, <2>2, <2>3
  <2>6. QED
    BY <2>1, <2>3, <2>4, <2>5
<1>8. QED
  BY <1>5, <1>6, <1>7 DEF D

-----------------------------------------------------------------------------
(* What a decision takes along *)

\* The nodes connected to one are closed under the edges, in both directions: the search
\* takes in a node in each round, or has found them all.
LEMMA ConnectedIsClosed ==
  ASSUME NEW f \in Flows, NEW edges \in SUBSET f.edges, NEW n \in Node
  PROVE  \A e \in edges : e.src \in Connected(f, edges, n) <=> e.tgt \in Connected(f, edges, n)
<1> DEFINE L == Len(f.nodes)
           U == SUBSET Node
           step == [S \in U |-> Near(edges, S)]
           Is(g) == g = [k \in 0 .. L |-> IF k = 0 THEN {n} ELSE Near(edges, g[k - 1])]
           reach == CHOOSE g : Is(g)
<1>1. /\ L \in Nat \ {0} /\ Cardinality(Node) \in Nat /\ Cardinality(Node) <= L
      /\ \A e \in edges : e.src \in Node /\ e.tgt \in Node
  BY Listed
<1>2. \A S \in U : Near(edges, S) \in U /\ S \subseteq Near(edges, S)
  BY <1>1 DEF Near
<1>3. {n} \in U /\ step \in [U -> U]
  BY <1>2
<1>4. PICK g \in [0 .. L -> U] : Recurses(g, L, {n}, step)
  <2> HIDE DEF L, U, step
  <2>1. QED
    BY <1>1, <1>3, Recursion, Zenon
<1>5. Is(g)
  <2>1. ASSUME NEW k \in 0 .. L, k # 0 PROVE step[g[k - 1]] = Near(edges, g[k - 1])
    <3>1. k - 1 \in 0 .. L
      BY <1>1, <2>1
    <3>2. g[k - 1] \in U
      BY <1>4, <3>1
    <3>3. QED
      BY <3>2
  <2> HIDE DEF L, U, step
  <2>2. QED
    BY <1>4, <2>1 DEF Recurses
<1>6. Is(reach)
  BY <1>5, Zenon
<1>7. Connected(f, edges, n) = {m \in Node : m \in reach[L]}
  BY DEF Connected
<1> HIDE DEF reach
<1>8. reach[0] = {n} /\ \A k \in Nat : k + 1 <= L => reach[k + 1] = Near(edges, reach[k])
  <2>1. reach[0] = {n}
    BY <1>1, <1>6
  <2>2. ASSUME NEW k \in Nat, k + 1 <= L PROVE reach[k + 1] = Near(edges, reach[k])
    <3>1. k + 1 \in 0 .. L /\ k + 1 # 0 /\ (k + 1) - 1 = k
      BY <1>1, <2>2
    <3>2. reach[k + 1] = Near(edges, reach[(k + 1) - 1])
      <4> HIDE DEF L
      <4>1. QED
        BY <1>6, <3>1, Zenon
    <3>3. QED
      BY <3>1, <3>2
  <2>3. QED
    BY <2>1, <2>2
<1> DEFINE Found(k) == /\ reach[k] \in U
                       /\ Near(edges, reach[k]) = reach[k] \/ Cardinality(reach[k]) >= k + 1
           T == {k \in Nat : k <= L => Found(k)}
<1>9. 0 \in T
  <2>1. Cardinality({n}) = 1
    <3>1. Cardinality({} \cup {n}) = 0 + 1
      BY FS_EmptySet, FS_AddElement
    <3>2. {} \cup {n} = {n}
      OBVIOUS
    <3>3. QED
      BY <3>1, <3>2
  <2>2. reach[0] \in U /\ Cardinality(reach[0]) >= 0 + 1
    BY <1>3, <1>8, <2>1
  <2>3. QED
    BY <2>2
<1>10. ASSUME NEW k \in Nat, k \in T PROVE k + 1 \in T
  <2> SUFFICES ASSUME k + 1 <= L PROVE Found(k + 1)
    OBVIOUS
  <2>1. Found(k) /\ reach[k + 1] = Near(edges, reach[k])
    BY <1>1, <1>8, <1>10
  <2>2. reach[k + 1] \in U /\ reach[k] \subseteq reach[k + 1]
    BY <1>2, <2>1
  <2>3. CASE reach[k + 1] = reach[k]
    BY <2>1, <2>2, <2>3
  <2>4. CASE reach[k + 1] # reach[k]
    <3>1. Cardinality(reach[k]) >= k + 1
      BY <2>1, <2>4
    <3>2. IsFiniteSet(reach[k + 1])
      BY <2>2, FlowBuildAssumption, FS_Subset
    <3>3. /\ Cardinality(reach[k]) \in Nat /\ Cardinality(reach[k + 1]) \in Nat
          /\ Cardinality(reach[k]) <= Cardinality(reach[k + 1])
          /\ Cardinality(reach[k]) # Cardinality(reach[k + 1])
      BY <2>2, <2>4, <3>2, FS_Subset, FS_CardinalityType
    <3>4. QED
      BY <2>2, <3>1, <3>3
  <2>5. QED
    BY <2>3, <2>4
<1>11. Found(L)
  <2>1. \A k \in Nat : k \in T
    <3> HIDE DEF T
    <3>1. QED
      BY <1>9, <1>10, Inductive
  <2>2. QED
    BY <1>1, <2>1
<1>12. Near(edges, reach[L]) = reach[L]
  <2>1. Cardinality(reach[L]) \in Nat /\ Cardinality(reach[L]) <= Cardinality(Node)
    BY <1>11, FlowBuildAssumption, FS_Subset, FS_CardinalityType
  <2>2. ~ (Cardinality(reach[L]) >= L + 1)
    BY <1>1, <2>1
  <2>3. QED
    BY <1>11, <2>2
<1>13. QED
  BY <1>1, <1>7, <1>12 DEF Near

\* An edge that does not leave the decision joins nodes that are ignored together.
LEMMA IgnoredIsWhole ==
  ASSUME NEW f \in Flows, NEW n \in Node, NEW gone \in Ignored(f, n),
         NEW e \in f.edges, e.src # n
  PROVE  e.src \in gone <=> e.tgt \in gone
<1>1. CASE gone = {}
  BY <1>1
<1>2. CASE gone # {}
  <2>1. PICK side \in BOOLEAN : gone \in Untaken(f, n, side)
    BY <1>2 DEF Ignored
  <2> DEFINE other == {x \in f.edges : x.src = n /\ x.out # side}
  <2>2. PICK first \in other : gone = Connected(f, f.edges \ other, first.tgt)
    BY <1>2, <2>1 DEF Untaken
  <2>3. f.edges \ other \in SUBSET f.edges /\ first.tgt \in Node
    BY Listed
  <2>4. e \in f.edges \ other
    OBVIOUS
  <2> HIDE DEF other
  <2>5. QED
    BY <2>2, <2>3, <2>4, ConnectedIsClosed
<1>3. QED
  BY <1>1, <1>2

-----------------------------------------------------------------------------
(* The build keeps to the order and reaches its nodes *)

\* What is initialised, and what is in the queue, has its inputs initialised.
Fed ==
    /\ \A n \in initialized : Sources(flow, n) \subseteq initialized
    /\ \A i \in 1 .. Len(nodeQueue) : Sources(flow, nodeQueue[i].node) \subseteq initialized

\* What a decision takes along is connected: along an edge, both nodes are ignored or none
\* is, unless the first one has been initialised, as the decision itself.
Whole ==
    \A e \in flow.edges :
        /\ e.tgt \in ignoreNodes => e.src \in ignoreNodes \cup initialized
        /\ e.src \in ignoreNodes \ initialized => e.tgt \in ignoreNodes

\* A node is queued at a depth no less than the length of a way to it, and no node is
\* initialised before its depth comes up.
Climbed ==
    \A k \in 0 .. Len(flow.nodes) : \A i \in 1 .. Len(nodeQueue) :
        /\ nodeQueue[i].node \in Behind(flow)[k] => k <= nodeQueue[i].depth
        /\ initialized \cap Behind(flow)[k] # {} => k <= nodeQueue[i].depth

\* In a prediction the last input of a node calls it.
Called ==
    ~ Upserts(flow) =>
        /\ \A n \in Node : Targets(flow, n) \subseteq graph[n]
        /\ \A n \in Node \ (initialized \cup ignoreNodes) :
              Sources(flow, n) # {} /\ Sources(flow, n) \subseteq initialized => n \in DOMAIN exploredNode

\* Depth d has come up: a node was queued for it, or initialised at the depth before.
Reached(d) ==
    \/ d = 0
    \/ \E n \in DOMAIN exploredNode : d <= exploredNode[n].lastSeenDepth
    \/ \E k \in 0 .. Len(flow.nodes) : d <= k + 1 /\ initialized \cap Behind(flow)[k] # {}

\* When its depth comes up, a node without inputs is queued; in an upsert every node is
\* whose inputs are initialised.
Brought ==
    \A n \in DOMAIN depthQueue \ (initialized \cup ignoreNodes) :
        Sources(flow, n) \subseteq (IF Upserts(flow) THEN initialized ELSE {}) /\ Reached(depthQueue[n])
            => n \in DOMAIN exploredNode

\* An upsert takes a node at its depth only, so once: of the reversed graph a turn has
\* only nodes that are initialised.
AtItsDepth ==
    Upserts(flow) =>
        /\ \A i \in 1 .. Len(nodeQueue) :
              /\ nodeQueue[i].node \in DOMAIN depthQueue \ initialized
              /\ nodeQueue[i].depth = depthQueue[nodeQueue[i].node]
        /\ \A n \in Node \ initialized : graph[n] = Sources(flow, n)

BuildInv ==
    /\ QueueInv /\ UpsertBuildsOnce
    /\ depthQueue = DepthQueue(flow)
    /\ phase = "building" => /\ Fed /\ Whole /\ Climbed /\ Called /\ Brought /\ AtItsDepth
                             /\ flow.stop \notin initialized

(***************************************************************************)
(* What a turn does, for the invariant: `new' is queued at the depth below *)
(* the head's, and all that is due is in it.                               *)
(***************************************************************************)
Turned(n, new) ==
    LET d == nodeQueue[1].depth + 1
    IN  /\ 1 \in 1 .. Len(nodeQueue) /\ nodeQueue[1].depth \in Nat
        /\ n = nodeQueue[1].node /\ n # flow.stop
        /\ flow \in Flows /\ flow' = flow /\ depthQueue' = depthQueue /\ phase' = phase
        /\ initialized' = initialized \cup {n} /\ ignoreNodes \subseteq ignoreNodes'
        /\ graph \in [Node -> SUBSET Node] /\ graph' = [graph EXCEPT ![n] = Neighbours(n, d)]
        /\ \A i \in 1 .. Len(nodeQueue') :
              \/ \E j \in 2 .. Len(nodeQueue) : nodeQueue'[i] = nodeQueue[j]
              \/ nodeQueue'[i].node \in new /\ nodeQueue'[i].depth = d
        /\ DOMAIN exploredNode' = DOMAIN exploredNode \cup new
        /\ \A m \in new : exploredNode'[m].lastSeenDepth = d
        /\ \A m \in DOMAIN exploredNode \ new : exploredNode'[m] = exploredNode[m]
        /\ \A m \in new : /\ m \in Neighbours(n, d) \ ignoreNodes'
                          /\ m \notin initialized' /\ Sources(flow, m) \subseteq initialized'
        /\ \A m \in Neighbours(n, d) \ ignoreNodes' :
              m \notin initialized' /\ Sources(flow, m) \subseteq initialized'
                  => m \in DOMAIN exploredNode'

LEMMA TurnIs ==
  ASSUME QueueInv, NEW n \in Node, Visit(n)
  PROVE  \E new : Turned(n, new)
<1>1. phase = "building" /\ nodeQueue # <<>> /\ n = Head(nodeQueue).node /\ TypeOK /\ Loops
  BY DEF Visit, Turn, QueueInv
<1> DEFINE d == Head(nodeQueue).depth + 1
           neighbours == Neighbours(n, d) \ ignoreNodes'
           due == {m \in neighbours : Due(m, initialized', d)}
<1>2. \A m \in Node : ~ Spent(m)
  BY <1>1, LoopsLeft
<1>3. due \subseteq Node
  BY <1>1 DEF TypeOK, Neighbours
<1>4. Pushes(due) = {due}
  BY <1>2, <1>3 DEF Pushes
<1>5. /\ graph' = [graph EXCEPT ![n] = Neighbours(n, d)]
      /\ \E order \in Orders(due) :
              /\ nodeQueue' = Tail(nodeQueue) \o Entries(order, d)
              /\ exploredNode' = [m \in DOMAIN exploredNode \cup due |->
                                    IF m \in due THEN Seen(m, d) ELSE exploredNode[m]]
  BY <1>4 DEF Visit, PushNext
<1>6. PICK order \in Orders(due) :
              /\ nodeQueue' = Tail(nodeQueue) \o Entries(order, d)
              /\ exploredNode' = [m \in DOMAIN exploredNode \cup due |->
                                    IF m \in due THEN Seen(m, d) ELSE exploredNode[m]]
  BY <1>5
<1>7. IsFiniteSet(due)
  BY <1>3, FlowBuildAssumption, FS_Subset
<1>8. /\ order \in Seq(due) /\ DOMAIN order = 1 .. Len(order)
      /\ \A i, j \in DOMAIN order : order[i] = order[j] => i = j
      /\ \A m \in due : \E i \in DOMAIN order : order[i] = m
  BY <1>7, OrdersAreSequences
<1>9. \A m \in due : Due(m, initialized', d) /\ ~ Spent(m)
  BY <1>2, <1>3
<1>10. Pushed(n, due, order)
  BY <1>3, <1>6, <1>8, <1>9 DEF Pushed
<1> HIDE DEF due
<1>11. /\ Len(nodeQueue') = Len(nodeQueue) - 1 + Len(order)
       /\ \A i \in 1 .. Len(nodeQueue) - 1 : nodeQueue'[i] = nodeQueue[i + 1]
       /\ \A i \in 1 .. Len(order) :
              /\ nodeQueue'[Len(nodeQueue) - 1 + i].node = order[i]
              /\ nodeQueue'[Len(nodeQueue) - 1 + i].depth = nodeQueue[1].depth + 1
       /\ Head(nodeQueue) = nodeQueue[1] /\ nodeQueue[1] \in Entry
  <2> HIDE DEF d
  <2>1. TypeOK /\ nodeQueue # <<>> /\ Pushed(n, due, order)
    BY <1>1, <1>10
  <2>2. QED
    BY <2>1, PushedEntries, Zenon
<1>12. /\ Len(nodeQueue) \in Nat \ {0} /\ Len(order) \in Nat
       /\ \A i \in 1 .. Len(order) : order[i] \in due
  BY <1>1, <1>8 DEF TypeOK
<1>13. ASSUME NEW i \in 1 .. Len(nodeQueue')
       PROVE  \/ \E j \in 2 .. Len(nodeQueue) : nodeQueue'[i] = nodeQueue[j]
              \/ nodeQueue'[i].node \in due /\ nodeQueue'[i].depth = nodeQueue[1].depth + 1
  <2>1. CASE i <= Len(nodeQueue) - 1
    <3>1. i \in 1 .. Len(nodeQueue) - 1 /\ i + 1 \in 2 .. Len(nodeQueue)
      BY <1>12, <2>1
    <3>2. QED
      BY <1>11, <3>1
  <2>2. CASE ~ (i <= Len(nodeQueue) - 1)
    <3> DEFINE k == i - (Len(nodeQueue) - 1)
    <3>1. k \in 1 .. Len(order) /\ i = Len(nodeQueue) - 1 + k
      BY <1>11, <1>12, <2>2
    <3> HIDE DEF k
    <3>2. QED
      BY <1>11, <1>12, <3>1
  <2>3. QED
    BY <2>1, <2>2
<1>14. 1 \in 1 .. Len(nodeQueue) /\ nodeQueue[1].depth \in Nat /\ n = nodeQueue[1].node
       /\ d = nodeQueue[1].depth + 1
  BY <1>1, <1>11, <1>12 DEF Entry
<1>15. /\ n # flow.stop /\ flow' = flow /\ depthQueue' = depthQueue /\ phase' = phase
       /\ initialized' = initialized \cup {n} /\ ignoreNodes \subseteq ignoreNodes'
  BY DEF Visit
<1>16. flow \in Flows /\ graph \in [Node -> SUBSET Node]
  BY <1>1 DEF TypeOK
<1>17. /\ DOMAIN exploredNode' = DOMAIN exploredNode \cup due
       /\ \A m \in due : exploredNode'[m].lastSeenDepth = d
       /\ \A m \in DOMAIN exploredNode \ due : exploredNode'[m] = exploredNode[m]
  BY <1>6 DEF Seen
<1>18. \A m \in due : /\ m \in neighbours /\ m \notin initialized'
                      /\ Sources(flow, m) \subseteq initialized'
  BY DEF due, Due
<1>19. \A m \in neighbours : m \notin initialized' /\ Sources(flow, m) \subseteq initialized'
                               => m \in DOMAIN exploredNode'
  BY <1>17 DEF due, Due
<1>20. graph' = [graph EXCEPT ![n] = Neighbours(n, d)]
  BY <1>5
<1> HIDE DEF d
<1>21. Turned(n, due)
  BY <1>13, <1>14, <1>15, <1>16, <1>17, <1>18, <1>19, <1>20 DEF Turned
<1>22. QED
  BY <1>21

LEMMA QueueEntries ==
  ASSUME TypeOK
  PROVE  /\ Len(nodeQueue) \in Nat
         /\ \A i \in 1 .. Len(nodeQueue) :
               nodeQueue[i] \in Entry /\ nodeQueue[i].node \in Node /\ nodeQueue[i].depth \in Nat
<1>1. nodeQueue \in Seq(Entry)
  BY DEF TypeOK, Entry
<1>2. Len(nodeQueue) \in Nat /\ \A i \in 1 .. Len(nodeQueue) : nodeQueue[i] \in Entry
  BY <1>1
<1>3. QED
  BY <1>2 DEF Entry

LEMMA FedTurn ==
  ASSUME Fed, NEW n, NEW new, Turned(n, new)
  PROVE  Fed'
<1>1. /\ 1 \in 1 .. Len(nodeQueue) /\ n = nodeQueue[1].node
      /\ flow' = flow /\ initialized' = initialized \cup {n}
      /\ \A i \in 1 .. Len(nodeQueue') :
            (\E j \in 2 .. Len(nodeQueue) : nodeQueue'[i] = nodeQueue[j]) \/ nodeQueue'[i].node \in new
      /\ \A m \in new : Sources(flow, m) \subseteq initialized'
  BY DEF Turned
<1>2. \A m \in initialized' : Sources(flow, m) \subseteq initialized'
  BY <1>1 DEF Fed
<1>3. ASSUME NEW i \in 1 .. Len(nodeQueue')
      PROVE  Sources(flow, nodeQueue'[i].node) \subseteq initialized'
  <2>1. CASE \E j \in 2 .. Len(nodeQueue) : nodeQueue'[i] = nodeQueue[j]
    <3>1. PICK j \in 2 .. Len(nodeQueue) : nodeQueue'[i] = nodeQueue[j]
      BY <2>1
    <3>2. j \in 1 .. Len(nodeQueue)
      BY <1>1, <3>1
    <3>3. QED
      BY <1>1, <3>1, <3>2 DEF Fed
  <2>2. CASE nodeQueue'[i].node \in new
    BY <1>1, <2>2
  <2>3. QED
    BY <1>1, <2>1, <2>2
<1>4. QED
  BY <1>1, <1>2, <1>3 DEF Fed

LEMMA WholeTurn ==
  ASSUME TypeOK, Whole, NEW n \in Node, Visit(n)
  PROVE  Whole'
<1>1. flow \in Flows /\ flow' = flow /\ initialized' = initialized \cup {n}
  BY DEF Visit, TypeOK
<1>2. PICK gone \in Ignored(flow, n) : ignoreNodes' = ignoreNodes \cup gone
  BY DEF Visit
<1>3. ASSUME NEW e \in flow.edges
      PROVE  /\ e.tgt \in ignoreNodes' => e.src \in ignoreNodes' \cup initialized'
             /\ e.src \in ignoreNodes' \ initialized' => e.tgt \in ignoreNodes'
  <2>1. CASE e.src = n
    BY <1>1, <2>1
  <2>2. CASE e.src # n
    <3>1. e.src \in gone <=> e.tgt \in gone
      BY <1>1, <2>2, IgnoredIsWhole
    <3>2. QED
      BY <1>1, <1>2, <3>1 DEF Whole
  <2>3. QED
    BY <2>1, <2>2
<1>4. QED
  BY <1>1, <1>3 DEF Whole

LEMMA ClimbedTurn ==
  ASSUME TypeOK, Layers, Climbed, NEW n \in Node, NEW new, new \subseteq Node, Turned(n, new)
  PROVE  Climbed'
<1> DEFINE h == nodeQueue[1].depth
           B == Behind(flow)
           L == Len(flow.nodes)
<1>1. /\ 1 \in 1 .. Len(nodeQueue) /\ h \in Nat /\ n = nodeQueue[1].node
      /\ flow \in Flows /\ flow' = flow /\ initialized' = initialized \cup {n}
      /\ \A i \in 1 .. Len(nodeQueue') :
            \/ \E j \in 2 .. Len(nodeQueue) : nodeQueue'[i] = nodeQueue[j]
            \/ nodeQueue'[i].node \in new /\ nodeQueue'[i].depth = h + 1
      /\ \A m \in new : Sources(flow, m) \subseteq initialized'
  BY DEF Turned
<1>2. \A k \in 0 .. L : /\ n \in B[k] => k <= h
                        /\ initialized \cap B[k] # {} => k <= h
  BY <1>1 DEF Climbed
<1>3. \A k \in 0 .. L : initialized' \cap B[k] # {} => k <= h
  BY <1>1, <1>2
<1>4. /\ B[0] = Node
      /\ \A k \in Nat : k + 1 <= L => B[k + 1] = {m \in Node : Sources(flow, m) \cap B[k] # {}}
  BY <1>1, BehindIs
<1>5. L \in Nat
  BY <1>1, Listed
<1>6. \A j \in 2 .. Len(nodeQueue) : j \in 1 .. Len(nodeQueue) /\ h <= nodeQueue[j].depth
                                     /\ nodeQueue[j].depth \in Nat
  <2>1. Len(nodeQueue) \in Nat /\ \A j \in 1 .. Len(nodeQueue) : nodeQueue[j].depth \in Nat
    BY QueueEntries
  <2>2. QED
    BY <1>1, <2>1 DEF Layers
<1> HIDE DEF B, L, h
<1>7. ASSUME NEW m \in new, NEW k \in 0 .. L, m \in B[k] PROVE k <= h + 1
  <2>1. CASE k = 0
    BY <1>1, <2>1
  <2>2. CASE k # 0
    <3>1. k - 1 \in Nat /\ (k - 1) + 1 = k /\ k <= L /\ k - 1 \in 0 .. L
      BY <1>5, <2>2
    <3>2. Sources(flow, m) \cap B[k - 1] # {}
      BY <1>4, <1>7, <3>1
    <3>3. initialized' \cap B[k - 1] # {}
      BY <1>1, <3>2
    <3>4. k - 1 <= h
      BY <1>3, <3>1, <3>3
    <3>5. QED
      BY <1>1, <3>4
  <2>3. QED
    BY <2>1, <2>2
<1>8. ASSUME NEW k \in 0 .. L, NEW i \in 1 .. Len(nodeQueue')
      PROVE  /\ nodeQueue'[i].node \in B[k] => k <= nodeQueue'[i].depth
             /\ initialized' \cap B[k] # {} => k <= nodeQueue'[i].depth
  <2>1. CASE \E j \in 2 .. Len(nodeQueue) : nodeQueue'[i] = nodeQueue[j]
    <3>1. PICK j \in 2 .. Len(nodeQueue) : nodeQueue'[i] = nodeQueue[j]
      BY <2>1
    <3>2. nodeQueue[j].node \in B[k] => k <= nodeQueue[j].depth
      BY <1>6 DEF Climbed, B, L
    <3>3. initialized' \cap B[k] # {} => k <= nodeQueue[j].depth
      BY <1>1, <1>3, <1>6
    <3>4. QED
      BY <3>1, <3>2, <3>3
  <2>2. CASE nodeQueue'[i].node \in new /\ nodeQueue'[i].depth = h + 1
    <3>1. initialized' \cap B[k] # {} => k <= h + 1
      BY <1>1, <1>3
    <3>2. QED
      BY <1>7, <2>2, <3>1
  <2>3. QED
    BY <1>1, <2>1, <2>2
<1>9. B' = B /\ L' = L
  BY <1>1 DEF B, L
<1>10. QED
  BY <1>8, <1>9 DEF Climbed, B, L

LEMMA CalledTurn ==
  ASSUME Called, NEW n \in Node, NEW new, Turned(n, new)
  PROVE  Called'
<1> DEFINE d == nodeQueue[1].depth + 1
<1>1. /\ flow' = flow /\ initialized' = initialized \cup {n} /\ ignoreNodes \subseteq ignoreNodes'
      /\ graph \in [Node -> SUBSET Node] /\ graph' = [graph EXCEPT ![n] = Neighbours(n, d)]
      /\ DOMAIN exploredNode' = DOMAIN exploredNode \cup new
      /\ \A m \in Neighbours(n, d) \ ignoreNodes' :
            m \notin initialized' /\ Sources(flow, m) \subseteq initialized' => m \in DOMAIN exploredNode'
  BY DEF Turned
<1> HIDE DEF d
<1>2. graph[n] \subseteq Neighbours(n, d)
  BY DEF Neighbours
<1> SUFFICES ASSUME ~ Upserts(flow)
             PROVE  /\ \A m \in Node : Targets(flow, m) \subseteq graph'[m]
                    /\ \A m \in Node \ (initialized' \cup ignoreNodes') :
                          Sources(flow, m) # {} /\ Sources(flow, m) \subseteq initialized'
                              => m \in DOMAIN exploredNode'
  BY <1>1 DEF Called
<1>3. \A m \in Node : Targets(flow, m) \subseteq graph'[m]
  BY <1>1, <1>2 DEF Called
<1>4. ASSUME NEW m \in Node \ (initialized' \cup ignoreNodes'),
             Sources(flow, m) # {}, Sources(flow, m) \subseteq initialized'
      PROVE  m \in DOMAIN exploredNode'
  <2>1. CASE n \in Sources(flow, m)
    <3>1. m \in Targets(flow, n)
      BY <2>1 DEF Sources, Targets
    <3>2. m \in Neighbours(n, d)
      BY <1>2, <3>1 DEF Called
    <3>3. QED
      BY <1>1, <1>4, <3>2
  <2>2. CASE n \notin Sources(flow, m)
    BY <1>1, <1>4, <2>2 DEF Called
  <2>3. QED
    BY <2>1, <2>2
<1>5. QED
  BY <1>3, <1>4

LEMMA AtItsDepthTurn ==
  ASSUME TypeOK, OncePerDepth, Fed, AtItsDepth, NEW n \in Node, NEW new, Turned(n, new)
  PROVE  AtItsDepth'
<1> DEFINE d == nodeQueue[1].depth + 1
<1>1. /\ flow' = flow /\ initialized' = initialized \cup {n} /\ depthQueue' = depthQueue
      /\ 1 \in 1 .. Len(nodeQueue) /\ n = nodeQueue[1].node
      /\ graph \in [Node -> SUBSET Node] /\ graph' = [graph EXCEPT ![n] = Neighbours(n, d)]
      /\ \A i \in 1 .. Len(nodeQueue') :
            \/ \E j \in 2 .. Len(nodeQueue) : nodeQueue'[i] = nodeQueue[j]
            \/ nodeQueue'[i].node \in new /\ nodeQueue'[i].depth = d
      /\ \A m \in new : m \in Neighbours(n, d) /\ m \notin initialized'
  BY DEF Turned
<1> HIDE DEF d
<1> SUFFICES ASSUME Upserts(flow)
             PROVE  /\ \A i \in 1 .. Len(nodeQueue') :
                          /\ nodeQueue'[i].node \in DOMAIN depthQueue \ initialized'
                          /\ nodeQueue'[i].depth = depthQueue[nodeQueue'[i].node]
                    /\ \A m \in Node \ initialized' : graph'[m] = Sources(flow, m)
  BY <1>1 DEF AtItsDepth
<1>2. \A i \in 1 .. Len(nodeQueue) : /\ nodeQueue[i].node \in DOMAIN depthQueue \ initialized
                                     /\ nodeQueue[i].depth = depthQueue[nodeQueue[i].node]
  BY DEF AtItsDepth
<1>3. \A m \in Node \ initialized' : graph'[m] = Sources(flow, m)
  BY <1>1 DEF AtItsDepth
<1>4. graph[n] \subseteq initialized
  <2>1. graph[n] = Sources(flow, n)
    BY <1>1, <1>2 DEF AtItsDepth
  <2>2. QED
    BY <1>1, <2>1 DEF Fed
<1>5. ASSUME NEW i \in 1 .. Len(nodeQueue')
      PROVE  /\ nodeQueue'[i].node \in DOMAIN depthQueue \ initialized'
             /\ nodeQueue'[i].depth = depthQueue[nodeQueue'[i].node]
  <2>1. CASE \E j \in 2 .. Len(nodeQueue) : nodeQueue'[i] = nodeQueue[j]
    <3>1. PICK j \in 2 .. Len(nodeQueue) : nodeQueue'[i] = nodeQueue[j]
      BY <2>1
    <3>2. j \in 1 .. Len(nodeQueue) /\ j # 1
      BY <1>1, <3>1
    <3>3. nodeQueue[j].node # n
      <4>1. nodeQueue[1] \in Entry /\ nodeQueue[j] \in Entry
        BY <1>1, <3>2, QueueEntries
      <4>2. SUFFICES ASSUME nodeQueue[j].node = n PROVE FALSE
        OBVIOUS
      <4>3. nodeQueue[j].depth = nodeQueue[1].depth
        BY <1>1, <1>2, <3>2, <4>2
      <4>4. nodeQueue[j] = nodeQueue[1]
        BY <1>1, <4>1, <4>2, <4>3 DEF Entry
      <4>5. QED
        BY <1>1, <3>2, <4>4 DEF OncePerDepth
    <3>4. QED
      BY <1>1, <1>2, <3>1, <3>2, <3>3
  <2>2. CASE nodeQueue'[i].node \in new /\ nodeQueue'[i].depth = d
    <3> DEFINE m == nodeQueue'[i].node
    <3>1. m \in Neighbours(n, d) /\ m \notin initialized'
      BY <1>1, <2>2
    <3>2. m \in DOMAIN depthQueue /\ depthQueue[m] = d
      BY <1>1, <1>4, <3>1 DEF Neighbours
    <3>3. QED
      BY <2>2, <3>1, <3>2
  <2>3. QED
    BY <1>1, <2>1, <2>2
<1>6. QED
  BY <1>3, <1>5

\* The depth goes up by one at most from a turn to the next: what a node is queued at
\* its depth for is asked in the turn before it comes up, or was asked earlier.
LEMMA BroughtTurn ==
  ASSUME TypeOK, depthQueue = DepthQueue(flow), SeenInOrder, Climbed, Climbed', AtItsDepth, Brought,
         NEW n \in Node, NEW new, new \subseteq Node, Turned(n, new)
  PROVE  Brought'
<1> DEFINE h == nodeQueue[1].depth
           B == Behind(flow)
           L == Len(flow.nodes)
           From(S) == IF Upserts(flow) THEN S ELSE {}
<1>1. /\ 1 \in 1 .. Len(nodeQueue) /\ h \in Nat /\ n = nodeQueue[1].node
      /\ flow \in Flows /\ flow' = flow /\ depthQueue' = depthQueue
      /\ initialized' = initialized \cup {n} /\ ignoreNodes \subseteq ignoreNodes'
      /\ DOMAIN exploredNode' = DOMAIN exploredNode \cup new
      /\ \A m \in new : exploredNode'[m].lastSeenDepth = h + 1
      /\ \A m \in DOMAIN exploredNode \ new : exploredNode'[m] = exploredNode[m]
      /\ \A m \in Neighbours(n, h + 1) \ ignoreNodes' :
            m \notin initialized' /\ Sources(flow, m) \subseteq initialized' => m \in DOMAIN exploredNode'
  BY DEF Turned
<1>2. /\ n \in DOMAIN exploredNode /\ h <= exploredNode[n].lastSeenDepth
      /\ \A x \in DOMAIN exploredNode : exploredNode[x].lastSeenDepth \in Nat
                                        /\ exploredNode[x].lastSeenDepth <= h + 1
  BY <1>1 DEF SeenInOrder, TypeOK
<1>3. \A k \in 0 .. L : initialized' \cap B[k] # {} => k <= h
  BY <1>1 DEF Climbed
<1>4. \A m \in DOMAIN depthQueue : depthQueue[m] \in Nat
  BY <1>1, StartsAre
<1> HIDE DEF B, L, h
<1> SUFFICES ASSUME NEW m \in DOMAIN depthQueue \ (initialized' \cup ignoreNodes'),
                    Sources(flow, m) \subseteq From(initialized'), Reached(depthQueue[m])'
             PROVE  m \in DOMAIN exploredNode'
  BY <1>1 DEF Brought
<1> DEFINE q == depthQueue[m]
<1>5. q \in Nat
  BY <1>4
<1>6. /\ Reached(q) <=> \/ q = 0
                        \/ \E x \in DOMAIN exploredNode : q <= exploredNode[x].lastSeenDepth
                        \/ \E k \in 0 .. L : q <= k + 1 /\ initialized \cap B[k] # {}
      /\ \/ q = 0
         \/ \E x \in DOMAIN exploredNode' : q <= exploredNode'[x].lastSeenDepth
         \/ \E k \in 0 .. L : q <= k + 1 /\ initialized' \cap B[k] # {}
  BY <1>1 DEF Reached, B, L
<1> HIDE DEF q
<1>7. q <= h \/ q = h + 1
  <2>1. CASE q = 0
    BY <1>1, <2>1
  <2>2. CASE \E x \in DOMAIN exploredNode' : q <= exploredNode'[x].lastSeenDepth
    BY <1>1, <1>2, <1>5, <2>2
  <2>3. CASE \E k \in 0 .. L : q <= k + 1 /\ initialized' \cap B[k] # {}
    BY <1>1, <1>3, <1>5, <2>3
  <2>4. QED
    BY <1>6, <2>1, <2>2, <2>3
<1>8. CASE q = h + 1
  <2>1. m \in Neighbours(n, h + 1)
    BY <1>8 DEF Neighbours, q
  <2>2. QED
    BY <1>1, <2>1
<1>9. CASE q <= h
  <2>1. Reached(q)
    BY <1>1, <1>2, <1>5, <1>6, <1>9
  <2>2. CASE Sources(flow, m) \subseteq From(initialized)
    <3>1. m \in DOMAIN exploredNode
      BY <1>1, <2>1, <2>2 DEF Brought, q
    <3>2. QED
      BY <1>1, <3>1
  <2>3. CASE ~ (Sources(flow, m) \subseteq From(initialized))
    <3>1. Upserts(flow) /\ n \in Sources(flow, m)
      BY <1>1, <2>3
    <3>2. depthQueue[n] < q
      BY <1>1, <3>1, StartsAre DEF q
    <3>3. depthQueue[n] = h
      BY <1>1, <3>1 DEF AtItsDepth, h
    <3>4. QED
      BY <1>1, <1>5, <1>9, <3>2, <3>3
  <2>4. QED
    BY <2>2, <2>3
<1>10. QED
  BY <1>7, <1>8, <1>9

LEMMA BuildInit == Init => BuildInv
<1> SUFFICES ASSUME Init PROVE BuildInv
  OBVIOUS
<1> DEFINE starts == StartingNodes(flow)
<1>1. QueueInv /\ TypeOK
  BY QueueInit DEF QueueInv
<1>2. /\ flow \in Flows /\ depthQueue = DepthQueue(flow) /\ initialized = {} /\ ignoreNodes = {}
      /\ graph = [n \in Node |-> IF Upserts(flow) THEN Sources(flow, n) ELSE Targets(flow, n)]
      /\ built = [n \in Node |-> 0]
      /\ exploredNode = [n \in starts |-> [remainingLoop |-> MaxLoop, lastSeenDepth |-> 0]]
  BY DEF Init
<1>3. PICK order \in Orders(starts) : nodeQueue = Entries(order, 0)
  BY DEF Init
<1>4. \A i \in 1 .. Len(nodeQueue) : nodeQueue[i].node \in starts /\ nodeQueue[i].depth = 0
  <2>1. starts \subseteq Node /\ IsFiniteSet(starts)
    BY <1>2, FlowTypes, FlowBuildAssumption, FS_Subset
  <2>2. order \in Seq(starts)
    BY <2>1, OrdersAreSequences
  <2>3. /\ Len(nodeQueue) = Len(order)
        /\ \A i \in 1 .. Len(order) : nodeQueue[i].node = order[i] /\ nodeQueue[i].depth = 0
    BY <1>3, <2>1, <2>2, EntriesAreSequences
  <2>4. \A i \in 1 .. Len(order) : order[i] \in starts
    BY <2>2
  <2>5. QED
    BY <2>3, <2>4
<1>5. /\ \A n \in starts : Sources(flow, n) = {} /\ n \in DOMAIN depthQueue
      /\ \A n \in DOMAIN depthQueue : depthQueue[n] \in Nat /\ (depthQueue[n] = 0 => n \in starts)
      /\ Upserts(flow) => \A n \in starts : depthQueue[n] = 0
  BY <1>2, StartsAre
<1> HIDE DEF starts
<1>6. Fed
  BY <1>2, <1>4, <1>5 DEF Fed
<1>7. Whole
  BY <1>2 DEF Whole
<1>8. Climbed
  <2> SUFFICES ASSUME NEW k \in 0 .. Len(flow.nodes), NEW i \in 1 .. Len(nodeQueue),
                      nodeQueue[i].node \in Behind(flow)[k]
               PROVE  k <= nodeQueue[i].depth
    BY <1>2 DEF Climbed
  <2>1. CASE k = 0
    BY <1>4, <2>1
  <2>2. CASE k # 0
    <3>1. Len(flow.nodes) \in Nat
      BY <1>2, Listed
    <3>2. k - 1 \in Nat /\ (k - 1) + 1 = k /\ k <= Len(flow.nodes)
      BY <2>2, <3>1
    <3>3. Behind(flow)[k] = {n \in Node : Sources(flow, n) \cap Behind(flow)[k - 1] # {}}
      BY <1>2, <3>2, BehindIs
    <3>4. QED
      BY <1>4, <1>5, <3>3
  <2>3. QED
    BY <2>1, <2>2
<1>9. Called
  BY <1>2 DEF Called
<1>10. Brought
  <2> SUFFICES ASSUME NEW n \in DOMAIN depthQueue, Reached(depthQueue[n])
               PROVE  n \in DOMAIN exploredNode
    BY DEF Brought
  <2>1. depthQueue[n] = 0
    BY <1>2, <1>5 DEF Reached
  <2>2. QED
    BY <1>2, <1>5, <2>1
<1>11. AtItsDepth
  BY <1>2, <1>4, <1>5 DEF AtItsDepth
<1>12. UpsertBuildsOnce
  BY <1>2 DEF UpsertBuildsOnce
<1>13. QED
  BY <1>1, <1>2, <1>6, <1>7, <1>8, <1>9, <1>10, <1>11, <1>12 DEF BuildInv

LEMMA BuildTurn ==
  ASSUME BuildInv, phase = "building", QueueInv', NEW n \in Node, Visit(n)
  PROVE  BuildInv'
<1>1. /\ QueueInv /\ TypeOK /\ Layers /\ OncePerDepth /\ SeenInOrder /\ Counted /\ UpsertBuildsOnce
      /\ depthQueue = DepthQueue(flow)
      /\ Fed /\ Whole /\ Climbed /\ Called /\ Brought /\ AtItsDepth /\ flow.stop \notin initialized
  BY DEF BuildInv, QueueInv
<1>2. PICK new : Turned(n, new)
  BY <1>1, TurnIs
<1>3. /\ flow' = flow /\ depthQueue' = depthQueue /\ n # flow.stop
      /\ initialized' = initialized \cup {n}
      /\ 1 \in 1 .. Len(nodeQueue) /\ n = nodeQueue[1].node
      /\ \A m \in new : m \in Neighbours(n, nodeQueue[1].depth + 1)
      /\ flow \in Flows
  BY <1>2 DEF Turned
<1>4. new \subseteq Node
  BY <1>1, <1>3 DEF Neighbours, TypeOK
<1>5. Fed' /\ Called'
  BY <1>1, <1>2, FedTurn, CalledTurn
<1>6. Whole'
  BY <1>1, WholeTurn
<1>7. Climbed'
  BY <1>1, <1>2, <1>4, ClimbedTurn
<1>8. Brought'
  BY <1>1, <1>2, <1>4, <1>7, BroughtTurn
<1>9. AtItsDepth'
  BY <1>1, <1>2, AtItsDepthTurn
<1>10. UpsertBuildsOnce'
  <2> SUFFICES ASSUME Upserts(flow), NEW m \in Node PROVE built'[m] <= 1
    BY <1>3 DEF UpsertBuildsOnce
  <2>1. built \in [Node -> Nat] /\ built[m] <= 1
    BY <1>1 DEF TypeOK, UpsertBuildsOnce
  <2>2. built[n] = 0
    BY <1>1, <1>3 DEF AtItsDepth, Counted, CountedFor
  <2>3. QED
    BY <2>1, <2>2 DEF Visit
<1>11. QED
  BY <1>1, <1>3, <1>5, <1>6, <1>7, <1>8, <1>9, <1>10 DEF BuildInv

LEMMA BuildStep == BuildInv /\ [Next]_vars => BuildInv'
<1> SUFFICES ASSUME BuildInv, [Next]_vars PROVE BuildInv'
  OBVIOUS
<1>1. QueueInv' /\ QueueInv
  BY QueueStep DEF BuildInv
<1>2. ASSUME NEW n \in Node, Visit(n) PROVE BuildInv'
  <2>1. phase = "building"
    BY <1>2 DEF Visit, Turn
  <2>2. QED
    BY <1>1, <1>2, <2>1, BuildTurn
<1>3. ASSUME NEW n \in Node, Upsert(n) PROVE BuildInv'
  <2>1. /\ phase = "building" /\ nodeQueue # <<>> /\ n = Head(nodeQueue).node /\ n = flow.stop
        /\ built' = [built EXCEPT ![n] = @ + 1] /\ phase' = "done"
        /\ flow' = flow /\ depthQueue' = depthQueue
    BY <1>3 DEF Upsert, Turn
  <2>2. n \notin initialized /\ Counted /\ TypeOK /\ UpsertBuildsOnce
    BY <2>1 DEF BuildInv, QueueInv
  <2>3. built[n] = 0 /\ built \in [Node -> Nat]
    BY <2>2 DEF Counted, CountedFor, TypeOK
  <2>4. UpsertBuildsOnce'
    BY <2>1, <2>2, <2>3 DEF UpsertBuildsOnce
  <2>5. QED
    BY <1>1, <2>1, <2>4 DEF BuildInv
<1>4. CASE Fail \/ Finish
  BY <1>1, <1>4 DEF Fail, Finish, BuildInv, UpsertBuildsOnce
<1>5. CASE UNCHANGED vars
  BY <1>1, <1>5 DEF vars, BuildInv, UpsertBuildsOnce, Fed, Whole, Climbed, Called, Brought, Reached,
                    AtItsDepth
<1>6. QED
  BY <1>2, <1>3, <1>4, <1>5 DEF Next

(***************************************************************************)
(* When the queue is empty every node that leads to an end is initialised  *)
(* or ignored. Otherwise take the last end that such a node leads to: what *)
(* leads there is not ignored, since that would be all of it, and has its  *)
(* depth from this end. The least deep of it has its inputs initialised    *)
(* and its depth has come up, so it would be in the queue.                 *)
(***************************************************************************)
LEMMA BuildIsComplete ==
  ASSUME BuildInv, phase = "building", nodeQueue = <<>>
  PROVE  DOMAIN depthQueue \ ignoreNodes \subseteq initialized
<1>1. /\ flow \in Flows /\ depthQueue = DepthQueue(flow)
      /\ Loops /\ Fed /\ Whole /\ Called /\ Brought
  BY DEF BuildInv, QueueInv, TypeOK
<1>2. \A n \in DOMAIN exploredNode : n \in initialized
  BY <1>1 DEF Loops, QueuedAt
<1> SUFFICES ASSUME NEW m0 \in DOMAIN depthQueue, m0 \notin ignoreNodes, m0 \notin initialized
             PROVE  FALSE
  OBVIOUS
<1> DEFINE Done == ignoreNodes \cup initialized
<1>3. PICK N \in Nat : DOMAIN Ends(flow) = 1 .. N /\ \A i \in 1 .. N : Ends(flow)[i] \in Node
  BY <1>1, EndsAre
<1> DEFINE T == {i \in 1 .. N : \E m \in DOMAIN Depths(flow)[i] : m \notin Done}
<1>4. PICK i \in T : \A j \in T : j <= i
  <2>1. T \in SUBSET (0 .. N) /\ T # {}
    BY <1>1, <1>3, Merged
  <2> HIDE DEF T
  <2>2. QED
    BY <2>1, LargestIs
<1> DEFINE end == Ends(flow)[i]
           d == Depths(flow)[i]
<1>5. PICK far \in Nat : Descends(flow, end, d, far)
  BY <1>1, <1>3, DepthsDescend, Merged
<1>6. /\ far < Len(flow.nodes) /\ DOMAIN d \subseteq Node /\ end \in DOMAIN d
      /\ \A n \in DOMAIN d : d[n] \in 0 .. far
      /\ \A n \in DOMAIN d : \A s \in Sources(flow, n) : s \in DOMAIN d /\ d[s] < d[n]
      /\ \A n \in DOMAIN d \ {end} : \E m \in DOMAIN d : n \in Sources(flow, m)
      /\ \A j \in 0 .. far : \E x \in DOMAIN d : d[x] <= j /\ x \in Behind(flow)[j]
  BY <1>5 DEF Descends
<1>7. \E m \in DOMAIN d : m \notin Done
  OBVIOUS
<1>8. \A j \in 1 .. N : \A m \in DOMAIN Depths(flow)[j] : m \in Done \/ j <= i
  BY <1>4
<1> HIDE DEF T, d, end
<1>9. ASSUME NEW m, NEW s \in Sources(flow, m)
      PROVE  /\ m \in initialized => s \in initialized
             /\ m \in ignoreNodes => s \in Done
             /\ s \in ignoreNodes \ initialized => m \in ignoreNodes
  <2>1. PICK e \in flow.edges : e.tgt = m /\ e.src = s
    BY DEF Sources
  <2>2. QED
    BY <1>1, <2>1 DEF Fed, Whole
<1>10. \A n \in DOMAIN d : n \notin ignoreNodes \ initialized
  <2> DEFINE X == DOMAIN d \cap (ignoreNodes \ initialized)
             Y == DOMAIN d \ Done
  <2> SUFFICES ASSUME X # {} PROVE FALSE
    OBVIOUS
  <2>1. end \in ignoreNodes
    <3>1. PICK x \in X : \A y \in X : d[y] <= d[x]
      BY <1>6, Deepest
    <3>2. CASE x # end
      <4>1. PICK y \in DOMAIN d : x \in Sources(flow, y)
        BY <1>6, <3>2
      <4>2. d[x] < d[y] /\ d[x] \in Nat /\ d[y] \in Nat
        BY <1>6, <4>1
      <4>3. y \in X
        BY <1>9, <4>1
      <4>4. QED
        BY <3>1, <4>2, <4>3
    <3>3. QED
      BY <3>2
  <2>2. Y # {}
    BY <1>7
  <2>3. PICK x \in Y : \A y \in Y : d[y] <= d[x]
    BY <1>6, <2>2, Deepest
  <2>4. PICK y \in DOMAIN d : x \in Sources(flow, y)
    BY <1>6, <2>1, <2>3
  <2>5. d[x] < d[y] /\ d[x] \in Nat /\ d[y] \in Nat
    BY <1>6, <2>4
  <2>6. y \in Y
    BY <1>9, <2>3, <2>4
  <2>7. QED
    BY <2>3, <2>5, <2>6
<1>11. ASSUME NEW n \in DOMAIN d \ initialized
       PROVE  n \in DOMAIN depthQueue \ Done /\ depthQueue[n] = d[n]
  <2>1. n \notin Done /\ n \in DOMAIN depthQueue
    <3>1. i \in DOMAIN Ends(flow)
      BY <1>3, <1>4 DEF T
    <3>2. DOMAIN d \subseteq DOMAIN depthQueue
      BY <1>1, <3>1, Merged DEF d
    <3>3. QED
      BY <1>10, <3>2
  <2>2. PICK j \in 1 .. N : /\ n \in DOMAIN Depths(flow)[j] /\ depthQueue[n] = Depths(flow)[j][n]
                            /\ i <= j
    BY <1>1, <1>3, <1>4, <2>1, Merged DEF d, T
  <2>3. j = i
    BY <1>4, <1>8, <2>1, <2>2 DEF T
  <2>4. QED
    BY <2>1, <2>2, <2>3 DEF d
<1>12. PICK u \in DOMAIN d \ initialized : \A n \in DOMAIN d \ initialized : d[u] <= d[n]
  BY <1>6, <1>7, Deepest
<1>13. \A n \in DOMAIN d : d[n] < d[u] => n \in initialized
  BY <1>6, <1>12
<1>14. Sources(flow, u) \subseteq initialized
  BY <1>6, <1>12, <1>13
<1>15. u \in Node \ (initialized \cup ignoreNodes) /\ u \notin DOMAIN exploredNode
  BY <1>2, <1>6, <1>11, <1>12
<1>16. CASE ~ Upserts(flow) /\ Sources(flow, u) # {}
  BY <1>1, <1>14, <1>15, <1>16 DEF Called
<1>17. CASE ~ (~ Upserts(flow) /\ Sources(flow, u) # {})
  <2>1. Reached(d[u])
    <3>1. CASE d[u] = 0
      BY <3>1 DEF Reached
    <3>2. CASE d[u] # 0
      <4>1. d[u] - 1 \in 0 .. far /\ d[u] - 1 \in 0 .. Len(flow.nodes) /\ d[u] \in Nat
        <5>1. d[u] \in 0 .. far /\ far < Len(flow.nodes) /\ Len(flow.nodes) \in Nat
          BY <1>1, <1>6, <1>12, Listed
        <5>2. QED
          BY <3>2, <5>1
      <4>2. PICK x \in DOMAIN d : d[x] <= d[u] - 1 /\ x \in Behind(flow)[d[u] - 1]
        BY <1>6, <4>1
      <4>3. x \in initialized
        BY <1>6, <1>13, <4>1, <4>2
      <4>4. d[u] <= (d[u] - 1) + 1
        BY <4>1
      <4>5. QED
        BY <4>1, <4>2, <4>3, <4>4 DEF Reached
    <3>3. QED
      BY <3>1, <3>2
  <2>2. Sources(flow, u) \subseteq (IF Upserts(flow) THEN initialized ELSE {})
    BY <1>14, <1>17
  <2>3. u \in DOMAIN depthQueue \ (initialized \cup ignoreNodes) /\ depthQueue[u] = d[u]
    BY <1>11, <1>12
  <2>4. QED
    BY <1>1, <1>15, <2>1, <2>2, <2>3 DEF Brought
<1>18. QED
  BY <1>16, <1>17

\* When the vector store has its turn, all that leads to it is initialised.
LEMMA UpsertIsComplete ==
  ASSUME BuildInv, NEW n \in Node, Upsert(n)
  PROVE  DOMAIN depthQueue \subseteq initialized \cup {n}
<1>1. /\ flow \in Flows /\ depthQueue = DepthQueue(flow) /\ n = flow.stop /\ TypeOK
      /\ nodeQueue # <<>> /\ n = Head(nodeQueue).node /\ Fed /\ Upserts(flow)
  BY FlowBuildAssumption DEF BuildInv, QueueInv, TypeOK, Upsert, Turn, Upserts
<1>2. Sources(flow, n) \subseteq initialized
  <2>1. 1 \in 1 .. Len(nodeQueue) /\ Head(nodeQueue) = nodeQueue[1]
    BY <1>1 DEF TypeOK
  <2>2. QED
    BY <1>1, <2>1 DEF Fed
<1> DEFINE d == DepthFrom(flow, n)
           X == DOMAIN d \ (initialized \cup {n})
<1>3. PICK far \in Nat : Descends(flow, n, d, far)
  BY <1>1, DepthsDescend
<1>4. /\ \A m \in DOMAIN d : d[m] \in 0 .. far
      /\ \A m \in DOMAIN d : \A s \in Sources(flow, m) : s \in DOMAIN d /\ d[s] < d[m]
      /\ \A x \in DOMAIN d \ {n} : \E m \in DOMAIN d : x \in Sources(flow, m)
  BY <1>3 DEF Descends
<1>5. DOMAIN depthQueue = DOMAIN d
  BY <1>1, StartsAre
<1> HIDE DEF d
<1>6. X = {}
  <2> SUFFICES ASSUME X # {} PROVE FALSE
    OBVIOUS
  <2>1. PICK x \in X : \A y \in X : d[y] <= d[x]
    BY <1>4, Deepest
  <2>2. PICK y \in DOMAIN d : x \in Sources(flow, y)
    BY <1>4, <2>1
  <2>3. d[x] < d[y] /\ d[x] \in Nat /\ d[y] \in Nat
    BY <1>4, <2>2
  <2>4. y \in initialized \cup {n}
    BY <2>1, <2>2, <2>3
  <2>5. x \in initialized
    BY <1>1, <1>2, <2>2, <2>4 DEF Fed
  <2>6. QED
    BY <2>1, <2>5
<1>7. QED
  BY <1>5, <1>6

-----------------------------------------------------------------------------
(* The refinement *)

\* What is ready during the build.
LEMMA ReadyIs ==
  ASSUME BuildInv, phase = "building"
  PROVE  /\ Ready = initialized
         /\ flow.stop \in Node => built[flow.stop] = 0
<1>1. flow.stop \notin initialized /\ Counted
  BY DEF BuildInv, QueueInv
<1>2. flow.stop \in Node => built[flow.stop] = 0
  BY <1>1 DEF Counted, CountedFor
<1>3. QED
  BY <1>2 DEF Ready

LEMMA BuildStarts == Init => Order!Init
<1> SUFFICES ASSUME Init PROVE Order!Init
  OBVIOUS
<1>1. TypeOK
  BY TypeInit
<1>2. flow \in Flows /\ initialized = {} /\ built = [n \in Node |-> 0] /\ phase = "building"
  BY DEF Init
<1>3. [n \in Node |-> Sources(flow, n)] \in [Node -> SUBSET Node]
  BY <1>2, Listed
<1>4. Ready = {}
  BY <1>2 DEF Ready
<1>5. DOMAIN depthQueue \ ignoreNodes \in SUBSET Node
  BY <1>1 DEF TypeOK
<1>6. QED
  BY <1>2, <1>3, <1>4, <1>5 DEF Order!Init

LEMMA VisitPrepares ==
  ASSUME BuildInv, NEW n \in Node, Visit(n)
  PROVE  Order!Prepare(n)
<1>1. /\ phase = "building" /\ n # flow.stop /\ flow' = flow /\ depthQueue' = depthQueue
      /\ phase' = phase /\ initialized' = initialized \cup {n} /\ ignoreNodes \subseteq ignoreNodes'
      /\ nodeQueue # <<>> /\ n = Head(nodeQueue).node
      /\ \A m \in Node \ {n} : built'[m] = built[m]
      /\ Fed /\ TypeOK
  BY DEF Visit, Turn, BuildInv, QueueInv, TypeOK
<1>2. Sources(flow, n) \subseteq initialized
  <2>1. 1 \in 1 .. Len(nodeQueue) /\ Head(nodeQueue) = nodeQueue[1]
    BY <1>1 DEF TypeOK
  <2>2. QED
    BY <1>1, <2>1 DEF Fed
<1>3. Ready = initialized /\ (flow.stop \in Node => built[flow.stop] = 0)
  BY <1>1, ReadyIs
<1>4. Ready' = Ready \cup {n}
  BY <1>1, <1>3 DEF Ready
<1>5. DOMAIN depthQueue' \ ignoreNodes' \in SUBSET (DOMAIN depthQueue \ ignoreNodes)
  BY <1>1
<1>6. QED
  BY <1>1, <1>2, <1>3, <1>4, <1>5 DEF Order!Prepare

LEMMA UpsertPrepares ==
  ASSUME BuildInv, NEW n \in Node, Upsert(n)
  PROVE  Order!Prepare(n)
<1>1. /\ phase = "building" /\ n = flow.stop /\ flow' = flow /\ depthQueue' = depthQueue
      /\ phase' = "done" /\ initialized' = initialized /\ ignoreNodes' = ignoreNodes
      /\ nodeQueue # <<>> /\ n = Head(nodeQueue).node
      /\ built' = [built EXCEPT ![n] = @ + 1]
      /\ Fed /\ TypeOK
  BY DEF Upsert, Turn, BuildInv, QueueInv
<1>2. Sources(flow, n) \subseteq initialized
  <2>1. 1 \in 1 .. Len(nodeQueue) /\ Head(nodeQueue) = nodeQueue[1]
    BY <1>1 DEF TypeOK
  <2>2. QED
    BY <1>1, <2>1 DEF Fed
<1>3. Ready = initialized /\ built[n] = 0
  BY <1>1, ReadyIs
<1>4. Ready' = Ready \cup {n}
  BY <1>1, <1>3 DEF Ready, TypeOK
<1>5. DOMAIN depthQueue' \ ignoreNodes' \subseteq Ready'
  BY <1>1, <1>3, <1>4, UpsertIsComplete
<1>6. QED
  BY <1>1, <1>2, <1>3, <1>4, <1>5 DEF Order!Prepare

LEMMA StepOfOrder == BuildInv /\ [Next]_vars => [Order!Next]_(Order!vars)
<1> SUFFICES ASSUME BuildInv, [Next]_vars PROVE [Order!Next]_(Order!vars)
  OBVIOUS
<1>1. ASSUME NEW n \in Node, Visit(n) \/ Upsert(n) PROVE Order!Next
  BY <1>1, VisitPrepares, UpsertPrepares DEF Order!Next
<1>2. CASE Fail
  <2>1. Ready' = Ready
    BY <1>2 DEF Fail, Ready
  <2>2. QED
    BY <1>2, <2>1 DEF Fail, Order!Next, Order!Fail
<1>3. CASE Finish
  <2>1. Ready' = Ready
    BY <1>3 DEF Finish, Ready
  <2>2. DOMAIN depthQueue \ ignoreNodes \subseteq Ready
    BY <1>3, BuildIsComplete, ReadyIs DEF Finish
  <2>3. QED
    BY <1>3, <2>1, <2>2 DEF Finish, Order!Next, Order!Finish
<1>4. CASE UNCHANGED vars
  BY <1>4 DEF vars, Order!vars, Ready
<1>5. QED
  BY <1>1, <1>2, <1>3, <1>4 DEF Next

\* The refinement: for every flow without cycles, of any size, with any number of ends and
\* decisions, in any order of its keys, a node is initialised after its inputs and the
\* build ends with all nodes that lead to an end and were not ignored.
THEOREM BuildOrderImplemented == Spec => ImplementsBuildOrder
  BY BuildInit, BuildStep, BuildStarts, StepOfOrder, PTL DEF Spec, ImplementsBuildOrder, Order!Spec

\* An upsert initialises no node twice and upserts its documents once.
THEOREM UpsertIsOnce == Spec => []UpsertBuildsOnce
<1>1. BuildInv => UpsertBuildsOnce
  BY DEF BuildInv
<1>2. QED
  BY BuildInit, BuildStep, <1>1, PTL DEF Spec

-----------------------------------------------------------------------------
(* What is executed *)

\* With one end, no decision whose branches are apart takes the end along: from the branch
\* it took, edges that do not leave the decision lead there.
LEMMA EndIsKept ==
  ASSUME TypeOK, depthQueue = DepthQueue(flow), ~ Upserts(flow), Len(EndingNodes(flow)) = 1,
         BranchesApart, NEW n \in Node, NEW gone \in Ignored(flow, n)
  PROVE  EndingNodes(flow)[1] \notin gone
<1> DEFINE end == EndingNodes(flow)[1]
           d == Depths(flow)[1]
<1>1. flow \in Flows /\ Ends(flow) = EndingNodes(flow)
  BY DEF TypeOK, Ends
<1>2. PICK N \in Nat : /\ DOMAIN Ends(flow) = 1 .. N /\ N = Len(Ends(flow))
                       /\ \A i \in 1 .. N : Ends(flow)[i] \in Node
  BY <1>1, EndsAre
<1>3. DOMAIN Ends(flow) = {1} /\ end \in Node
  BY <1>1, <1>2
<1>4. /\ d = DepthFrom(flow, end) /\ DOMAIN depthQueue = DOMAIN d
  BY <1>1, <1>3, Merged
<1>5. PICK far \in Nat : Descends(flow, end, d, far)
  BY <1>1, <1>3, <1>4, DepthsDescend
<1>6. /\ end \in DOMAIN d /\ \A m \in DOMAIN d : d[m] \in 0 .. far
      /\ \A m \in DOMAIN d : \A s \in Sources(flow, m) : s \in DOMAIN d /\ d[s] < d[m]
      /\ \A x \in DOMAIN d \ {end} : \E m \in DOMAIN d : x \in Sources(flow, m)
  BY <1>5 DEF Descends
<1> HIDE DEF d, end
<1> SUFFICES ASSUME end \in gone PROVE FALSE
  BY DEF end
<1>7. flow.kind[n] = "ifElse" /\ \E side \in BOOLEAN : gone \in Untaken(flow, n, side)
  BY DEF Ignored
<1>8. PICK side \in BOOLEAN : gone \in Untaken(flow, n, side)
  BY <1>7
<1>9. PICK e \in flow.edges : e.src = n /\ e.tgt \in DOMAIN depthQueue /\ e.tgt \notin gone
  BY <1>7, <1>8 DEF BranchesApart
<1>10. n \in DOMAIN d /\ e.tgt \in DOMAIN d /\ d[n] < d[e.tgt]
  BY <1>1, <1>4, <1>6, <1>9, Listed
<1> DEFINE Y == {y \in DOMAIN d : d[e.tgt] <= d[y] /\ y \notin gone}
<1>11. Y # {} /\ Y \in SUBSET DOMAIN d
  BY <1>6, <1>9, <1>10
<1>12. PICK y \in Y : \A z \in Y : d[z] <= d[y]
  BY <1>6, <1>11, Deepest
<1>13. PICK z \in DOMAIN d : y \in Sources(flow, z)
  BY <1>6, <1>12
<1>14. d[y] < d[z] /\ z \in gone
  BY <1>6, <1>10, <1>12, <1>13
<1>15. PICK x \in flow.edges : x.src = y /\ x.tgt = z
  BY <1>13 DEF Sources
<1>16. y # n
  BY <1>6, <1>10, <1>12
<1>17. y \in gone
  BY <1>1, <1>14, <1>15, <1>16, IgnoredIsWhole
<1>18. QED
  BY <1>12, <1>17

LoneEnd == ~ Upserts(flow) /\ Len(EndingNodes(flow)) = 1 /\ BranchesApart

EndInv ==
    /\ BuildInv
    /\ LoneEnd => /\ EndingNodes(flow)[1] \notin ignoreNodes
                  /\ phase = "done" => EndingNodes(flow)[1] \in initialized

LEMMA EndStep == EndInv /\ [Next]_vars => EndInv'
<1> SUFFICES ASSUME EndInv, [Next]_vars PROVE EndInv'
  OBVIOUS
<1>1. BuildInv /\ BuildInv'
  BY BuildStep DEF EndInv
<1>2. flow' = flow /\ depthQueue' = depthQueue
  BY DEF Next, Visit, Upsert, Fail, Finish, vars
<1>3. LoneEnd' <=> LoneEnd
  BY <1>2 DEF LoneEnd, BranchesApart
<1> SUFFICES ASSUME LoneEnd
             PROVE  /\ EndingNodes(flow)[1] \notin ignoreNodes'
                    /\ phase' = "done" => EndingNodes(flow)[1] \in initialized'
  BY <1>1, <1>2, <1>3 DEF EndInv
<1>4. /\ EndingNodes(flow)[1] \notin ignoreNodes
      /\ phase = "done" => EndingNodes(flow)[1] \in initialized
  BY DEF EndInv
<1>5. ASSUME NEW n \in Node, Visit(n)
      PROVE  EndingNodes(flow)[1] \notin ignoreNodes' /\ phase' = "building"
  <2>1. PICK gone \in Ignored(flow, n) : ignoreNodes' = ignoreNodes \cup gone
    BY <1>5 DEF Visit
  <2>2. phase' = "building"
    BY <1>5 DEF Visit, Turn
  <2>3. EndingNodes(flow)[1] \notin gone
    BY <1>1, EndIsKept DEF LoneEnd, BuildInv, QueueInv
  <2>4. QED
    BY <1>4, <2>1, <2>2, <2>3
<1>6. ASSUME NEW n \in Node, Upsert(n) PROVE FALSE
  BY <1>6, FlowBuildAssumption DEF Upsert, LoneEnd, Upserts
<1>7. CASE Finish
  <2>1. DOMAIN depthQueue \ ignoreNodes \subseteq initialized
    BY <1>1, <1>7, BuildIsComplete DEF Finish
  <2>2. EndingNodes(flow)[1] \in DOMAIN depthQueue
    <3>1. /\ flow \in Flows /\ depthQueue = DepthQueue(flow)
          /\ Ends(flow) = EndingNodes(flow) /\ Len(EndingNodes(flow)) = 1
      BY <1>1 DEF BuildInv, QueueInv, TypeOK, LoneEnd, Ends
    <3>2. PICK N \in Nat : /\ DOMAIN Ends(flow) = 1 .. N /\ N = Len(Ends(flow))
                           /\ \A i \in 1 .. N : Ends(flow)[i] \in Node
      BY <3>1, EndsAre
    <3>3. Len(Ends(flow)) = 1
      BY <3>1
    <3>4. 1 \in DOMAIN Ends(flow) /\ Ends(flow)[1] \in Node
      BY <3>2, <3>3
    <3>5. Ends(flow)[1] \in DOMAIN DepthFrom(flow, Ends(flow)[1])
      BY <3>1, <3>4, DepthsDescend DEF Descends
    <3>6. QED
      BY <3>1, <3>4, <3>5, Merged
  <2>3. QED
    BY <1>4, <1>7, <2>1, <2>2 DEF Finish
<1>8. CASE Fail
  BY <1>4, <1>8 DEF Fail
<1>9. CASE UNCHANGED vars
  BY <1>4, <1>9 DEF vars
<1>10. QED
  BY <1>4, <1>5, <1>6, <1>7, <1>8, <1>9 DEF Next

\* A prediction of a flow with one end executes what has been built, when the branches of
\* its decisions are apart, whatever is ignored on the way and however often a decision is
\* taken: ExecutedIsBuilt without its condition on the decisions.
THEOREM LoneEndIsExecuted == Spec => [](LoneEnd /\ phase = "done" => Executed \in initialized)
<1>1. Init => EndInv
  BY BuildInit DEF Init, EndInv
<1>2. EndInv => (LoneEnd /\ phase = "done" => Executed \in initialized)
  BY DEF EndInv, LoneEnd, Executed
<1>3. QED
  BY <1>1, <1>2, EndStep, PTL DEF Spec

-----------------------------------------------------------------------------
(* What is executed, of several ends *)

\* The end of a prediction leads nowhere, and its depth is the length of a way to it.
LEMMA EndsAreDeep ==
  ASSUME NEW f \in Flows, ~ Upserts(f), NEW i \in DOMAIN Ends(f)
  PROVE  /\ Ends(f)[i] \in DOMAIN DepthQueue(f) /\ Targets(f, Ends(f)[i]) = {}
         /\ Ends(f)[i] \in Behind(f)[DepthQueue(f)[Ends(f)[i]]]
<1> DEFINE end == Ends(f)[i]
<1>1. PICK N \in Nat : DOMAIN Ends(f) = 1 .. N /\ \A j \in 1 .. N : Ends(f)[j] \in Node
  BY EndsAre
<1>2. ASSUME NEW j \in DOMAIN Ends(f)
      PROVE  \E far \in Nat : Descends(f, Ends(f)[j], Depths(f)[j], far)
  BY <1>1, <1>2, DepthsDescend, Merged
<1>3. end \in Node /\ end \in DOMAIN Depths(f)[i] /\ end \in DOMAIN DepthQueue(f)
  BY <1>1, <1>2, Merged DEF Descends
<1>4. Targets(f, end) = {}
  <2>1. f.nodes \in Seq(Node) /\ {f.nodes[k] : k \in DOMAIN f.nodes} = Node
    BY FlowBuildAssumption DEF Flow
  <2> DEFINE I == {k \in DOMAIN f.nodes :
                      /\ f.nodes[k] \in f.chains
                      /\ \/ Len(f.nodes) = 1
                         \/ Targets(f, f.nodes[k]) = {} /\ Sources(f, f.nodes[k]) # {}}
  <2>2. Ends(f) = Pick(f.nodes, I) /\ I \in SUBSET (DOMAIN f.nodes)
    BY DEF Ends, EndingNodes
  <2>3. \A k \in I : Len(f.nodes) = 1 \/ Targets(f, f.nodes[k]) = {}
    OBVIOUS
  <2> HIDE DEF I
  <2>4. PICK k \in I : end = f.nodes[k]
    BY <2>1, <2>2, PickKeeps
  <2>5. CASE Len(f.nodes) = 1
    <3>1. Node = {end}
      BY <2>1, <2>5, <1>3
    <3>2. SUFFICES ASSUME NEW e \in f.edges, e.src = end PROVE FALSE
      BY DEF Targets
    <3>3. e.tgt = end /\ end \in Sources(f, end)
      BY <3>1, <3>2, Listed
    <3>4. PICK far \in Nat : Descends(f, end, Depths(f)[i], far)
      BY <1>2
    <3>5. Depths(f)[i][end] \in Nat /\ Depths(f)[i][end] < Depths(f)[i][end]
      BY <1>3, <3>3, <3>4 DEF Descends
    <3>6. QED
      BY <3>5
  <2>6. QED
    BY <2>3, <2>4, <2>5
<1>5. PICK j \in DOMAIN Ends(f) : end \in DOMAIN Depths(f)[j] /\ DepthQueue(f)[end] = Depths(f)[j][end]
  BY <1>3, Merged
<1>6. PICK far \in Nat : Descends(f, Ends(f)[j], Depths(f)[j], far)
  BY <1>2
<1>7. \A m : end \notin Sources(f, m)
  BY <1>4 DEF Sources, Targets
<1>8. end = Ends(f)[j]
  BY <1>5, <1>6, <1>7 DEF Descends
<1>9. QED
  BY <1>3, <1>4, <1>5, <1>6, <1>8 DEF Descends

\* When the ends agree on the depths, these go up along each edge that leads to an end; and
\* every node but the ends has one.
LEMMA DepthsRise ==
  ASSUME TypeOK, depthQueue = DepthQueue(flow), DepthsAgree
  PROVE  /\ \A n \in DOMAIN depthQueue : depthQueue[n] \in 0 .. Len(flow.nodes)
         /\ \A n \in Node : \A t \in Targets(flow, n) \cap DOMAIN depthQueue :
               n \in DOMAIN depthQueue /\ depthQueue[n] < depthQueue[t]
         /\ \A n \in DOMAIN depthQueue :
               \/ \E i \in DOMAIN Ends(flow) : n = Ends(flow)[i]
               \/ Targets(flow, n) \cap DOMAIN depthQueue # {}
<1>1. flow \in Flows /\ Len(flow.nodes) \in Nat
  BY Listed DEF TypeOK
<1>2. PICK N \in Nat : DOMAIN Ends(flow) = 1 .. N /\ \A j \in 1 .. N : Ends(flow)[j] \in Node
  BY <1>1, EndsAre
<1>3. ASSUME NEW j \in DOMAIN Ends(flow)
      PROVE  \E far \in Nat : Descends(flow, Ends(flow)[j], Depths(flow)[j], far)
  BY <1>1, <1>2, <1>3, DepthsDescend, Merged
<1>4. DOMAIN Depths(flow) = DOMAIN Ends(flow)
  BY DEF Depths
<1>5. \A j \in DOMAIN Ends(flow) : DOMAIN Depths(flow)[j] \subseteq DOMAIN depthQueue
  BY <1>1, Merged
<1>6. ASSUME NEW n \in DOMAIN depthQueue
      PROVE  \E j \in DOMAIN Ends(flow) : n \in DOMAIN Depths(flow)[j] /\ depthQueue[n] = Depths(flow)[j][n]
  BY <1>1, <1>6, Merged
<1>7. ASSUME NEW n \in DOMAIN depthQueue
      PROVE  /\ depthQueue[n] \in 0 .. Len(flow.nodes)
             /\ \/ \E i \in DOMAIN Ends(flow) : n = Ends(flow)[i]
                \/ Targets(flow, n) \cap DOMAIN depthQueue # {}
  <2>1. PICK j \in DOMAIN Ends(flow) : n \in DOMAIN Depths(flow)[j] /\ depthQueue[n] = Depths(flow)[j][n]
    BY <1>6
  <2>2. PICK far \in Nat : Descends(flow, Ends(flow)[j], Depths(flow)[j], far)
    BY <1>3
  <2>3. depthQueue[n] \in 0 .. Len(flow.nodes)
    BY <1>1, <2>1, <2>2 DEF Descends
  <2>4. CASE n # Ends(flow)[j]
    <3>1. PICK m \in DOMAIN Depths(flow)[j] : n \in Sources(flow, m)
      BY <2>1, <2>2, <2>4 DEF Descends
    <3>2. m \in Targets(flow, n) /\ m \in DOMAIN depthQueue
      BY <1>5, <3>1 DEF Sources, Targets
    <3>3. QED
      BY <2>3, <3>2
  <2>5. QED
    BY <2>3, <2>4
<1>8. ASSUME NEW n \in Node, NEW t \in Targets(flow, n) \cap DOMAIN depthQueue
      PROVE  n \in DOMAIN depthQueue /\ depthQueue[n] < depthQueue[t]
  <2>1. PICK j \in DOMAIN Ends(flow) : t \in DOMAIN Depths(flow)[j] /\ depthQueue[t] = Depths(flow)[j][t]
    BY <1>6
  <2>2. n \in Sources(flow, t)
    BY DEF Sources, Targets
  <2>3. n \in DOMAIN Depths(flow)[j] /\ Depths(flow)[j][n] < depthQueue[t]
    BY <1>3, <2>1, <2>2 DEF Descends
  <2>4. n \in DOMAIN depthQueue
    BY <1>5, <2>3
  <2>5. PICK k \in DOMAIN Ends(flow) : n \in DOMAIN Depths(flow)[k] /\ depthQueue[n] = Depths(flow)[k][n]
    BY <1>6, <2>4
  <2>6. Depths(flow)[j][n] = Depths(flow)[k][n]
    BY <1>4, <2>3, <2>5 DEF DepthsAgree
  <2>7. QED
    BY <2>3, <2>4, <2>5, <2>6
<1>9. QED
  BY <1>7, <1>8

\* A decision whose branches are apart ignores neither itself nor all that it leads to.
LEMMA TakenIsKept ==
  ASSUME TypeOK, BranchesApart, NEW n \in Node, flow.kind[n] = "ifElse", NEW gone \in Ignored(flow, n)
  PROVE  /\ n \notin gone
         /\ \E t \in Targets(flow, n) \cap DOMAIN depthQueue : t \notin gone
<1>1. flow \in Flows
  BY DEF TypeOK
<1>2. PICK side \in BOOLEAN : gone \in Untaken(flow, n, side)
  BY DEF Ignored
<1>3. PICK e \in flow.edges : /\ e.src = n /\ e.out = side
                              /\ e.tgt \in DOMAIN depthQueue /\ e.tgt \notin gone
  BY <1>2 DEF BranchesApart
<1>4. n \notin gone
  <2> DEFINE other == {x \in flow.edges : x.src = n /\ x.out # side}
  <2>1. CASE gone = {}
    BY <2>1
  <2>2. CASE gone # {}
    <3>1. PICK first \in other : gone = Connected(flow, flow.edges \ other, first.tgt)
      BY <1>2, <2>2 DEF Untaken
    <3>2. flow.edges \ other \in SUBSET flow.edges /\ first.tgt \in Node /\ e \in flow.edges \ other
      BY <1>1, <1>3, Listed
    <3> HIDE DEF other
    <3>3. e.src \in gone <=> e.tgt \in gone
      BY <1>1, <3>1, <3>2, ConnectedIsClosed
    <3>4. QED
      BY <1>3, <3>3
  <2>3. QED
    BY <2>1, <2>2
<1>5. QED
  BY <1>3, <1>4 DEF Targets

\* Every decision is taken once, between branches that are apart, and the ends agree on
\* the depths: the condition of ExecutedIsBuilt.
DecidedOnce ==
    /\ ~ Upserts(flow) /\ BranchesApart /\ DepthsAgree
    /\ \A n \in Node : flow.kind[n] = "ifElse" => built[n] <= 1

\* In a prediction a node has the neighbours of the flow until it is initialised; and init()
\* of what is initialised was called, unless it is a loader.
Untouched ==
    /\ ~ Upserts(flow) => \A n \in Node \ initialized : graph[n] = Targets(flow, n)
    /\ \A n \in initialized : flow.kind[n] # "loader" => built[n] > 0

\* Without the nodes in gone, every node that leads to an end leads to one, or is one.
Leads(gone) ==
    \A n \in DOMAIN depthQueue \ gone :
        \/ \E i \in DOMAIN Ends(flow) : n = Ends(flow)[i]
        \/ \E t \in Targets(flow, n) \cap DOMAIN depthQueue : t \notin gone

\* The node that will be executed is initialised, or another one will be.
LeftToBuild == last \in initialized \/ DOMAIN depthQueue \ (ignoreNodes \cup initialized) # {}

LastInv ==
    /\ BuildInv /\ Untouched
    /\ DecidedOnce => /\ Leads(ignoreNodes)
                      /\ phase = "building" => LeftToBuild
                      /\ phase = "done" => last \in initialized

\* The end that a node leads to is at its depth, or deeper.
LEMMA DeeperEnd ==
  ASSUME TypeOK, depthQueue = DepthQueue(flow), DepthsAgree,
         NEW gone, Leads(gone), NEW m \in DOMAIN depthQueue \ gone
  PROVE  \E i \in DOMAIN Ends(flow) : /\ Ends(flow)[i] \in DOMAIN depthQueue \ gone
                                      /\ depthQueue[m] <= depthQueue[Ends(flow)[i]]
<1> DEFINE X == {x \in DOMAIN depthQueue : x \notin gone /\ depthQueue[m] <= depthQueue[x]}
<1>1. Len(flow.nodes) \in Nat /\ DOMAIN depthQueue \subseteq Node
  BY Listed DEF TypeOK
<1>2. /\ \A x \in DOMAIN depthQueue : depthQueue[x] \in 0 .. Len(flow.nodes)
      /\ \A x \in Node : \A t \in Targets(flow, x) \cap DOMAIN depthQueue : depthQueue[x] < depthQueue[t]
  BY DepthsRise
<1>3. m \in X /\ X \in SUBSET DOMAIN depthQueue
  BY <1>2
<1>4. PICK x \in X : \A y \in X : depthQueue[y] <= depthQueue[x]
  <2> HIDE DEF X
  <2>1. X # {}
    BY <1>3
  <2>2. QED
    BY <1>1, <1>2, <1>3, <2>1, Deepest
<1>5. ASSUME NEW t \in Targets(flow, x) \cap DOMAIN depthQueue PROVE t \in gone
  <2>1. depthQueue[x] < depthQueue[t]
    BY <1>1, <1>2
  <2>2. ~ (depthQueue[t] <= depthQueue[x]) /\ depthQueue[m] <= depthQueue[t]
    BY <1>2, <2>1
  <2>3. QED
    BY <1>4, <2>2
<1>6. PICK i \in DOMAIN Ends(flow) : x = Ends(flow)[i]
  BY <1>5 DEF Leads
<1>7. QED
  BY <1>6

LEMMA UntouchedTurn ==
  ASSUME TypeOK, Untouched, NEW n \in Node, Visit(n)
  PROVE  Untouched'
<1>1. /\ flow' = flow /\ initialized' = initialized \cup {n} /\ built \in [Node -> Nat]
      /\ initialized \subseteq Node /\ graph \in [Node -> SUBSET Node]
      /\ graph' = [graph EXCEPT ![n] = Neighbours(n, Head(nodeQueue).depth + 1)]
      /\ built' = IF flow.kind[n] = "loader" /\ ~ Upserts(flow)
                  THEN built ELSE [built EXCEPT ![n] = @ + 1]
  BY DEF Visit, PushNext, TypeOK
<1>2. ~ Upserts(flow) => \A m \in Node \ initialized' : graph'[m] = Targets(flow, m)
  BY <1>1 DEF Untouched
<1>3. ASSUME NEW m \in initialized', flow.kind[m] # "loader" PROVE built'[m] > 0
  <2>1. CASE m = n
    BY <1>1, <1>3, <2>1
  <2>2. CASE m # n
    BY <1>1, <1>3, <2>2 DEF Untouched
  <2>3. QED
    BY <2>1, <2>2
<1>4. QED
  BY <1>1, <1>2, <1>3 DEF Untouched

\* A decision that is taken for the first time leaves a way to an end from all that it
\* does not ignore.
LEMMA LeadsTurn ==
  ASSUME BuildInv, phase = "building", BranchesApart, Leads(ignoreNodes),
         NEW n \in Node, Visit(n), flow.kind[n] = "ifElse" => n \notin initialized
  PROVE  Leads(ignoreNodes')
<1>1. TypeOK /\ flow \in Flows /\ Whole /\ DOMAIN depthQueue \subseteq Node
  BY DEF BuildInv, QueueInv, TypeOK
<1>2. PICK gone \in Ignored(flow, n) : ignoreNodes' = ignoreNodes \cup gone
  BY DEF Visit
<1>3. CASE flow.kind[n] # "ifElse"
  <2>1. gone = {}
    BY <1>3 DEF Ignored
  <2>2. QED
    BY <1>2, <2>1
<1>4. CASE flow.kind[n] = "ifElse"
  <2> SUFFICES ASSUME NEW x \in DOMAIN depthQueue \ ignoreNodes',
                      \A i \in DOMAIN Ends(flow) : x # Ends(flow)[i]
               PROVE  \E t \in Targets(flow, x) \cap DOMAIN depthQueue : t \notin ignoreNodes'
    BY DEF Leads
  <2>1. CASE x = n
    <3>1. PICK t \in Targets(flow, n) \cap DOMAIN depthQueue : t \notin gone
      BY <1>1, <1>4, TakenIsKept
    <3>2. PICK e \in flow.edges : e.src = n /\ e.tgt = t
      BY DEF Targets
    <3>3. t \notin ignoreNodes
      BY <1>1, <1>2, <1>4, <2>1, <3>2 DEF Whole
    <3>4. QED
      BY <1>2, <2>1, <3>1, <3>3
  <2>2. CASE x # n
    <3>1. PICK t \in Targets(flow, x) \cap DOMAIN depthQueue : t \notin ignoreNodes
      BY <1>2 DEF Leads
    <3>2. PICK e \in flow.edges : e.src = x /\ e.tgt = t
      BY DEF Targets
    <3>3. e.src \in gone <=> e.tgt \in gone
      BY <1>1, <2>2, <3>2, IgnoredIsWhole
    <3>4. QED
      BY <1>2, <3>1, <3>2, <3>3
  <2>3. QED
    BY <2>1, <2>2
<1>5. QED
  BY <1>3, <1>4

(***************************************************************************)
(* A turn after which the end node has not been moved leaves something to  *)
(* build. What n leads to is not initialised, when n was not before; so    *)
(* only an end, and a decision that was ignored while it was in the queue, *)
(* leave nothing of their own. Then there is a node of the next depth, and *)
(* the end it leads to is too deep to be initialised.                      *)
(***************************************************************************)
LEMMA LeftTurn ==
  ASSUME BuildInv, BuildInv', phase = "building", Untouched, DecidedOnce, Leads(ignoreNodes'),
         LeftToBuild, NEW n \in Node, Visit(n), flow.kind[n] = "ifElse" => n \notin initialized
  PROVE  LeftToBuild'
<1> DEFINE h == nodeQueue[1].depth
           Open == DOMAIN depthQueue \ (ignoreNodes' \cup initialized')
<1>1. /\ QueueInv /\ TypeOK /\ flow \in Flows /\ depthQueue = DepthQueue(flow)
      /\ Fed /\ Whole /\ Climbed /\ DOMAIN depthQueue \subseteq Node
      /\ ~ Upserts(flow) /\ BranchesApart /\ DepthsAgree
  BY DEF BuildInv, QueueInv, TypeOK, DecidedOnce
<1>2. PICK new : Turned(n, new)
  BY <1>1, TurnIs
<1>3. /\ 1 \in 1 .. Len(nodeQueue) /\ h \in Nat /\ n = nodeQueue[1].node
      /\ flow' = flow /\ depthQueue' = depthQueue /\ initialized' = initialized \cup {n}
      /\ ignoreNodes \subseteq ignoreNodes'
  BY <1>2 DEF Turned
<1>4. Head(nodeQueue) = nodeQueue[1]
  BY <1>1, <1>3 DEF TypeOK
<1>5. last' = IF Neighbours(n, h + 1) \ ignoreNodes' = {} THEN n ELSE last
  BY <1>4 DEF Visit, PushNext
<1>6. PICK gone \in Ignored(flow, n) : ignoreNodes' = ignoreNodes \cup gone
  BY DEF Visit
<1> HIDE DEF h
<1> SUFFICES ASSUME last' \notin initialized' PROVE Open # {}
  BY <1>3 DEF LeftToBuild
<1>7. PICK m \in Neighbours(n, h + 1) : m \notin ignoreNodes'
  BY <1>3, <1>5
<1>8. \E y \in DOMAIN depthQueue : y \notin ignoreNodes /\ y \notin initialized
  BY <1>3, <1>5, <1>7 DEF LeftToBuild
<1>9. \A k \in 0 .. Len(flow.nodes) : initialized' \cap Behind(flow)[k] # {} => k <= h
  BY <1>1, <1>3 DEF Climbed, h
<1>10. ASSUME NEW x \in DOMAIN depthQueue, depthQueue[x] = h + 1, x \notin ignoreNodes'
       PROVE  Open # {}
  <2>1. PICK i \in DOMAIN Ends(flow) : /\ Ends(flow)[i] \in DOMAIN depthQueue \ ignoreNodes'
                                       /\ depthQueue[x] <= depthQueue[Ends(flow)[i]]
    BY <1>1, <1>10, DeeperEnd
  <2> DEFINE end == Ends(flow)[i]
  <2>2. end \in Behind(flow)[depthQueue[end]] /\ depthQueue[end] \in 0 .. Len(flow.nodes)
    BY <1>1, <2>1, EndsAreDeep, DepthsRise
  <2> HIDE DEF end
  <2>3. ~ (depthQueue[end] <= h)
    BY <1>3, <1>10, <2>1, <2>2 DEF end
  <2>4. end \notin initialized'
    BY <1>9, <2>2, <2>3
  <2>5. QED
    BY <2>1, <2>4 DEF end
\* What n leads to in the flow has not been initialised, when n had not.
<1>11. ASSUME n \notin initialized, NEW t \in Targets(flow, n) \cap DOMAIN depthQueue, t \notin ignoreNodes'
       PROVE  Open # {}
  <2>1. n \in Sources(flow, t) /\ depthQueue[n] < depthQueue[t] /\ depthQueue[t] \in 0 .. Len(flow.nodes)
    BY <1>1, DepthsRise DEF Sources, Targets
  <2>2. t \notin initialized
    BY <1>1, <1>11, <2>1 DEF Fed
  <2>3. t # n
    BY <2>1
  <2>4. QED
    BY <1>3, <1>11, <2>2, <2>3
<1>12. ASSUME n \notin initialized, m \notin Targets(flow, n) PROVE Open # {}
  <2>1. graph[n] = Targets(flow, n)
    BY <1>1, <1>12 DEF Untouched
  <2>2. m \in DOMAIN depthQueue /\ depthQueue[m] = h + 1
    BY <1>7, <1>12, <2>1 DEF Neighbours
  <2>3. QED
    BY <1>7, <1>10, <2>2
<1>13. CASE flow.kind[n] # "ifElse"
  <2>1. ignoreNodes' = ignoreNodes
    BY <1>6, <1>13 DEF Ignored
  <2>2. PICK y \in DOMAIN depthQueue : y \notin ignoreNodes /\ y \notin initialized
    BY <1>8
  <2>3. CASE y # n
    BY <1>3, <2>1, <2>2, <2>3
  <2>4. CASE y = n /\ \E i \in DOMAIN Ends(flow) : n = Ends(flow)[i]
    <3>1. Targets(flow, n) = {}
      BY <1>1, <2>4, EndsAreDeep
    <3>2. QED
      BY <1>12, <2>2, <2>4, <3>1
  <2>5. CASE y = n /\ \A i \in DOMAIN Ends(flow) : n # Ends(flow)[i]
    <3>1. PICK t \in Targets(flow, n) \cap DOMAIN depthQueue : t \notin ignoreNodes'
      BY <2>1, <2>2, <2>5 DEF Leads
    <3>2. QED
      BY <1>11, <2>2, <2>5, <3>1
  <2>6. QED
    BY <2>3, <2>4, <2>5
<1>14. CASE flow.kind[n] = "ifElse"
  <2>1. n \notin initialized /\ n \notin gone
    BY <1>1, <1>14, TakenIsKept
  <2>2. PICK t \in Targets(flow, n) \cap DOMAIN depthQueue : t \notin gone
    BY <1>1, <1>14, TakenIsKept
  <2>3. ASSUME NEW x \in Targets(flow, n)
        PROVE  n \in ignoreNodes <=> x \in ignoreNodes
    <3>1. PICK e \in flow.edges : e.src = n /\ e.tgt = x
      BY <2>3 DEF Targets
    <3>2. QED
      BY <1>1, <2>1, <3>1 DEF Whole
  <2>4. CASE n \in ignoreNodes
    <3>1. m \notin Targets(flow, n)
      BY <1>3, <1>7, <2>3, <2>4
    <3>2. QED
      BY <1>12, <2>1, <3>1
  <2>5. CASE n \notin ignoreNodes
    <3>1. t \notin ignoreNodes'
      BY <1>6, <2>2, <2>3, <2>5
    <3>2. QED
      BY <1>11, <2>1, <2>2, <3>1
  <2>6. QED
    BY <2>4, <2>5
<1>15. QED
  BY <1>13, <1>14

LEMMA LastInit == Init => LastInv
<1> SUFFICES ASSUME Init PROVE LastInv
  OBVIOUS
<1>1. BuildInv /\ TypeOK /\ flow \in Flows /\ depthQueue = DepthQueue(flow)
  BY BuildInit, TypeInit DEF Init
<1>2. /\ Ends(flow) # <<>> /\ initialized = {} /\ ignoreNodes = {} /\ phase = "building"
      /\ graph = [n \in Node |-> IF Upserts(flow) THEN Sources(flow, n) ELSE Targets(flow, n)]
  BY DEF Init
<1>3. Untouched
  BY <1>2 DEF Untouched
<1>4. ASSUME DecidedOnce PROVE Leads(ignoreNodes) /\ LeftToBuild
  <2>1. ~ Upserts(flow) /\ DepthsAgree
    BY <1>4 DEF DecidedOnce
  <2>2. Leads(ignoreNodes)
    BY <1>1, <1>2, <2>1, DepthsRise DEF Leads
  <2>3. Ends(flow) \in Seq(Node)
    BY <1>1, EndsAre
  <2>4. 1 \in DOMAIN Ends(flow)
    BY <1>2, <2>3
  <2>5. Ends(flow)[1] \in DOMAIN depthQueue
    BY <1>1, <2>1, <2>4, EndsAreDeep
  <2>6. QED
    BY <1>2, <2>2, <2>5 DEF LeftToBuild
<1>5. QED
  BY <1>1, <1>2, <1>3, <1>4 DEF LastInv

LEMMA LastStep == LastInv /\ [Next]_vars => LastInv'
<1> SUFFICES ASSUME LastInv, [Next]_vars PROVE LastInv'
  OBVIOUS
<1>1. BuildInv /\ BuildInv' /\ Untouched /\ TypeOK
  BY BuildStep DEF LastInv, BuildInv, QueueInv
<1>2. flow' = flow /\ depthQueue' = depthQueue
  BY DEF Next, Visit, Upsert, Fail, Finish, vars
<1>3. ASSUME NEW n \in Node, Visit(n) PROVE LastInv'
  <2>1. /\ phase = "building" /\ phase' = "building" /\ built \in [Node -> Nat]
        /\ built' = IF flow.kind[n] = "loader" /\ ~ Upserts(flow)
                    THEN built ELSE [built EXCEPT ![n] = @ + 1]
    BY <1>1, <1>3 DEF Visit, Turn, TypeOK
  <2>2. Untouched'
    BY <1>1, <1>3, UntouchedTurn
  <2>3. ASSUME DecidedOnce' PROVE Leads(ignoreNodes') /\ LeftToBuild'
    <3>1. DecidedOnce
      <4>1. ~ Upserts(flow) /\ BranchesApart /\ DepthsAgree
        BY <1>2, <2>3 DEF DecidedOnce, BranchesApart, DepthsAgree
      <4>2. ASSUME NEW m \in Node, flow.kind[m] = "ifElse" PROVE built[m] <= 1
        <5>1. built'[m] <= 1
          BY <1>2, <2>3, <4>2 DEF DecidedOnce
        <5>2. QED
          BY <2>1, <5>1
      <4>3. QED
        BY <4>1, <4>2 DEF DecidedOnce
    <3>2. flow.kind[n] = "ifElse" => n \notin initialized
      <4>1. SUFFICES ASSUME flow.kind[n] = "ifElse", n \in initialized PROVE FALSE
        OBVIOUS
      <4>2. built[n] > 0 /\ built[n] \in Nat
        BY <1>1, <2>1, <4>1 DEF Untouched
      <4>3. built'[n] = built[n] + 1
        BY <2>1, <4>1
      <4>4. built'[n] <= 1
        BY <1>2, <2>3, <4>1 DEF DecidedOnce
      <4>5. QED
        BY <4>2, <4>3, <4>4
    <3>3. Leads(ignoreNodes) /\ LeftToBuild /\ BranchesApart
      BY <2>1, <3>1 DEF LastInv, DecidedOnce
    <3>4. Leads(ignoreNodes')
      BY <1>1, <1>3, <2>1, <3>2, <3>3, LeadsTurn
    <3>5. LeftToBuild'
      BY <1>1, <1>3, <2>1, <3>1, <3>2, <3>3, <3>4, LeftTurn
    <3>6. QED
      BY <3>4, <3>5
  <2>4. DecidedOnce' => Leads(ignoreNodes)'
    BY <1>2, <2>3 DEF Leads
  <2>5. QED
    BY <1>1, <2>1, <2>2, <2>3, <2>4 DEF LastInv
<1>4. ASSUME NEW n \in Node, Upsert(n) PROVE LastInv'
  <2>1. /\ Upserts(flow) /\ initialized' = initialized /\ graph' = graph /\ built' = [built EXCEPT ![n] = @ + 1]
    BY <1>4, FlowBuildAssumption DEF Upsert, Upserts
  <2>2. built \in [Node -> Nat] /\ initialized \subseteq Node
    BY <1>1 DEF TypeOK
  <2>3. Untouched'
    BY <1>1, <1>2, <2>1, <2>2 DEF Untouched
  <2>4. ~ DecidedOnce'
    BY <1>2, <2>1 DEF DecidedOnce
  <2>5. QED
    BY <1>1, <2>3, <2>4 DEF LastInv
<1>5. ASSUME built' = built, graph' = graph, initialized' = initialized, ignoreNodes' = ignoreNodes,
             last' = last
      PROVE  /\ Untouched' /\ (DecidedOnce' => DecidedOnce)
             /\ Leads(ignoreNodes)' <=> Leads(ignoreNodes)
             /\ LeftToBuild' <=> LeftToBuild
  BY <1>1, <1>2, <1>5 DEF Untouched, DecidedOnce, BranchesApart, DepthsAgree, Leads, LeftToBuild
<1>6. CASE Fail
  BY <1>1, <1>5, <1>6 DEF Fail, LastInv
<1>7. CASE Finish
  <2>1. DOMAIN depthQueue \ ignoreNodes \subseteq initialized
    BY <1>1, <1>7, BuildIsComplete DEF Finish
  <2>2. LeftToBuild => last \in initialized
    BY <2>1 DEF LeftToBuild
  <2>3. QED
    BY <1>1, <1>5, <1>7, <2>2 DEF Finish, LastInv
<1>8. CASE UNCHANGED vars
  BY <1>1, <1>5, <1>8 DEF vars, LastInv
<1>9. QED
  BY <1>3, <1>4, <1>6, <1>7, <1>8 DEF Next

\* What a prediction executes has been built: with one end that is the end, with several
\* the node that was moved last, which no turn leaves uninitialised when the build ends.
THEOREM ExecutedHasBeenBuilt == Spec => []ExecutedIsBuilt
<1>1. LastInv /\ (LoneEnd /\ phase = "done" => Executed \in initialized) => ExecutedIsBuilt
  BY DEF LastInv, DecidedOnce, LoneEnd, ExecutedIsBuilt, Executed
<1>2. QED
  BY <1>1, LastInit, LastStep, LoneEndIsExecuted, PTL DEF Spec
=============================================================================
