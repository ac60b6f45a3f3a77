--------------------------- MODULE AgentFlow_proofs ---------------------------
(***************************************************************************)
(* Theorems about AgentFlow for every set of nodes, every agentflow and    *)
(* every bound. Of every session: type correctness (IInv), the ownership   *)
(* of the INPROGRESS rows (Held), and that a node that runs was called and *)
(* has its inputs (Queued). Of a session served one request at a time: the *)
(* lifecycle of the executions (LInv), the finished work a row keeps       *)
(* (Stops and Work) and the buttons of an execution that waits (HInv). Of  *)
(* a client that answers the stop it was shown, and agentflows of certain  *)
(* shapes (FlowShapes): no node finishes twice (OnceInv), and what is      *)
(* FINISHED is complete (CompleteInv), from the order of the stops         *)
(* (Ordered) and of the calls (Deliveries).                                *)
(***************************************************************************)
EXTENDS AgentFlow, FlowShapes, Subsequence_proofs

(***************************************************************************)
(* The types of the operators the actions are built from.                  *)
(***************************************************************************)

\* The last element of a sequence that is not empty is one of its elements.
LEMMA LastType ==
    ASSUME NEW S, NEW s \in Seq(S), s # <<>>
    PROVE  Last(s) \in S /\ Len(s) \in DOMAIN s
BY DEF Last

\* The agentflow of the session is a flow (the assumption on Agentflows).
LEMMA FlowType == chatflow \in DOMAIN Agentflows => F \in Flow
BY FlowAssumption DEF F

\* StartingNodes returns nodes.
LEMMA StartType ==
    ASSUME NEW f \in Flow
    PROVE  StartingNodes(f) \subseteq Node
BY DEF Flow, StartingNodes

\* The targets of the edges of a flow are nodes.
LEMMA TargetsType ==
    ASSUME NEW f \in Flow
    PROVE  Targets(f) \in Seq(Node) /\ DOMAIN Targets(f) = DOMAIN f.edges
<1> DEFINE edge == [src : Node, tgt : Node, out : Nat]
<1>1. f.edges \in Seq(edge)
  BY DEF Flow
<1>2. /\ Len(f.edges) \in Nat
      /\ DOMAIN f.edges = 1 .. Len(f.edges)
      /\ \A i \in 1 .. Len(f.edges) : f.edges[i].tgt \in Node
  <2>1. \A x \in edge : x.tgt \in Node
    OBVIOUS
  <2> HIDE DEF edge
  <2>2. /\ Len(f.edges) \in Nat
        /\ DOMAIN f.edges = 1 .. Len(f.edges)
        /\ \A i \in 1 .. Len(f.edges) : f.edges[i] \in edge
    BY <1>1
  <2> QED
    BY <2>1, <2>2
<1>3. Targets(f) \in [1 .. Len(f.edges) -> Node]
  BY <1>2 DEF Targets
<1>4. Targets(f) \in Seq(Node)
  BY <1>2, <1>3
<1> QED
  BY <1>2, <1>3, <1>4

\* processNodeOutputs goes through nodes.
LEMMA FiredType ==
    ASSUME NEW f \in Flow, NEW n, NEW taken
    PROVE  Fired(f, n, taken) \in Seq(Node)
<1> DEFINE ignored == IF IsDecision(f, n) THEN NodesToIgnore(f, n, taken) ELSE {}
           kept == {e \in EdgesFrom(f, n) : f.edges[e].tgt \notin ignored}
<1>1. Targets(f) \in Seq(Node) /\ DOMAIN Targets(f) = DOMAIN f.edges
  BY TargetsType
<1>2. kept \subseteq DOMAIN Targets(f)
  BY <1>1, Zenon DEF EdgesFrom
<1>3. Pick(Targets(f), kept) \in Seq(Node)
  BY <1>1, <1>2, PickType, Zenon
<1> QED
  BY <1>3, Zenon DEF Fired

\* The outputs a decision took are numbers.
LEMMA TakenType ==
    ASSUME NEW f \in Flow, NEW n \in Node, NEW fulfilled \in SUBSET Nat
    PROVE  Taken(f, n, fulfilled) \in SUBSET Nat
<1>1. f.outs[n] \in Nat
  BY DEF Flow
<1> QED
  BY <1>1 DEF Taken

\* Dropping the entries of a node leaves entries.
LEMMA WithoutType ==
    ASSUME NEW d \in Seq(Entry), NEW n
    PROVE  Without(d, n) \in Seq(Entry)
<1>1. {i \in DOMAIN d : d[i].node # n} \subseteq DOMAIN d
  OBVIOUS
<1> QED
  BY <1>1, PickType, Zenon DEF Without

\* The final state of an execution is never INPROGRESS.
LEMMA FinalStateType == \A d : FinalState(d) \in States \ {"INPROGRESS"}
BY DEF FinalState, States

\* What a resume continues with are entries.
LEMMA ResumeDataType ==
    ASSUME NEW e \in Row
    PROVE  ResumeData(e) \in Seq(Entry)
<1>1. e.data \in Seq(Entry)
  BY DEF Row
<1>2. CASE Retryable(e)
  <2>1. Len(e.data) >= 2
    BY <1>2 DEF Retryable, EndsInRetry
  <2> QED
    BY <1>1, <1>2, <2>1 DEF ResumeData
<1>3. CASE ~Retryable(e)
  BY <1>1, <1>3 DEF ResumeData
<1> QED
  BY <1>2, <1>3

(***************************************************************************)
(* Type correctness. The executor reads the last entry of the executed     *)
(* data, the current node and the row of a request without checking that   *)
(* there is one; Placed says that at those points of a request there is.   *)
(***************************************************************************)
PlacedAt(r) ==
    /\ pc[r] \in Active => row[r] \in DOMAIN executions
    /\ pc[r] \in {"dropping", "resuming"} => humanInput[r] \in Node
    /\ pc[r] \in {"running", "outputs"} => current[r] \in Node
    /\ pc[r] \in {"outputs", "stopped", "failing", "settled", "saving"} => executed[r] # <<>>
    /\ pc[r] = "loop" => queue[r] # <<>> \/ executed[r] # <<>>

Placed == \A r \in Requests : PlacedAt(r)

IInv == TypeOK /\ Placed

\* The inductive invariant holds initially.
LEMMA InitIInv == Init => IInv
<1> SUFFICES ASSUME Init PROVE IInv
  OBVIOUS
<1>1. crashes \in 0 .. MaxCrashes /\ 0 \in 0 .. MaxLoopCount /\ 0 \in 0 .. MaxIterations + 1
  BY BoundAssumption DEF Init
<1>2. executions = <<>> /\ Len(executions) = 0
  BY DEF Init
<1>3. TypeOK
  BY <1>1, <1>2 DEF Init, TypeOK
<1>4. Placed
  BY DEF Init, Placed, PlacedAt, Active
<1> QED
  BY <1>3, <1>4 DEF IInv

\* A step of one request leaves the others where they are, and no row goes away.
Frame(r) ==
    \A q \in Requests \ {r} :
        /\ pc'[q] = pc[q] /\ row'[q] = row[q] /\ humanInput'[q] = humanInput[q]
        /\ current'[q] = current[q] /\ executed'[q] = executed[q] /\ queue'[q] = queue[q]

NoRowLost ==
    /\ executions' \in Seq(Row)
    /\ {Len(executions), Len(executions')} \subseteq Nat
    /\ Len(executions) <= Len(executions')

LEMMA OthersPlaced ==
    ASSUME IInv, NEW r \in Requests, NoRowLost, Frame(r), PlacedAt(r)'
    PROVE  Placed'
<1> SUFFICES ASSUME NEW q \in Requests PROVE PlacedAt(q)'
  BY DEF Placed
<1>1. CASE q = r
  BY <1>1
<1>2. CASE q # r
  <2>1. row[q] \in DOMAIN executions => row[q] \in DOMAIN executions'
    BY DEF IInv, TypeOK, NoRowLost
  <2> QED
    BY <1>2, <2>1 DEF IInv, Placed, PlacedAt, Frame
<1> QED
  BY <1>1, <1>2

\* Putting a row back to INPROGRESS leaves a row, and appending an entry leaves entries.
LEMMA RowReopened == \A e \in Row : [e EXCEPT !.state = "INPROGRESS"] \in Row
<1> SUFFICES ASSUME NEW D, NEW e \in [state : States, data : D]
             PROVE  [e EXCEPT !.state = "INPROGRESS"] \in [state : States, data : D]
  BY Zenon DEF Row
<1> QED
  BY DEF States

LEMMA Appended ==
    ASSUME NEW S, NEW s \in Seq(S), NEW x \in S
    PROVE  Append(s, x) \in Seq(S) /\ Append(s, x) # <<>>
<1>1. Append(s, x) \in Seq(S)
  OBVIOUS
<1>2. Len(Append(s, x)) = Len(s) + 1 /\ Len(s) \in Nat
  OBVIOUS
<1>3. Len(<<>>) = 0
  OBVIOUS
<1>4. Append(s, x) # <<>>
  <2> SUFFICES ASSUME Append(s, x) = <<>> PROVE FALSE
    OBVIOUS
  <2>1. Len(s) + 1 = 0
    BY <1>2, <1>3
  <2> QED
    BY <1>2, <2>1
<1> QED
  BY <1>1, <1>4

LEMMA Updated ==
    ASSUME NEW S, NEW T, NEW f \in [S -> T], NEW r \in S, NEW v \in T
    PROVE  [f EXCEPT ![r] = v] \in [S -> T] /\ [f EXCEPT ![r] = v][r] = v
OBVIOUS

\* Writing a row keeps the others.
LEMMA RowUpdate ==
    ASSUME NEW S, NEW s \in Seq(S), NEW i \in DOMAIN s, NEW x \in S
    PROVE  [s EXCEPT ![i] = x] \in Seq(S) /\ Len([s EXCEPT ![i] = x]) = Len(s)
OBVIOUS

\* Writing anywhere leaves a sequence.
LEMMA Overwritten ==
    ASSUME NEW S, NEW s \in Seq(S), NEW i, NEW x \in S
    PROVE  [s EXCEPT ![i] = x] \in Seq(S)
<1>1. Len(s) \in Nat /\ s \in [1 .. Len(s) -> S]
  OBVIOUS
<1>2. [s EXCEPT ![i] = x] \in [1 .. Len(s) -> S]
  BY <1>1, Zenon
<1> QED
  BY <1>1, <1>2

\* A question.
LEMMA AskIInv == ASSUME IInv, NEW r \in Requests, Ask(r) PROVE IInv'
<1>1. F \in Flow
  BY FlowType DEF IInv, TypeOK
<1>2. PICK start \in StartingNodes(F) : queue' = [queue EXCEPT ![r] = <<start>>]
  BY DEF Ask
<1>3. start \in Node
  BY <1>1, StartType
<1>4. executions' \in Seq(Row) /\ Len(executions') = Len(executions) + 1
  BY DEF IInv, TypeOK, Ask, Row, States
<1>5. TypeOK'
  <2>1. executions' \in Seq(Row)
    BY <1>4
  <2>2. row' \in [Requests -> 0 .. Len(executions')]
    BY <1>4 DEF IInv, TypeOK, Ask
  <2>3. queue' \in [Requests -> Seq(Node)]
    BY <1>2, <1>3 DEF IInv, TypeOK
  <2>4. pc' \in [Requests -> {"idle"} \cup Active \cup Ended]
    BY DEF IInv, TypeOK, Ask, shared, control, local, Active, Ended
  <2> QED
    BY <2>1, <2>2, <2>3, <2>4 DEF IInv, TypeOK, Ask, shared, control, local
<1>6. Placed'
  <2>1. PlacedAt(r)'
    BY <1>2, <1>3, <1>4 DEF IInv, TypeOK, Placed, PlacedAt, Ask, shared, control, local, Active
  <2>2. Frame(r)
    BY <1>2 DEF IInv, TypeOK, Frame, Ask, shared, control, local
  <2>3. NoRowLost
    BY <1>4 DEF IInv, TypeOK, NoRowLost
  <2> QED
    BY <2>1, <2>2, <2>3, OthersPlaced
<1> QED
  BY <1>5, <1>6 DEF IInv

\* A question that is refused.
LEMMA RefuseQuestionIInv == ASSUME IInv, NEW r \in Requests, RefuseQuestion(r) PROVE IInv'
<1>1. TypeOK'
  <2>1. pc' \in [Requests -> {"idle"} \cup Active \cup Ended]
    BY DEF IInv, TypeOK, RefuseQuestion, shared, control, local, Active, Ended
  <2> QED
    BY <2>1 DEF IInv, TypeOK, RefuseQuestion, shared, control, local
<1>2. Placed'
  <2>1. PlacedAt(r)'
    BY DEF IInv, TypeOK, Placed, PlacedAt, RefuseQuestion, shared, control, local, Active
  <2>2. Frame(r)
    BY DEF IInv, TypeOK, Frame, RefuseQuestion, shared, control, local
  <2>3. NoRowLost
    BY DEF IInv, TypeOK, NoRowLost, RefuseQuestion, shared, control, local
  <2> QED
    BY <2>1, <2>2, <2>3, OthersPlaced
<1> QED
  BY <1>1, <1>2 DEF IInv

\* An answer that is accepted.
LEMMA ResumeIInv == ASSUME IInv, NEW r \in Requests, NEW named, Resume(r, named) PROVE IInv'
<1>1. Last(executions) \in Row /\ Len(executions) \in DOMAIN executions
  BY LastType DEF IInv, TypeOK, Resume, CanResume
<1>2. ResumeData(Last(executions)) \in Seq(Entry)
  BY <1>1, ResumeDataType
<1>3. ResumeNode(ResumeData(Last(executions)), named) \in Node
  <2> DEFINE d == ResumeData(Last(executions))
  <2>1. PICK i \in DOMAIN d : d[i].node = ResumeNode(d, named)
    BY DEF Resume, CanResume
  <2>2. d[i] \in Entry
    <3> HIDE DEF d
    <3> QED
      BY <1>2, <2>1 DEF d
  <2>3. d[i].node \in Node
    BY <2>2 DEF Entry
  <2> QED
    BY <2>1, <2>3
<1>4. TypeOK'
  <2>1. mode' \in [Requests -> {"question", "humanInput"}]
    BY DEF IInv, TypeOK, Resume, shared, control, local
  <2>2. row' \in [Requests -> 0 .. Len(executions')]
    BY <1>1 DEF IInv, TypeOK, Resume, shared
  <2>3. executed' \in [Requests -> Seq(Entry)]
    BY <1>2 DEF IInv, TypeOK, Resume
  <2>4. humanInput' \in [Requests -> Node \cup {NoNode}]
    BY <1>3 DEF IInv, TypeOK, Resume
  <2>5. pc' \in [Requests -> {"idle"} \cup Active \cup Ended]
    BY DEF IInv, TypeOK, Resume, shared, control, local, Active, Ended
  <2> QED
    BY <2>1, <2>2, <2>3, <2>4, <2>5 DEF IInv, TypeOK, Resume, shared, control, local
<1>5. Placed'
  <2>1. PlacedAt(r)'
    BY <1>1, <1>3 DEF IInv, TypeOK, Placed, PlacedAt, Resume, shared, control, local, Active
  <2>2. Frame(r)
    BY DEF IInv, TypeOK, Frame, Resume, shared, control, local
  <2>3. NoRowLost
    BY DEF IInv, TypeOK, NoRowLost, Resume, shared, control, local
  <2> QED
    BY <2>1, <2>2, <2>3, OthersPlaced
<1> QED
  BY <1>4, <1>5 DEF IInv

\* An answer that is refused.
LEMMA RefuseHumanInputIInv == ASSUME IInv, NEW r \in Requests, NEW named, RefuseHumanInput(r, named) PROVE IInv'
<1>1. TypeOK'
  <2>1. mode' \in [Requests -> {"question", "humanInput"}]
    BY DEF IInv, TypeOK, RefuseHumanInput, shared, control, local
  <2>2. pc' \in [Requests -> {"idle"} \cup Active \cup Ended]
    BY DEF IInv, TypeOK, RefuseHumanInput, shared, control, local, Active, Ended
  <2> QED
    BY <2>1, <2>2 DEF IInv, TypeOK, RefuseHumanInput, shared, control, local
<1>2. Placed'
  <2>1. PlacedAt(r)'
    BY DEF IInv, TypeOK, Placed, PlacedAt, RefuseHumanInput, shared, control, local, Active
  <2>2. Frame(r)
    BY DEF IInv, TypeOK, Frame, RefuseHumanInput, shared, control, local
  <2>3. NoRowLost
    BY DEF IInv, TypeOK, NoRowLost, RefuseHumanInput, shared, control, local
  <2> QED
    BY <2>1, <2>2, <2>3, OthersPlaced
<1> QED
  BY <1>1, <1>2 DEF IInv

\* The error entry is dropped.
LEMMA DropErrorEntryIInv == ASSUME IInv, NEW r \in Requests, DropErrorEntry(r) PROVE IInv'
<1>1. row[r] \in DOMAIN executions
  BY DEF IInv, TypeOK, Placed, PlacedAt, DropErrorEntry, Active
<1>2. [state |-> "INPROGRESS", data |-> executed[r]] \in Row
  BY DEF IInv, TypeOK, Row, States
<1>3. executions' \in Seq(Row) /\ Len(executions') = Len(executions)
  BY <1>1, <1>2, RowUpdate DEF IInv, TypeOK, DropErrorEntry
<1>4. TypeOK'
  <2>1. executions' \in Seq(Row)
    BY <1>3
  <2>2. pc' \in [Requests -> {"idle"} \cup Active \cup Ended]
    BY DEF IInv, TypeOK, DropErrorEntry, shared, control, local, Active, Ended
  <2> QED
    BY <1>3, <2>1, <2>2 DEF IInv, TypeOK, DropErrorEntry, shared, control, local
<1>5. Placed'
  <2>1. PlacedAt(r)'
    BY <1>1, <1>3 DEF IInv, TypeOK, Placed, PlacedAt, DropErrorEntry, shared, control, local, Active
  <2>2. Frame(r)
    BY DEF IInv, TypeOK, Frame, DropErrorEntry, shared, control, local
  <2>3. NoRowLost
    BY <1>3 DEF IInv, TypeOK, NoRowLost
  <2> QED
    BY <2>1, <2>2, <2>3, OthersPlaced
<1> QED
  BY <1>4, <1>5 DEF IInv

\* The execution is put back to INPROGRESS.
LEMMA ReopenIInv == ASSUME IInv, NEW r \in Requests, Reopen(r) PROVE IInv'
<1>1. row[r] \in DOMAIN executions /\ humanInput[r] \in Node
  BY DEF IInv, TypeOK, Placed, PlacedAt, Reopen, Active
<1>2. [executions[row[r]] EXCEPT !.state = "INPROGRESS"] \in Row
  <2>1. executions[row[r]] \in Row
    BY <1>1 DEF IInv, TypeOK
  <2> QED
    BY <2>1, RowReopened, Zenon
<1>3. executions' \in Seq(Row) /\ Len(executions') = Len(executions)
  BY <1>1, <1>2, RowUpdate DEF IInv, TypeOK, Reopen
<1>4. TypeOK'
  <2>1. executions' \in Seq(Row)
    BY <1>3
  <2>2. queue' \in [Requests -> Seq(Node)]
    BY <1>1 DEF IInv, TypeOK, Reopen
  <2>3. pc' \in [Requests -> {"idle"} \cup Active \cup Ended]
    BY DEF IInv, TypeOK, Reopen, shared, control, local, Active, Ended
  <2> QED
    BY <1>3, <2>1, <2>2, <2>3 DEF IInv, TypeOK, Reopen, shared, control, local
<1>5. Placed'
  <2>1. PlacedAt(r)'
    BY <1>1, <1>3 DEF IInv, TypeOK, Placed, PlacedAt, Reopen, shared, control, local, Active
  <2>2. Frame(r)
    BY DEF IInv, TypeOK, Frame, Reopen, shared, control, local
  <2>3. NoRowLost
    BY <1>3 DEF IInv, TypeOK, NoRowLost
  <2> QED
    BY <2>1, <2>2, <2>3, OthersPlaced
<1> QED
  BY <1>4, <1>5 DEF IInv

\* The next node is taken off the queue.
LEMMA BeginNodeIInv == ASSUME IInv, NEW r \in Requests, BeginNode(r) PROVE IInv'
<1>1. queue[r] \in Seq(Node) /\ Head(queue[r]) \in Node /\ Tail(queue[r]) \in Seq(Node)
  BY DEF IInv, TypeOK, BeginNode
<1>2. [node |-> Head(queue[r]), status |-> "TERMINATED", taken |-> {}] \in Entry
  BY <1>1 DEF Entry, States
<1>3. executed' \in [Requests -> Seq(Entry)]
  <2>1. executed \in [Requests -> Seq(Entry)] /\ executed[r] \in Seq(Entry)
    BY DEF IInv, TypeOK
  <2> DEFINE e == [node |-> Head(queue[r]), status |-> "TERMINATED", taken |-> {}]
  <2>2. executed' = executed \/ executed' = [executed EXCEPT ![r] = Append(executed[r], e)]
    BY DEF BeginNode
  <2>3. e \in Entry
    BY <1>2
  <2> HIDE DEF e
  <2>4. Append(executed[r], e) \in Seq(Entry)
    BY <2>1, <2>3, Appended, Zenon
  <2>5. [executed EXCEPT ![r] = Append(executed[r], e)] \in [Requests -> Seq(Entry)]
    BY <2>1, <2>4, Updated, Zenon
  <2> QED
    BY <2>1, <2>2, <2>5, Zenon
<1>4. r \in aborted => executed'[r] # <<>>
  BY DEF IInv, TypeOK, BeginNode
<1>5. TypeOK'
  <2>1. executed' \in [Requests -> Seq(Entry)]
    BY <1>3
  <2>2. queue' \in [Requests -> Seq(Node)]
    BY <1>1 DEF IInv, TypeOK, BeginNode
  <2>3. iterations' \in [Requests -> 0 .. MaxIterations + 1]
    <3>1. MaxIterations \in Nat /\ iterations[r] \in Nat /\ iterations[r] <= MaxIterations
      BY BoundAssumption DEF IInv, TypeOK, BeginNode
    <3>2. iterations[r] + 1 \in 0 .. MaxIterations + 1
      BY <3>1
    <3>3. iterations' = [iterations EXCEPT ![r] = iterations[r] + 1]
      BY Zenon DEF BeginNode
    <3>4. iterations \in [Requests -> 0 .. MaxIterations + 1]
      BY DEF IInv, TypeOK
    <3> QED
      BY <3>2, <3>3, <3>4, Updated, Zenon
  <2>4. current' \in [Requests -> Node \cup {NoNode}]
    BY <1>1 DEF IInv, TypeOK, BeginNode
  <2>5. pc' \in [Requests -> {"idle"} \cup Active \cup Ended]
    <3>1. pc' = [pc EXCEPT ![r] = "failing"] \/ pc' = [pc EXCEPT ![r] = "running"]
      BY DEF BeginNode
    <3> QED
      BY <3>1 DEF IInv, TypeOK, Active
  <2> QED
    BY <2>1, <2>2, <2>3, <2>4, <2>5 DEF IInv, TypeOK, BeginNode, shared, control, local
<1>6. Placed'
  <2>1. PlacedAt(r)'
    BY <1>1, <1>4 DEF IInv, TypeOK, Placed, PlacedAt, BeginNode, shared, control, local, Active
  <2>2. Frame(r)
    BY DEF IInv, TypeOK, Frame, BeginNode, shared, control, local
  <2>3. NoRowLost
    BY DEF IInv, TypeOK, NoRowLost, BeginNode, shared, control, local
  <2> QED
    BY <2>1, <2>2, <2>3, OthersPlaced
<1> QED
  BY <1>5, <1>6 DEF IInv

\* The iteration limit.
LEMMA OverrunIInv == ASSUME IInv, NEW r \in Requests, Overrun(r) PROVE IInv'
<1>1. TypeOK'
  <2>1. pc' \in [Requests -> {"idle"} \cup Active \cup Ended]
    BY DEF IInv, TypeOK, Overrun, shared, control, local, Active, Ended
  <2> QED
    BY <2>1 DEF IInv, TypeOK, Overrun, shared, control, local
<1>2. Placed'
  <2>1. PlacedAt(r)'
    BY DEF IInv, TypeOK, Placed, PlacedAt, Overrun, shared, control, local, Active
  <2>2. Frame(r)
    BY DEF IInv, TypeOK, Frame, Overrun, shared, control, local
  <2>3. NoRowLost
    BY DEF IInv, TypeOK, NoRowLost, Overrun, shared, control, local
  <2> QED
    BY <2>1, <2>2, <2>3, OthersPlaced
<1> QED
  BY <1>1, <1>2 DEF IInv

\* A node finishes.
LEMMA FinishNodeIInv == ASSUME IInv, NEW r \in Requests, NEW fulfilled \in SUBSET Nat, FinishNode(r, fulfilled) PROVE IInv'
<1>1. F \in Flow /\ current[r] \in Node
  BY FlowType DEF IInv, TypeOK, Placed, PlacedAt, FinishNode
<1>2. Kept(r) \in Seq(Entry)
  BY WithoutType DEF IInv, TypeOK, Kept
<1>3. PICK taken \in SUBSET Nat :
      /\ executed' = [executed EXCEPT ![r] =
             Append(Kept(r), [node |-> current[r], status |-> "FINISHED", taken |-> taken])]
      /\ children' = [children EXCEPT ![r] = Fired(F, current[r], taken)]
  <2>1. Taken(F, current[r], fulfilled) \in SUBSET Nat
    BY <1>1, TakenType
  <2> QED
    BY <2>1 DEF FinishNode
<1>4. [node |-> current[r], status |-> "FINISHED", taken |-> taken] \in Entry
  BY <1>1 DEF Entry, States
<1>5. executed' \in [Requests -> Seq(Entry)] /\ executed'[r] # <<>>
  <2> DEFINE e == [node |-> current[r], status |-> "FINISHED", taken |-> taken]
  <2>1. executed \in [Requests -> Seq(Entry)] /\ executed[r] \in Seq(Entry)
    BY DEF IInv, TypeOK
  <2>2. executed' = [executed EXCEPT ![r] = Append(Kept(r), e)]
    BY <1>3
  <2>3. e \in Entry
    BY <1>4
  <2> HIDE DEF e
  <2>4. Append(Kept(r), e) \in Seq(Entry) /\ Append(Kept(r), e) # <<>>
    BY <1>2, <2>3, Appended, Zenon
  <2> QED
    BY <2>1, <2>2, <2>4, Updated, Zenon
<1>6. Fired(F, current[r], taken) \in Seq(Node)
  BY <1>1, FiredType
<1>7. TypeOK'
  <2>1. executed' \in [Requests -> Seq(Entry)]
    BY <1>5
  <2>2. humanInput' \in [Requests -> Node \cup {NoNode}]
    BY DEF IInv, TypeOK, FinishNode, UsedUp
  <2>3. children' \in [Requests -> Seq(Node)]
    BY <1>3, <1>6 DEF IInv, TypeOK
  <2>4. pc' \in [Requests -> {"idle"} \cup Active \cup Ended]
    BY DEF IInv, TypeOK, FinishNode, shared, control, local, Active, Ended
  <2> QED
    BY <2>1, <2>2, <2>3, <2>4 DEF IInv, TypeOK, FinishNode, shared, control, local
<1>8. Placed'
  <2>1. PlacedAt(r)'
    BY <1>1, <1>5 DEF IInv, TypeOK, Placed, PlacedAt, FinishNode, shared, control, local, Active
  <2>2. Frame(r)
    BY DEF IInv, TypeOK, Frame, FinishNode, shared, control, local
  <2>3. NoRowLost
    BY DEF IInv, TypeOK, NoRowLost, FinishNode, shared, control, local
  <2> QED
    BY <2>1, <2>2, <2>3, OthersPlaced
<1> QED
  BY <1>7, <1>8 DEF IInv

\* A node stops.
LEMMA StopNodeIInv == ASSUME IInv, NEW r \in Requests, StopNode(r) PROVE IInv'
<1>1. current[r] \in Node
  BY DEF IInv, TypeOK, Placed, PlacedAt, StopNode
<1>2. Kept(r) \in Seq(Entry)
  BY WithoutType DEF IInv, TypeOK, Kept
<1>3. [node |-> current[r], status |-> "STOPPED", taken |-> {}] \in Entry
  BY <1>1 DEF Entry, States
<1>4. executed' \in [Requests -> Seq(Entry)] /\ executed'[r] # <<>>
  <2> DEFINE e == [node |-> current[r], status |-> "STOPPED", taken |-> {}]
  <2>1. executed \in [Requests -> Seq(Entry)] /\ executed[r] \in Seq(Entry)
    BY DEF IInv, TypeOK
  <2>2. executed' = [executed EXCEPT ![r] = Append(Kept(r), e)]
    BY DEF StopNode
  <2>3. e \in Entry
    BY <1>3
  <2> HIDE DEF e
  <2>4. Append(Kept(r), e) \in Seq(Entry) /\ Append(Kept(r), e) # <<>>
    BY <1>2, <2>3, Appended, Zenon
  <2> QED
    BY <2>1, <2>2, <2>4, Updated, Zenon
<1>5. TypeOK'
  <2>1. executed' \in [Requests -> Seq(Entry)]
    BY <1>4
  <2>2. humanInput' \in [Requests -> Node \cup {NoNode}]
    BY DEF IInv, TypeOK, StopNode, UsedUp
  <2>3. pc' \in [Requests -> {"idle"} \cup Active \cup Ended]
    BY DEF IInv, TypeOK, StopNode, shared, control, local, Active, Ended
  <2> QED
    BY <2>1, <2>2, <2>3 DEF IInv, TypeOK, StopNode, shared, control, local
<1>6. Placed'
  <2>1. PlacedAt(r)'
    BY <1>1, <1>4 DEF IInv, TypeOK, Placed, PlacedAt, StopNode, shared, control, local, Active
  <2>2. Frame(r)
    BY DEF IInv, TypeOK, Frame, StopNode, shared, control, local
  <2>3. NoRowLost
    BY DEF IInv, TypeOK, NoRowLost, StopNode, shared, control, local
  <2> QED
    BY <2>1, <2>2, <2>3, OthersPlaced
<1> QED
  BY <1>5, <1>6 DEF IInv

\* A node fails.
LEMMA FailNodeIInv == ASSUME IInv, NEW r \in Requests, NEW status \in {"ERROR", "TERMINATED"}, FailNode(r, status) PROVE IInv'
<1>1. current[r] \in Node
  BY DEF IInv, TypeOK, Placed, PlacedAt, FailNode
<1>2. [node |-> current[r], status |-> status, taken |-> {}] \in Entry
  BY <1>1 DEF Entry, States
<1>3. executed' \in [Requests -> Seq(Entry)] /\ executed'[r] # <<>>
  <2> DEFINE e == [node |-> current[r], status |-> status, taken |-> {}]
  <2>1. executed \in [Requests -> Seq(Entry)] /\ executed[r] \in Seq(Entry)
    BY DEF IInv, TypeOK
  <2>2. executed' = [executed EXCEPT ![r] = Append(executed[r], e)]
    BY DEF FailNode
  <2>3. e \in Entry
    BY <1>2
  <2> HIDE DEF e
  <2>4. Append(executed[r], e) \in Seq(Entry) /\ Append(executed[r], e) # <<>>
    BY <2>1, <2>3, Appended, Zenon
  <2> QED
    BY <2>1, <2>2, <2>4, Updated, Zenon
<1>4. TypeOK'
  <2>1. executed' \in [Requests -> Seq(Entry)]
    BY <1>3
  <2>2. pc' \in [Requests -> {"idle"} \cup Active \cup Ended]
    BY DEF IInv, TypeOK, FailNode, shared, control, local, Active, Ended
  <2> QED
    BY <2>1, <2>2 DEF IInv, TypeOK, FailNode, shared, control, local
<1>5. Placed'
  <2>1. PlacedAt(r)'
    BY <1>3 DEF IInv, TypeOK, Placed, PlacedAt, FailNode, shared, control, local, Active
  <2>2. Frame(r)
    BY DEF IInv, TypeOK, Frame, FailNode, shared, control, local
  <2>3. NoRowLost
    BY DEF IInv, TypeOK, NoRowLost, FailNode, shared, control, local
  <2> QED
    BY <2>1, <2>2, <2>3, OthersPlaced
<1> QED
  BY <1>4, <1>5 DEF IInv

\* A child receives an output.
LEMMA DeliverOutputIInv == ASSUME IInv, NEW r \in Requests, DeliverOutput(r) PROVE IInv'
<1>1. current[r] \in Node
  BY DEF IInv, TypeOK, Placed, PlacedAt, DeliverOutput
<1>2. Head(children[r]) \in Node /\ Tail(children[r]) \in Seq(Node)
  BY DEF IInv, TypeOK, DeliverOutput
<1>3. waiting[r][Head(children[r])] \cup {current[r]} \in SUBSET Node
  BY <1>1, <1>2 DEF IInv, TypeOK
<1>4. PICK w \in SUBSET Node : waiting' = [waiting EXCEPT ![r][Head(children[r])] = w]
  BY <1>3, Zenon DEF DeliverOutput
<1>5. TypeOK'
  <2>1. children' \in [Requests -> Seq(Node)]
    BY <1>2 DEF IInv, TypeOK, DeliverOutput
  <2>2. waiting' \in [Requests -> [Node -> SUBSET Node]]
    BY <1>2, <1>4 DEF IInv, TypeOK
  <2>3. queue' \in [Requests -> Seq(Node)]
    <3> DEFINE c == Head(children[r])
    <3>1. queue' = queue \/ queue' = [queue EXCEPT ![r] = Append(queue[r], c)]
      BY Zenon DEF DeliverOutput
    <3>2. queue \in [Requests -> Seq(Node)] /\ queue[r] \in Seq(Node)
      BY DEF IInv, TypeOK
    <3>3. c \in Node
      BY <1>2
    <3> HIDE DEF c
    <3>4. Append(queue[r], c) \in Seq(Node)
      BY <3>2, <3>3, Appended, Zenon
    <3>5. \A s \in Seq(Node) : [queue EXCEPT ![r] = s] \in [Requests -> Seq(Node)]
      BY <3>2, Updated, Zenon
    <3> QED
      BY <3>1, <3>2, <3>4, <3>5, Zenon
  <2> QED
    BY <2>1, <2>2, <2>3 DEF IInv, TypeOK, DeliverOutput, shared, control, local
<1>6. Placed'
  <2>1. PlacedAt(r)'
    BY <1>1 DEF IInv, TypeOK, Placed, PlacedAt, DeliverOutput, shared, control, local, Active
  <2>2. Frame(r)
    BY DEF IInv, TypeOK, Frame, DeliverOutput, shared, control, local
  <2>3. NoRowLost
    BY DEF IInv, TypeOK, NoRowLost, DeliverOutput, shared, control, local
  <2> QED
    BY <2>1, <2>2, <2>3, OthersPlaced
<1> QED
  BY <1>5, <1>6 DEF IInv

\* The outputs are processed.
LEMMA EndOutputsIInv == ASSUME IInv, NEW r \in Requests, EndOutputs(r) PROVE IInv'
<1>1. F \in Flow /\ current[r] \in Node
  BY FlowType DEF IInv, TypeOK, Placed, PlacedAt, EndOutputs
<1>2. F.back[current[r]] \in Node
  BY <1>1 DEF Flow
<1>3. LoopsBack(r) => loopCounts[r][current[r]] + 1 \in 0 .. MaxLoopCount
  BY <1>1, BoundAssumption DEF IInv, TypeOK, LoopsBack
<1>4. TypeOK'
  <2>1. loopCounts' \in [Requests -> [Node -> 0 .. MaxLoopCount]]
    <3> DEFINE k == loopCounts[r][current[r]] + 1
               Counts == 0 .. MaxLoopCount
    <3>1. \/ loopCounts' = loopCounts
          \/ /\ LoopsBack(r)
             /\ loopCounts' = [loopCounts EXCEPT ![r] = [loopCounts[r] EXCEPT ![current[r]] = k]]
      BY Zenon DEF EndOutputs
    <3>2. loopCounts \in [Requests -> [Node -> Counts]] /\ loopCounts[r] \in [Node -> Counts]
      BY DEF IInv, TypeOK
    <3>3. LoopsBack(r) => k \in Counts
      BY <1>3
    <3> HIDE DEF k, Counts
    <3>4. LoopsBack(r) => [loopCounts[r] EXCEPT ![current[r]] = k] \in [Node -> Counts]
      BY <1>1, <3>2, <3>3, Updated, Zenon
    <3>5. \A f \in [Node -> Counts] :
             [loopCounts EXCEPT ![r] = f] \in [Requests -> [Node -> Counts]]
      BY <3>2, Updated, Zenon
    <3>6. loopCounts' \in [Requests -> [Node -> Counts]]
      BY <3>1, <3>2, <3>4, <3>5, Zenon
    <3> QED
      BY <3>6 DEF Counts
  <2>2. queue' \in [Requests -> Seq(Node)]
    <3> DEFINE n == F.back[current[r]]
    <3>1. queue' = queue \/ queue' = [queue EXCEPT ![r] = Append(queue[r], n)]
      BY Zenon DEF EndOutputs
    <3>2. queue \in [Requests -> Seq(Node)] /\ queue[r] \in Seq(Node)
      BY DEF IInv, TypeOK
    <3>3. n \in Node
      BY <1>2
    <3> HIDE DEF n
    <3>4. Append(queue[r], n) \in Seq(Node)
      BY <3>2, <3>3, Appended, Zenon
    <3>5. \A s \in Seq(Node) : [queue EXCEPT ![r] = s] \in [Requests -> Seq(Node)]
      BY <3>2, Updated, Zenon
    <3> QED
      BY <3>1, <3>2, <3>4, <3>5, Zenon
  <2>3. humanInput' \in [Requests -> Node \cup {NoNode}]
    BY DEF IInv, TypeOK, EndOutputs, shared, control, local
  <2>4. pc' \in [Requests -> {"idle"} \cup Active \cup Ended]
    BY DEF IInv, TypeOK, EndOutputs, shared, control, local, Active, Ended
  <2> QED
    BY <2>1, <2>2, <2>3, <2>4 DEF IInv, TypeOK, EndOutputs, shared, control, local
<1>5. Placed'
  <2>1. PlacedAt(r)'
    BY <1>1 DEF IInv, TypeOK, Placed, PlacedAt, EndOutputs, shared, control, local, Active
  <2>2. Frame(r)
    BY DEF IInv, TypeOK, Frame, EndOutputs, shared, control, local
  <2>3. NoRowLost
    BY DEF IInv, TypeOK, NoRowLost, EndOutputs, shared, control, local
  <2> QED
    BY <2>1, <2>2, <2>3, OthersPlaced
<1> QED
  BY <1>4, <1>5 DEF IInv

\* The row is settled.
LEMMA SettleIInv == ASSUME IInv, NEW r \in Requests, Settle(r) PROVE IInv'
<1>1. FinalState(executed[r]) \in States \ {"INPROGRESS"}
  BY FinalStateType
<1>2. row[r] \in DOMAIN executions
  BY DEF IInv, TypeOK, Placed, PlacedAt, Settle, Active
<1>3. [state |-> FinalState(executed[r]), data |-> executed[r]] \in Row
  BY <1>1 DEF IInv, TypeOK, Row
<1>4. executions' \in Seq(Row) /\ Len(executions') = Len(executions)
  BY <1>2, <1>3, RowUpdate DEF IInv, TypeOK, Settle
<1>5. TypeOK'
  <2>1. executions' \in Seq(Row)
    BY <1>4
  <2>2. pc' \in [Requests -> {"idle"} \cup Active \cup Ended]
    BY DEF IInv, TypeOK, Settle, shared, control, local, Active, Ended
  <2> QED
    BY <1>1, <1>2, <1>3, <1>4, <2>1, <2>2 DEF IInv, TypeOK, Settle, shared, control, local
<1>6. Placed'
  <2>1. PlacedAt(r)'
    BY <1>1, <1>2, <1>3, <1>4 DEF IInv, TypeOK, Placed, PlacedAt, Settle, shared, control, local, Active
  <2>2. Frame(r)
    BY DEF IInv, TypeOK, Frame, Settle, shared, control, local
  <2>3. NoRowLost
    BY <1>1, <1>2, <1>3, <1>4 DEF IInv, TypeOK, NoRowLost, Settle, shared, control, local
  <2> QED
    BY <2>1, <2>2, <2>3, OthersPlaced
<1> QED
  BY <1>5, <1>6 DEF IInv

\* The row is settled after an error.
LEMMA SettleFailureIInv == ASSUME IInv, NEW r \in Requests, SettleFailure(r) PROVE IInv'
<1>1. Last(executed[r]).status \in States \ {"INPROGRESS"}
  <2>1. executed[r] \in Seq(Entry) /\ executed[r] # <<>>
    BY DEF IInv, TypeOK, Placed, PlacedAt, SettleFailure
  <2>2. Last(executed[r]) \in Entry
    BY <2>1, LastType
  <2> QED
    BY <2>2 DEF Entry
<1>2. row[r] \in DOMAIN executions
  BY DEF IInv, TypeOK, Placed, PlacedAt, SettleFailure, Active
<1>3. [state |-> Last(executed[r]).status, data |-> executed[r]] \in Row
  BY <1>1 DEF IInv, TypeOK, Row
<1>4. executions' \in Seq(Row) /\ Len(executions') = Len(executions)
  BY <1>2, <1>3, RowUpdate DEF IInv, TypeOK, SettleFailure
<1>5. TypeOK'
  <2>1. executions' \in Seq(Row)
    BY <1>4
  <2>2. pc' \in [Requests -> {"idle"} \cup Active \cup Ended]
    BY DEF IInv, TypeOK, SettleFailure, shared, control, local, Active, Ended
  <2> QED
    BY <1>1, <1>2, <1>3, <1>4, <2>1, <2>2 DEF IInv, TypeOK, SettleFailure, shared, control, local
<1>6. Placed'
  <2>1. PlacedAt(r)'
    BY <1>1, <1>2, <1>3, <1>4 DEF IInv, TypeOK, Placed, PlacedAt, SettleFailure, shared, control, local, Active
  <2>2. Frame(r)
    BY DEF IInv, TypeOK, Frame, SettleFailure, shared, control, local
  <2>3. NoRowLost
    BY <1>1, <1>2, <1>3, <1>4 DEF IInv, TypeOK, NoRowLost, SettleFailure, shared, control, local
  <2> QED
    BY <2>1, <2>2, <2>3, OthersPlaced
<1> QED
  BY <1>5, <1>6 DEF IInv

\* The action of a message is cleared.
LEMMA ClearActionIInv == ASSUME IInv, NEW r \in Requests, ClearAction(r) PROVE IInv'
<1>1. TypeOK'
  <2>1. messages' \in Seq(Node \cup {NoNode})
    <3> DEFINE asking == {i \in DOMAIN messages : messages[i] # NoNode}
               last == CHOOSE i \in asking : \A j \in asking : j <= i
    <3>1. CASE asking = {}
      BY <3>1 DEF IInv, TypeOK, ClearAction
    <3>2. CASE asking # {}
      <4>1. messages' = [messages EXCEPT ![last] = NoNode]
        BY <3>2 DEF ClearAction
      <4>2. messages \in Seq(Node \cup {NoNode})
        BY DEF IInv, TypeOK
      <4> HIDE DEF last, asking
      <4> QED
        BY <4>1, <4>2, Overwritten
    <3> QED
      BY <3>1, <3>2
  <2>2. pc' \in [Requests -> {"idle"} \cup Active \cup Ended]
    BY DEF IInv, TypeOK, ClearAction, shared, control, local, Active, Ended
  <2> QED
    BY <2>1, <2>2 DEF IInv, TypeOK, ClearAction, shared, control, local
<1>2. Placed'
  <2>1. PlacedAt(r)'
    BY DEF IInv, TypeOK, Placed, PlacedAt, ClearAction, shared, control, local, Active
  <2>2. Frame(r)
    BY DEF IInv, TypeOK, Frame, ClearAction, shared, control, local
  <2>3. NoRowLost
    BY DEF IInv, TypeOK, NoRowLost, ClearAction, shared, control, local
  <2> QED
    BY <2>1, <2>2, <2>3, OthersPlaced
<1> QED
  BY <1>1, <1>2 DEF IInv

\* The answer is saved.
LEMMA SaveMessagesIInv == ASSUME IInv, NEW r \in Requests, SaveMessages(r) PROVE IInv'
<1>1. TypeOK'
  <2>1. messages' \in Seq(Node \cup {NoNode})
    <3>1. executed[r] \in Seq(Entry) /\ executed[r] # <<>>
      BY DEF IInv, TypeOK, Placed, PlacedAt, SaveMessages
    <3>2. Last(executed[r]) \in Entry
      BY <3>1, LastType
    <3>3. Last(executed[r]).node \in Node
      BY <3>2 DEF Entry
    <3>4. \E n \in Node \cup {NoNode} : messages' = Append(messages, n)
      BY <3>3, Zenon DEF SaveMessages
    <3>5. messages \in Seq(Node \cup {NoNode})
      BY DEF IInv, TypeOK
    <3> QED
      BY <3>4, <3>5, Appended, Zenon
  <2>2. pc' \in [Requests -> {"idle"} \cup Active \cup Ended]
    BY DEF IInv, TypeOK, SaveMessages, shared, control, local, Active, Ended
  <2> QED
    BY <2>1, <2>2 DEF IInv, TypeOK, SaveMessages, shared, control, local
<1>2. Placed'
  <2>1. PlacedAt(r)'
    BY DEF IInv, TypeOK, Placed, PlacedAt, SaveMessages, shared, control, local, Active
  <2>2. Frame(r)
    BY DEF IInv, TypeOK, Frame, SaveMessages, shared, control, local
  <2>3. NoRowLost
    BY DEF IInv, TypeOK, NoRowLost, SaveMessages, shared, control, local
  <2> QED
    BY <2>1, <2>2, <2>3, OthersPlaced
<1> QED
  BY <1>1, <1>2 DEF IInv

\* The answer is lost.
LEMMA LoseAnswerIInv == ASSUME IInv, NEW r \in Requests, LoseAnswer(r) PROVE IInv'
<1>1. TypeOK'
  <2>1. pc' \in [Requests -> {"idle"} \cup Active \cup Ended]
    BY DEF IInv, TypeOK, LoseAnswer, shared, control, local, Active, Ended
  <2> QED
    BY <2>1 DEF IInv, TypeOK, LoseAnswer, shared, control, local
<1>2. Placed'
  <2>1. PlacedAt(r)'
    BY DEF IInv, TypeOK, Placed, PlacedAt, LoseAnswer, shared, control, local, Active
  <2>2. Frame(r)
    BY DEF IInv, TypeOK, Frame, LoseAnswer, shared, control, local
  <2>3. NoRowLost
    BY DEF IInv, TypeOK, NoRowLost, LoseAnswer, shared, control, local
  <2> QED
    BY <2>1, <2>2, <2>3, OthersPlaced
<1> QED
  BY <1>1, <1>2 DEF IInv

\* The user aborts a request.
LEMMA AbortIInv == ASSUME IInv, NEW r \in Requests, Abort(r) PROVE IInv'
BY DEF IInv, TypeOK, Placed, PlacedAt, Abort, shared, control, local

\* The server goes down.
LEMMA CrashIInv == ASSUME IInv, Crash PROVE IInv'
<1>1. TypeOK'
  <2>1. pc' \in [Requests -> {"idle"} \cup Active \cup Ended]
    BY DEF IInv, TypeOK, Crash, Ended
  <2>2. crashes' \in 0 .. MaxCrashes
    BY BoundAssumption DEF IInv, TypeOK, Crash
  <2> QED
    BY <2>1, <2>2 DEF IInv, TypeOK, Crash, shared, control, local
<1>2. Placed'
  BY DEF IInv, TypeOK, Placed, PlacedAt, Crash, shared, control, local, Active
<1> QED
  BY <1>1, <1>2 DEF IInv

\* A step that changes nothing.
LEMMA StutterIInv == ASSUME IInv, UNCHANGED vars PROVE IInv'
BY DEF IInv, TypeOK, Placed, PlacedAt, vars

\* The outputs a node reports are numbers.
LEMMA ReportsType == \A r \in Requests : Reports(r) \subseteq SUBSET Nat
BY DEF Reports, Outputs

\* Every step keeps the inductive invariant.
LEMMA NextIInv == ASSUME IInv, [Next]_vars PROVE IInv'
<1>1. CASE Crash
  BY <1>1, CrashIInv
<1>2. ASSUME NEW r \in Requests, Arrive(r) PROVE IInv'
  BY <1>2, AskIInv, RefuseQuestionIInv, ResumeIInv, RefuseHumanInputIInv, Zenon DEF Arrive
<1>3. ASSUME NEW r \in Requests, Step(r) PROVE IInv'
  <2>1. ASSUME NEW fulfilled \in Reports(r), FinishNode(r, fulfilled) PROVE IInv'
    <3>1. fulfilled \in SUBSET Nat
      BY ReportsType
    <3> QED
      BY <2>1, <3>1, FinishNodeIInv
  <2>2. CASE DropErrorEntry(r) \/ Reopen(r) \/ BeginNode(r) \/ Overrun(r)
    BY <2>2, DropErrorEntryIInv, ReopenIInv, BeginNodeIInv, OverrunIInv
  <2>3. CASE StopNode(r) \/ \E status \in {"ERROR", "TERMINATED"} : FailNode(r, status)
    BY <2>3, StopNodeIInv, FailNodeIInv
  <2>4. CASE DeliverOutput(r) \/ EndOutputs(r)
    BY <2>4, DeliverOutputIInv, EndOutputsIInv
  <2>5. CASE Settle(r) \/ SettleFailure(r)
    BY <2>5, SettleIInv, SettleFailureIInv
  <2>6. CASE ClearAction(r) \/ SaveMessages(r) \/ LoseAnswer(r)
    BY <2>6, ClearActionIInv, SaveMessagesIInv, LoseAnswerIInv
  <2> QED
    BY <1>3, <2>1, <2>2, <2>3, <2>4, <2>5, <2>6, Zenon DEF Step
<1>4. ASSUME NEW r \in Requests, Abort(r) PROVE IInv'
  BY <1>4, AbortIInv
<1>5. CASE UNCHANGED vars
  BY <1>5, StutterIInv
<1> QED
  BY <1>1, <1>2, <1>3, <1>4, <1>5, Zenon DEF Next

\* Every variable has its type in every reachable state, whatever the agentflow and the
\* order of the requests: the code never takes the last entry of an empty record, nor
\* writes a row that does not exist, in any request (executeAgentFlow).
THEOREM TypeCorrect == Spec => []TypeOK
<1>1. IInv => TypeOK
  BY DEF IInv
<1> QED
  BY <1>1, InitIInv, NextIInv, PTL DEF Spec

(***************************************************************************)
(* The ownership of INPROGRESS rows. InProgressIsServed is not inductive:  *)
(* it allows a settled request to be the one that serves the row. Holding  *)
(* leaves out the points of a request after its row was settled; at any    *)
(* point of Holding the request still has the write of its row before it,  *)
(* or was lost without it.                                                 *)
(***************************************************************************)
Holding == {"dropping", "resuming", "loop", "running", "outputs", "stopped", "failing",
            "crashed", "overrun"}

HeldRow(i) ==
    executions[i].state = "INPROGRESS" => \E r \in Requests : row[r] = i /\ pc[r] \in Holding

Held == \A i \in DOMAIN executions : HeldRow(i)

\* A step that writes no row and lets nobody go.
LetsNobodyGo ==
    /\ executions' = executions
    /\ \A q \in Requests : pc[q] \in Holding => pc'[q] \in Holding /\ row'[q] = row[q]

LEMMA LetsNobodyGoHeld == ASSUME Held, LetsNobodyGo PROVE Held'
BY DEF Held, HeldRow, LetsNobodyGo

\* A step that writes one row, the others keeping their holder: the row is settled, or
\* the request that writes it holds it.
Writes(r, i) ==
    /\ \A j \in DOMAIN executions' \ {i} : j \in DOMAIN executions /\ executions'[j] = executions[j]
    /\ \A q \in Requests \ {r} : pc'[q] = pc[q] /\ row'[q] = row[q]
    /\ pc[r] \in Holding => row[r] = i
    /\ \/ executions'[i].state # "INPROGRESS"
       \/ row'[r] = i /\ pc'[r] \in Holding

LEMMA WritesHeld == ASSUME Held, NEW r \in Requests, NEW i, Writes(r, i) PROVE Held'
BY DEF Held, HeldRow, Writes

LEMMA ArriveHeld ==
    ASSUME IInv, Held, NEW r \in Requests, Arrive(r)
    PROVE  Held'
<1>1. CASE Ask(r)
  <2>1. Writes(r, Len(executions) + 1)
    <3>1. /\ Len(executions) \in Nat
          /\ DOMAIN executions = 1 .. Len(executions)
          /\ DOMAIN executions' = 1 .. Len(executions) + 1
          /\ \A j \in 1 .. Len(executions) : executions'[j] = executions[j]
      BY <1>1 DEF IInv, TypeOK, Ask
    <3>2. /\ row'[r] = Len(executions) + 1 /\ pc'[r] = "loop" /\ pc[r] = "idle"
          /\ \A q \in Requests \ {r} : pc'[q] = pc[q] /\ row'[q] = row[q]
      BY <1>1 DEF IInv, TypeOK, Ask, MayArrive
    <3> QED
      BY <3>1, <3>2 DEF Writes, Holding
  <2> QED
    BY <2>1, WritesHeld
<1>2. CASE RefuseQuestion(r)
  <2>1. LetsNobodyGo
    BY <1>2 DEF IInv, TypeOK, RefuseQuestion, MayArrive, LetsNobodyGo, Holding, shared, control
  <2> QED
    BY <2>1, LetsNobodyGoHeld
<1>3. ASSUME NEW named, Resume(r, named) \/ RefuseHumanInput(r, named) PROVE Held'
  <2>1. LetsNobodyGo
    BY <1>3 DEF IInv, TypeOK, Resume, RefuseHumanInput, MayArrive, LetsNobodyGo, Holding,
                shared
  <2> QED
    BY <2>1, LetsNobodyGoHeld
<1> QED
  BY <1>1, <1>2, <1>3, Zenon DEF Arrive

\* The steps that write the row of the request.
LEMMA WriteHeld ==
    ASSUME IInv, Held, NEW r \in Requests,
           DropErrorEntry(r) \/ Reopen(r) \/ Settle(r) \/ SettleFailure(r)
    PROVE  Held'
<1>1. /\ row[r] \in DOMAIN executions /\ row' = row
      /\ pc \in [Requests -> {"idle"} \cup Active \cup Ended]
      /\ executions \in Seq(Row)
  BY DEF IInv, TypeOK, Placed, PlacedAt, DropErrorEntry, Reopen, Settle, SettleFailure,
         Active, control
<1>2. ASSUME NEW x, NEW p,
             executions' = [executions EXCEPT ![row[r]] = x],
             pc' = [pc EXCEPT ![r] = p],
             x.state # "INPROGRESS" \/ p \in Holding
      PROVE  Held'
  <2>1. Writes(r, row[r])
    BY <1>1, <1>2 DEF Writes
  <2> QED
    BY <2>1, WritesHeld
<1>3. CASE DropErrorEntry(r)
  BY <1>2, <1>3 DEF DropErrorEntry, Holding
<1>4. CASE Reopen(r)
  <2>1. executions' = [executions EXCEPT ![row[r]] =
                         [executions[row[r]] EXCEPT !.state = "INPROGRESS"]]
    BY <1>4, Zenon DEF Reopen
  <2>2. pc' = [pc EXCEPT ![r] = "loop"] /\ "loop" \in Holding
    BY <1>4 DEF Reopen, Holding
  <2> QED
    BY <1>2, <2>1, <2>2, Zenon
<1>5. CASE Settle(r)
  BY <1>2, <1>5, FinalStateType DEF Settle
<1>6. CASE SettleFailure(r)
  <2>1. executed[r] \in Seq(Entry) /\ executed[r] # <<>>
    BY <1>6 DEF IInv, TypeOK, Placed, PlacedAt, SettleFailure
  <2>2. Last(executed[r]) \in Entry
    BY <2>1, LastType
  <2>3. Last(executed[r]).status # "INPROGRESS"
    BY <2>2 DEF Entry
  <2> QED
    BY <1>2, <1>6, <2>3 DEF SettleFailure
<1> QED
  BY <1>3, <1>4, <1>5, <1>6

LEMMA StepHeld ==
    ASSUME IInv, Held, NEW r \in Requests, Step(r)
    PROVE  Held'
<1>1. CASE DropErrorEntry(r) \/ Reopen(r) \/ Settle(r) \/ SettleFailure(r)
  BY <1>1, WriteHeld
<1>2. CASE BeginNode(r) \/ Overrun(r) \/ StopNode(r)
  <2>1. executions' = executions /\ row' = row
    BY <1>2 DEF BeginNode, Overrun, StopNode, shared, control
  <2>2. \E p \in Holding : pc' = [pc EXCEPT ![r] = p]
    BY <1>2 DEF BeginNode, Overrun, StopNode, Holding
  <2>3. LetsNobodyGo
    BY <2>1, <2>2 DEF IInv, TypeOK, LetsNobodyGo
  <2> QED
    BY <2>3, LetsNobodyGoHeld
<1>3. ASSUME NEW fulfilled, FinishNode(r, fulfilled) PROVE Held'
  <2>1. LetsNobodyGo
    BY <1>3 DEF IInv, TypeOK, FinishNode, LetsNobodyGo, Holding, shared, control
  <2> QED
    BY <2>1, LetsNobodyGoHeld
<1>4. ASSUME NEW status, FailNode(r, status) PROVE Held'
  <2>1. LetsNobodyGo
    BY <1>4 DEF IInv, TypeOK, FailNode, LetsNobodyGo, Holding, shared, control
  <2> QED
    BY <2>1, LetsNobodyGoHeld
<1>5. CASE DeliverOutput(r) \/ EndOutputs(r)
  <2>1. LetsNobodyGo
    BY <1>5 DEF IInv, TypeOK, DeliverOutput, EndOutputs, LetsNobodyGo, Holding, shared, control
  <2> QED
    BY <2>1, LetsNobodyGoHeld
<1>6. CASE ClearAction(r) \/ SaveMessages(r) \/ LoseAnswer(r)
  <2>1. LetsNobodyGo
    BY <1>6 DEF IInv, TypeOK, ClearAction, SaveMessages, LoseAnswer, LetsNobodyGo, Holding,
                shared, control
  <2> QED
    BY <2>1, LetsNobodyGoHeld
<1> QED
  BY <1>1, <1>2, <1>3, <1>4, <1>5, <1>6, Zenon DEF Step

LEMMA NextHeld == ASSUME IInv, Held, [Next]_vars PROVE Held'
<1>1. CASE Crash \/ (\E r \in Requests : Abort(r)) \/ UNCHANGED vars
  <2>1. LetsNobodyGo
    BY <1>1 DEF IInv, TypeOK, Crash, Abort, vars, LetsNobodyGo, Holding, shared, control
  <2> QED
    BY <2>1, LetsNobodyGoHeld
<1>2. ASSUME NEW r \in Requests, Arrive(r) \/ Step(r) PROVE Held'
  BY <1>2, ArriveHeld, StepHeld
<1> QED
  BY <1>1, <1>2, Zenon DEF Next

\* Whatever the agentflow and however many requests run side by side, fail, are aborted or
\* crash: a request that has answered leaves no row INPROGRESS behind unless another
\* request has it in hand, or was lost with it (executeAgentFlow writes the state on every
\* way out of it but the iteration limit).
THEOREM InProgressServed == Spec => []InProgressIsServed
<1>1. Init => Held
  BY DEF Init, Held
<1>2. ASSUME IInv, Held PROVE InProgressIsServed
  BY <1>2 DEF Held, HeldRow, InProgressIsServed, Holding, Active
<1> QED
  BY <1>1, <1>2, InitIInv, NextIInv, NextHeld, PTL DEF Spec

(***************************************************************************)
(* What a step of a request leaves alone: everything the others keep for   *)
(* themselves. The lemmas below then look at one request only.             *)
(***************************************************************************)
Unmoved(r) ==
    /\ chatflow' = chatflow
    /\ \A q \in Requests \ {r} :
          /\ pc'[q] = pc[q] /\ row'[q] = row[q] /\ mode'[q] = mode[q]
          /\ humanInput'[q] = humanInput[q] /\ executed'[q] = executed[q]
          /\ queue'[q] = queue[q] /\ waiting'[q] = waiting[q]
          /\ current'[q] = current[q] /\ children'[q] = children[q]

LEMMA ServesOne ==
    ASSUME IInv, NEW r \in Requests, Arrive(r) \/ Step(r) \/ Abort(r)
    PROVE  Unmoved(r)
<1>1. CASE Ask(r)
  BY <1>1 DEF IInv, TypeOK, Ask, Unmoved
<1>2. CASE RefuseQuestion(r)
  BY <1>2 DEF IInv, TypeOK, RefuseQuestion, Unmoved, shared, control, local
<1>3. ASSUME NEW named, Resume(r, named) \/ RefuseHumanInput(r, named) PROVE Unmoved(r)
  BY <1>3 DEF IInv, TypeOK, Resume, RefuseHumanInput, Unmoved, shared, local
<1>4. CASE DropErrorEntry(r) \/ Reopen(r)
  BY <1>4 DEF IInv, TypeOK, DropErrorEntry, Reopen, Unmoved, control, local
<1>5. CASE BeginNode(r) \/ Overrun(r)
  <2>1. \E e, p : executed' = [executed EXCEPT ![r] = e] /\ pc' = [pc EXCEPT ![r] = p]
    <3>1. executed = [executed EXCEPT ![r] = executed[r]]
      BY DEF IInv, TypeOK
    <3> QED
      BY <1>5, <3>1, Zenon DEF BeginNode, Overrun
  <2> QED
    BY <1>5, <2>1 DEF IInv, TypeOK, BeginNode, Overrun, Unmoved, shared, control, local
<1>6. ASSUME NEW fulfilled, FinishNode(r, fulfilled) PROVE Unmoved(r)
  BY <1>6 DEF IInv, TypeOK, FinishNode, Unmoved, shared, control
<1>7. CASE StopNode(r)
  BY <1>7 DEF IInv, TypeOK, StopNode, Unmoved, shared, control, local
<1>8. ASSUME NEW status, FailNode(r, status) PROVE Unmoved(r)
  BY <1>8 DEF IInv, TypeOK, FailNode, Unmoved, shared, control, local
<1>9. CASE DeliverOutput(r)
  BY <1>9 DEF IInv, TypeOK, DeliverOutput, Unmoved, shared, control
<1>10. CASE EndOutputs(r)
  BY <1>10 DEF IInv, TypeOK, EndOutputs, Unmoved, shared, control
<1>11. CASE Settle(r) \/ SettleFailure(r)
  BY <1>11 DEF IInv, TypeOK, Settle, SettleFailure, Unmoved, control, local
<1>12. CASE ClearAction(r) \/ SaveMessages(r) \/ LoseAnswer(r)
  BY <1>12 DEF IInv, TypeOK, ClearAction, SaveMessages, LoseAnswer, Unmoved, shared, control, local
<1>13. CASE Abort(r)
  BY <1>13 DEF Abort, Unmoved, shared, control, local
<1> QED
  BY <1>1, <1>2, <1>3, <1>4, <1>5, <1>6, <1>7, <1>8, <1>9, <1>10, <1>11, <1>12, <1>13, Zenon
  DEF Arrive, Step

(***************************************************************************)
(* One request at a time. When the client waits for each answer, the       *)
(* executor implements the lifecycle of executions. What the mapping       *)
(* needs is which row a request has in hand and in which state: InHand.    *)
(* The row was read when the request arrived, before the first write.      *)
(***************************************************************************)
Alone == \A q, r \in Requests : pc[q] \in Active /\ pc[r] \in Active => q = r

InHandAt(r) ==
    /\ pc[r] \in Active => row[r] = Len(executions)
    /\ pc[r] = "dropping" => Retryable(executions[row[r]])
    /\ pc[r] = "resuming" => executions[row[r]].state \in {"STOPPED", "INPROGRESS"}
    /\ pc[r] \in {"loop", "running", "outputs", "stopped", "failing"} =>
          executions[row[r]].state = "INPROGRESS"

InHand == \A r \in Requests : InHandAt(r)

LInv == IInv /\ Alone /\ InHand

\* A request arrives when nobody is served.
LEMMA ArrivesAlone ==
    ASSUME MaxActive = 1, NEW r \in Requests, MayArrive(r)
    PROVE  \A q \in Requests : pc[q] \notin Active
<1>1. MaxRequests \in Nat
  BY BoundAssumption
<1>2. IsFiniteSet(Requests)
  BY <1>1, FS_Interval DEF Requests
<1>3. IsFiniteSet(ActiveRequests) /\ Cardinality(ActiveRequests) \in Nat
  BY <1>2, FS_Subset, FS_CardinalityType DEF ActiveRequests
<1>4. Cardinality(ActiveRequests) = 0
  BY <1>3 DEF MayArrive
<1>5. ActiveRequests = {}
  BY <1>3, <1>4, FS_EmptySet, Zenon
<1> QED
  BY <1>5 DEF ActiveRequests

LEMMA ArriveArrives ==
    ASSUME NEW r \in Requests, Arrive(r)
    PROVE  MayArrive(r)
BY Zenon DEF Arrive, Ask, RefuseQuestion, Resume, RefuseHumanInput

\* Only a request that is served takes a step.
LEMMA StepsWhileActive ==
    ASSUME NEW r \in Requests, Step(r)
    PROVE  pc[r] \in Active
<1>1. CASE DropErrorEntry(r) \/ Reopen(r) \/ BeginNode(r) \/ Overrun(r)
  BY <1>1 DEF DropErrorEntry, Reopen, BeginNode, Overrun, Active
<1>2. CASE \E fulfilled \in Reports(r) : FinishNode(r, fulfilled)
  BY <1>2 DEF FinishNode, Active
<1>3. CASE StopNode(r) \/ \E status \in {"ERROR", "TERMINATED"} : FailNode(r, status)
  BY <1>3 DEF StopNode, FailNode, Active
<1>4. CASE DeliverOutput(r) \/ EndOutputs(r)
  BY <1>4 DEF DeliverOutput, EndOutputs, Active
<1>5. CASE Settle(r) \/ SettleFailure(r)
  BY <1>5 DEF Settle, SettleFailure, Active
<1>6. CASE ClearAction(r) \/ SaveMessages(r) \/ LoseAnswer(r)
  BY <1>6 DEF ClearAction, SaveMessages, LoseAnswer, Active
<1> QED
  BY <1>1, <1>2, <1>3, <1>4, <1>5, <1>6 DEF Step

\* So when a request arrives or takes a step, no other one is served, before or after it.
LEMMA OthersAtRest ==
    ASSUME MaxActive = 1, IInv, Alone, NEW r \in Requests, Arrive(r) \/ Step(r)
    PROVE  \A q \in Requests \ {r} : pc[q] \notin Active /\ pc'[q] = pc[q] /\ row'[q] = row[q]
<1>1. Unmoved(r)
  BY ServesOne
<1>2. CASE Arrive(r)
  BY <1>1, <1>2, ArriveArrives, ArrivesAlone DEF Unmoved
<1>3. CASE Step(r)
  BY <1>1, <1>3, StepsWhileActive DEF Unmoved, Alone
<1> QED
  BY <1>2, <1>3

LEMMA NextAlone == ASSUME MaxActive = 1, IInv, Alone, [Next]_vars PROVE Alone'
<1>1. CASE Crash
  BY <1>1 DEF Alone, Crash, Active
<1>2. ASSUME NEW r \in Requests, Arrive(r) \/ Step(r) PROVE Alone'
  BY <1>2, OthersAtRest DEF Alone
<1>3. ASSUME NEW r \in Requests, Abort(r) PROVE Alone'
  BY <1>3 DEF Abort, Alone
<1>4. CASE UNCHANGED vars
  BY <1>4 DEF Alone, vars
<1> QED
  BY <1>1, <1>2, <1>3, <1>4, Zenon DEF Next

\* A row that is written is the row of the request.
LEMMA WrittenRow ==
    ASSUME IInv, NEW i \in DOMAIN executions, NEW e,
           executions' = [executions EXCEPT ![i] = e]
    PROVE  /\ executions'[i] = e
           /\ DOMAIN executions' = DOMAIN executions
           /\ Len(executions') = Len(executions)
           /\ \A j \in DOMAIN executions \ {i} : executions'[j] = executions[j]
BY DEF IInv, TypeOK

LEMMA ArriveInHand ==
    ASSUME MaxActive = 1, LInv, NEW r \in Requests, Arrive(r)
    PROVE  InHandAt(r)'
<1>1. CASE Ask(r)
  <2>1. /\ executions \in Seq(Row) /\ row \in [Requests -> 0 .. Len(executions)]
        /\ pc \in [Requests -> {"idle"} \cup Active \cup Ended]
    BY DEF LInv, IInv, TypeOK
  <2>2. /\ Len(executions') = Len(executions) + 1 /\ Len(executions) \in Nat
        /\ executions'[Len(executions) + 1] = [state |-> "INPROGRESS", data |-> <<>>]
    BY <1>1, <2>1 DEF Ask
  <2>3. row'[r] = Len(executions) + 1 /\ pc'[r] = "loop"
    BY <1>1, <2>1 DEF Ask
  <2> QED
    BY <2>2, <2>3 DEF InHandAt
<1>2. CASE RefuseQuestion(r)
  BY <1>2 DEF LInv, IInv, TypeOK, RefuseQuestion, InHandAt, Active
<1>3. ASSUME NEW named, Resume(r, named) PROVE InHandAt(r)'
  <2>1. /\ executions' = executions /\ row'[r] = Len(executions)
        /\ pc'[r] = IF Retryable(Last(executions)) THEN "dropping" ELSE "resuming"
        /\ Resumable(Last(executions))
    BY <1>3 DEF LInv, IInv, TypeOK, Resume, CanResume, shared
  <2> QED
    BY <2>1 DEF InHandAt, Resumable, Last
<1>4. ASSUME NEW named, RefuseHumanInput(r, named) PROVE InHandAt(r)'
  BY <1>4 DEF LInv, IInv, TypeOK, RefuseHumanInput, InHandAt, Active
<1> QED
  BY <1>1, <1>2, <1>3, <1>4, Zenon DEF Arrive

LEMMA StepInHand ==
    ASSUME MaxActive = 1, LInv, NEW r \in Requests, Step(r)
    PROVE  InHandAt(r)'
<1>1. /\ InHandAt(r) /\ IInv
      /\ row[r] \in DOMAIN executions
      /\ pc \in [Requests -> {"idle"} \cup Active \cup Ended]
  BY StepsWhileActive DEF LInv, IInv, TypeOK, InHand, Placed, PlacedAt
<1>2. CASE DropErrorEntry(r) \/ Reopen(r)
  <2>1. /\ row' = row /\ pc'[r] \in {"resuming", "loop"} /\ pc[r] \in Active
        /\ \E e : /\ executions' = [executions EXCEPT ![row[r]] = e]
                  /\ e.state = "INPROGRESS"
    <3>1. CASE DropErrorEntry(r)
      <4> DEFINE e == [state |-> "INPROGRESS", data |-> executed[r]]
      <4>1. e.state = "INPROGRESS"
        OBVIOUS
      <4>2. executions' = [executions EXCEPT ![row[r]] = e]
        BY <3>1 DEF DropErrorEntry
      <4> HIDE DEF e
      <4> QED
        BY <1>1, <3>1, <4>1, <4>2 DEF DropErrorEntry, control, Active
    <3>2. CASE Reopen(r)
      <4>1. executions[row[r]] \in Row
        BY <1>1 DEF IInv, TypeOK
      <4>2. [executions[row[r]] EXCEPT !.state = "INPROGRESS"].state = "INPROGRESS"
        BY <4>1 DEF Row
      <4> QED
        BY <1>1, <3>2, <4>2 DEF Reopen, control, Active
    <3> QED
      BY <1>2, <3>1, <3>2
  <2> QED
    BY <1>1, <2>1, WrittenRow DEF InHandAt
<1>3. CASE BeginNode(r) \/ Overrun(r)
  BY <1>1, <1>3 DEF InHandAt, BeginNode, Overrun, shared, control, Active
<1>4. ASSUME NEW fulfilled, FinishNode(r, fulfilled) PROVE InHandAt(r)'
  BY <1>1, <1>4 DEF InHandAt, FinishNode, shared, control, Active
<1>5. CASE StopNode(r)
  BY <1>1, <1>5 DEF InHandAt, StopNode, shared, control, Active
<1>6. ASSUME NEW status, FailNode(r, status) PROVE InHandAt(r)'
  BY <1>1, <1>6 DEF InHandAt, FailNode, shared, control, Active
<1>7. CASE DeliverOutput(r) \/ EndOutputs(r)
  BY <1>1, <1>7 DEF InHandAt, DeliverOutput, EndOutputs, shared, control, Active
<1>8. CASE Settle(r) \/ SettleFailure(r)
  <2>1. /\ row' = row /\ pc'[r] \in {"settled", "failed"} /\ pc[r] \in Active
        /\ \E e : executions' = [executions EXCEPT ![row[r]] = e]
    BY <1>1, <1>8 DEF Settle, SettleFailure, control, Active
  <2> QED
    BY <1>1, <2>1, WrittenRow DEF InHandAt
<1>9. CASE ClearAction(r) \/ SaveMessages(r) \/ LoseAnswer(r)
  BY <1>1, <1>9 DEF InHandAt, ClearAction, SaveMessages, LoseAnswer, shared, control, Active
<1> QED
  BY <1>2, <1>3, <1>4, <1>5, <1>6, <1>7, <1>8, <1>9, Zenon DEF Step

LEMMA NextLInv == ASSUME MaxActive = 1, LInv, [Next]_vars PROVE LInv'
<1>1. IInv' /\ Alone'
  BY NextIInv, NextAlone DEF LInv
<1>2. CASE Crash
  <2>1. InHand'
    BY <1>2 DEF LInv, InHand, InHandAt, Crash, Active, shared, control
  <2> QED
    BY <1>1, <2>1 DEF LInv
<1>3. ASSUME NEW r \in Requests, Arrive(r) \/ Step(r) PROVE InHand'
  <2>1. \A q \in Requests \ {r} : pc'[q] \notin Active
    BY <1>3, OthersAtRest DEF LInv
  <2>2. InHandAt(r)'
    BY <1>3, ArriveInHand, StepInHand
  <2> QED
    BY <2>1, <2>2 DEF InHand, InHandAt, Active
<1>4. ASSUME NEW r \in Requests, Abort(r) PROVE InHand'
  BY <1>4 DEF LInv, Abort, InHand, InHandAt, shared, control
<1>5. CASE UNCHANGED vars
  <2>1. InHand'
    BY <1>5 DEF LInv, InHand, InHandAt, vars
  <2> QED
    BY <1>1, <2>1 DEF LInv
<1> QED
  BY <1>1, <1>2, <1>3, <1>4, <1>5, Zenon DEF Next, LInv

LEMMA InitLInv == Init => LInv
BY InitIInv DEF Init, LInv, Alone, InHand, InHandAt, Active

\* The states the lifecycle sees.
View == [i \in DOMAIN executions |-> LifecycleState(executions[i])]

LEMMA LifecycleStateType ==
    ASSUME NEW e \in Row
    PROVE  /\ LifecycleState(e) \in Lifecycle!LifecycleStates
           /\ LifecycleState(e) = "INPROGRESS" <=> e.state = "INPROGRESS"
BY DEF Row, States, LifecycleState, Lifecycle!LifecycleStates, Retryable

\* Writing a row changes one state of the view.
LEMMA ViewWritten ==
    ASSUME IInv, NEW i \in DOMAIN executions, NEW e,
           executions' = [executions EXCEPT ![i] = e]
    PROVE  View' = [View EXCEPT ![i] = LifecycleState(e)]
<1>1. /\ executions'[i] = e
      /\ DOMAIN executions' = DOMAIN executions
      /\ \A j \in DOMAIN executions \ {i} : executions'[j] = executions[j]
  BY WrittenRow
<1> DEFINE D == DOMAIN executions
           old == View
           new == [j \in D |-> LifecycleState(executions'[j])]
<1>2. View' = new
  BY <1>1 DEF View
<1>3. /\ new[i] = LifecycleState(e)
      /\ \A j \in D \ {i} : new[j] = LifecycleState(executions[j])
  BY <1>1
<1>4. DOMAIN old = D /\ \A j \in D : old[j] = LifecycleState(executions[j])
  BY DEF View
<1> QED
  BY <1>2, <1>3, <1>4 DEF View

\* The last row is the last state of the view.
LEMMA ViewLast ==
    ASSUME IInv
    PROVE  /\ DOMAIN View = DOMAIN executions
           /\ Len(View) = Len(executions)
           /\ \A i \in DOMAIN executions :
                 View[i] = LifecycleState(executions[i]) /\ View # <<>>
<1>1. executions \in Seq(Row) /\ Len(executions) \in Nat /\ DOMAIN executions = 1 .. Len(executions)
  BY DEF IInv, TypeOK
<1>2. View \in [1 .. Len(executions) -> Lifecycle!LifecycleStates]
  BY <1>1, LifecycleStateType DEF View
<1>3. View \in Seq(Lifecycle!LifecycleStates)
  BY <1>1, <1>2
<1>4. Len(View) = Len(executions)
  BY <1>1, <1>2, <1>3
<1> QED
  BY <1>1, <1>2, <1>3, <1>4 DEF View

LEMMA AppendIs ==
    ASSUME NEW S, NEW s \in Seq(S), NEW x \in S, NEW n, Len(s) = n
    PROVE  Append(s, x) = [i \in 1 .. n + 1 |-> IF i <= n THEN s[i] ELSE x]
<1> DEFINE t == Append(s, x)
<1>1. /\ t \in Seq(S) /\ Len(t) = n + 1 /\ n \in Nat
      /\ \A i \in 1 .. n : t[i] = s[i]
      /\ t[n + 1] = x
  OBVIOUS
<1> HIDE DEF t
<1>2. t \in [1 .. n + 1 -> S]
  BY <1>1
<1>3. \A i \in 1 .. n + 1 : t[i] = IF i <= n THEN s[i] ELSE x
  BY <1>1
<1>4. t = [i \in 1 .. n + 1 |-> t[i]]
  BY <1>2
<1>5. t = [i \in 1 .. n + 1 |-> IF i <= n THEN s[i] ELSE x]
  BY <1>3, <1>4
<1> QED
  BY <1>5 DEF t

\* A question opens an execution.
LEMMA AskOpens ==
    ASSUME LInv, NEW r \in Requests, Ask(r)
    PROVE  Lifecycle!Open
<1> DEFINE e == [state |-> "INPROGRESS", data |-> <<>>]
           n == Len(executions)
<1>1. /\ executions \in Seq(Row) /\ n \in Nat
      /\ DOMAIN executions = 1 .. n
  BY DEF LInv, IInv, TypeOK
<1>2. e.state = "INPROGRESS" /\ LifecycleState(e) = "INPROGRESS"
  BY DEF LifecycleState, Retryable
<1>3. executions' = Append(executions, e)
  BY DEF Ask
<1> HIDE DEF e
<1>4. /\ DOMAIN executions' = 1 .. n + 1
      /\ executions'[n + 1] = e
      /\ \A i \in 1 .. n : executions'[i] = executions[i]
  BY <1>1, <1>3
<1>5. View \in Seq(Lifecycle!LifecycleStates) /\ Len(View) = n
  <2>1. View \in [1 .. n -> Lifecycle!LifecycleStates]
    BY <1>1, LifecycleStateType DEF View
  <2> QED
    BY <1>1, <2>1
<1>6. View' = Append(View, "INPROGRESS")
  <2>1. View' = [i \in 1 .. n + 1 |-> LifecycleState(executions'[i])]
    BY <1>4 DEF View
  <2>2. Append(View, "INPROGRESS") = [i \in 1 .. n + 1 |-> IF i <= n THEN View[i] ELSE "INPROGRESS"]
    <3>1. "INPROGRESS" \in Lifecycle!LifecycleStates
      BY DEF Lifecycle!LifecycleStates
    <3> HIDE DEF n
    <3> QED
      BY <1>5, <3>1, AppendIs
  <2>3. \A i \in 1 .. n + 1 :
           LifecycleState(executions'[i]) = IF i <= n THEN View[i] ELSE "INPROGRESS"
    BY <1>1, <1>2, <1>4 DEF View
  <2> QED
    BY <2>1, <2>2, <2>3
<1> QED
  BY <1>6 DEF View, Lifecycle!Open

\* The first write of a resume takes the newest execution up again; the second one, after
\* an error entry was dropped, changes no state.
LEMMA ResumeTakesUp ==
    ASSUME LInv, NEW r \in Requests, DropErrorEntry(r) \/ Reopen(r)
    PROVE  Lifecycle!TakeUp \/ View' = View
<1>1. /\ IInv /\ InHandAt(r) /\ row[r] \in DOMAIN executions
      /\ pc[r] \in Active /\ row[r] = Len(executions)
      /\ executions[row[r]] \in Row
  BY DEF LInv, IInv, TypeOK, InHand, InHandAt, Placed, PlacedAt, DropErrorEntry, Reopen, Active
<1>2. PICK e : executions' = [executions EXCEPT ![row[r]] = e] /\ e.state = "INPROGRESS"
  <2>1. CASE DropErrorEntry(r)
    <3>1. [state |-> "INPROGRESS", data |-> executed[r]].state = "INPROGRESS"
      OBVIOUS
    <3> QED
      BY <2>1, <3>1, Zenon DEF DropErrorEntry
  <2>2. CASE Reopen(r)
    <3>1. [executions[row[r]] EXCEPT !.state = "INPROGRESS"].state = "INPROGRESS"
      BY <1>1 DEF Row
    <3> QED
      BY <2>2, <3>1, Zenon DEF Reopen
  <2> QED
    BY <2>1, <2>2
<1>3. LifecycleState(e) = "INPROGRESS"
  BY <1>2 DEF LifecycleState, Retryable
<1>4. View' = [View EXCEPT ![Len(executions)] = "INPROGRESS"]
  BY <1>1, <1>2, <1>3, ViewWritten
<1>5. /\ View # <<>> /\ Len(View) = Len(executions)
      /\ View[Len(executions)] = LifecycleState(executions[Len(executions)])
  BY <1>1, ViewLast
<1>6. CASE executions[row[r]].state = "INPROGRESS"
  <2>1. View[Len(executions)] = "INPROGRESS"
    BY <1>1, <1>5, <1>6 DEF LifecycleState, Retryable
  <2>2. View = [View EXCEPT ![Len(executions)] = View[Len(executions)]]
    BY DEF View
  <2> QED
    BY <1>4, <2>1, <2>2
<1>7. CASE Retryable(executions[row[r]]) \/ executions[row[r]].state = "STOPPED"
  <2>1. View[Len(executions)] \in {"STOPPED", "RETRY"}
    BY <1>1, <1>5, <1>7 DEF LifecycleState, Retryable
  <2> QED
    BY <1>4, <1>5, <2>1 DEF View, Lifecycle!TakeUp
<1> QED
  BY <1>1, <1>6, <1>7 DEF InHandAt, DropErrorEntry, Reopen

\* The last write of a request closes its execution, which is INPROGRESS until then.
LEMMA SettleCloses ==
    ASSUME LInv, NEW r \in Requests, Settle(r) \/ SettleFailure(r)
    PROVE  Lifecycle!Close(row[r]) /\ row[r] \in DOMAIN executions
<1>1. /\ IInv /\ row[r] \in DOMAIN executions
      /\ executions[row[r]].state = "INPROGRESS"
      /\ executed[r] \in Seq(Entry)
  BY DEF LInv, IInv, TypeOK, InHand, InHandAt, Placed, PlacedAt, Settle, SettleFailure, Active
<1>2. PICK s \in States \ {"INPROGRESS"} :
         executions' = [executions EXCEPT ![row[r]] = [state |-> s, data |-> executed[r]]]
  <2>1. CASE Settle(r)
    BY <2>1, FinalStateType DEF Settle
  <2>2. CASE SettleFailure(r)
    <3>1. executed[r] # <<>>
      BY <2>2 DEF LInv, IInv, Placed, PlacedAt, SettleFailure
    <3>2. Last(executed[r]) \in Entry
      BY <1>1, <3>1, LastType
    <3>3. Last(executed[r]).status \in States \ {"INPROGRESS"}
      BY <3>2 DEF Entry
    <3> QED
      BY <2>2, <3>3 DEF SettleFailure
  <2> QED
    BY <2>1, <2>2
<1> DEFINE e == [state |-> s, data |-> executed[r]]
<1>3. e \in Row /\ e.state # "INPROGRESS"
  BY <1>1 DEF Row
<1>4. executions' = [executions EXCEPT ![row[r]] = e]
  BY <1>2
<1> HIDE DEF e
<1>5. LifecycleState(e) \in Lifecycle!LifecycleStates \ {"INPROGRESS"}
  BY <1>3, LifecycleStateType
<1>6. View' = [View EXCEPT ![row[r]] = LifecycleState(e)]
  BY <1>1, <1>4, ViewWritten
<1>7. View[row[r]] = "INPROGRESS"
  BY <1>1, ViewLast DEF LifecycleState, Retryable
<1> QED
  BY <1>1, <1>5, <1>6, <1>7 DEF View, Lifecycle!Close

\* Every step of the executor is a step of the lifecycle or changes no state.
LEMMA StepOfLifecycle ==
    ASSUME MaxActive = 1, LInv, [Next]_vars
    PROVE  Lifecycle!LifecycleNext \/ View' = View
<1>1. CASE executions' = executions
  BY <1>1 DEF View
<1>2. ASSUME NEW r \in Requests, Ask(r) PROVE Lifecycle!LifecycleNext
  BY <1>2, AskOpens DEF Lifecycle!LifecycleNext
<1>3. ASSUME NEW r \in Requests, DropErrorEntry(r) \/ Reopen(r)
      PROVE  Lifecycle!LifecycleNext \/ View' = View
  BY <1>3, ResumeTakesUp DEF Lifecycle!LifecycleNext
<1>4. ASSUME NEW r \in Requests, Settle(r) \/ SettleFailure(r)
      PROVE  Lifecycle!LifecycleNext
  <2>1. Lifecycle!Close(row[r]) /\ row[r] \in DOMAIN View
    BY <1>4, SettleCloses DEF View
  <2> QED
    BY <2>1 DEF Lifecycle!LifecycleNext, View
<1>5. ASSUME NEW r \in Requests, Arrive(r), ~Ask(r) PROVE executions' = executions
  BY <1>5 DEF Arrive, RefuseQuestion, Resume, RefuseHumanInput, shared
<1>6. ASSUME NEW r \in Requests, Step(r),
             ~(DropErrorEntry(r) \/ Reopen(r) \/ Settle(r) \/ SettleFailure(r))
      PROVE  executions' = executions
  <2>1. ASSUME NEW fulfilled, FinishNode(r, fulfilled) PROVE executions' = executions
    BY <2>1 DEF FinishNode, shared
  <2>2. ASSUME NEW status, FailNode(r, status) PROVE executions' = executions
    BY <2>2 DEF FailNode, shared
  <2>3. CASE BeginNode(r) \/ Overrun(r) \/ StopNode(r) \/ DeliverOutput(r) \/ EndOutputs(r)
    BY <2>3 DEF BeginNode, Overrun, StopNode, DeliverOutput, EndOutputs, shared
  <2>4. CASE ClearAction(r) \/ SaveMessages(r) \/ LoseAnswer(r)
    BY <2>4 DEF ClearAction, SaveMessages, LoseAnswer, shared
  <2> QED
    BY <1>6, <2>1, <2>2, <2>3, <2>4, Zenon DEF Step
<1>7. CASE Crash \/ (\E r \in Requests : Abort(r)) \/ UNCHANGED vars
  <2>1. executions' = executions
    BY <1>7 DEF Crash, Abort, vars, shared
  <2> QED
    BY <1>1, <2>1
<1> QED
  BY <1>1, <1>2, <1>3, <1>4, <1>5, <1>6, <1>7, Zenon DEF Next

\* When the requests of a session come one at a time, through any agentflow, failure, abort
\* and crash, the executor implements the lifecycle of executions: what is FINISHED,
\* TERMINATED or failed elsewhere is never run again, and an older execution is never taken
\* up after a newer one was opened (executeAgentFlow reads the row it resumes once, when
\* the request arrives).
THEOREM LifecycleImplemented == MaxActive = 1 => (Spec => ImplementsLifecycle)
<1> SUFFICES ASSUME MaxActive = 1 PROVE Spec => ImplementsLifecycle
  OBVIOUS
<1>1. Init => Lifecycle!LifecycleInit
  BY DEF Init, Lifecycle!LifecycleInit
<1>2. LInv /\ [Next]_vars => [Lifecycle!LifecycleNext]_View
  BY StepOfLifecycle
<1>3. LInv /\ [Next]_vars => LInv'
  BY NextLInv
<1> QED
  BY <1>1, <1>2, <1>3, InitLInv, PTL DEF Spec, ImplementsLifecycle, Lifecycle!LifecycleSpec, View

(***************************************************************************)
(* What a request does to its executed data and to its row.                *)
(***************************************************************************)
LEMMA AppendedEntry ==
    ASSUME NEW S, NEW d \in Seq(S), NEW e \in S
    PROVE  /\ Append(d, e) \in Seq(S)
           /\ Len(Append(d, e)) = Len(d) + 1
           /\ DOMAIN Append(d, e) = DOMAIN d \cup {Len(d) + 1}
           /\ \A i \in DOMAIN d : Append(d, e)[i] = d[i]
           /\ Append(d, e)[Len(d) + 1] = e
           /\ Last(Append(d, e)) = e
<1> DEFINE t == Append(d, e)
<1>1. /\ t \in Seq(S) /\ Len(t) = Len(d) + 1 /\ Len(d) \in Nat
      /\ \A i \in 1 .. Len(d) : t[i] = d[i]
      /\ t[Len(d) + 1] = e
  OBVIOUS
<1> HIDE DEF t
<1>2. DOMAIN t = 1 .. Len(d) + 1 /\ DOMAIN d = 1 .. Len(d)
  BY <1>1
<1>3. 1 .. Len(d) + 1 = (1 .. Len(d)) \cup {Len(d) + 1}
  BY <1>1
<1>4. Last(t) = e
  BY <1>1 DEF Last
<1> QED
  BY <1>1, <1>2, <1>3, <1>4 DEF t

\* The entries that are kept when a node has run: those of the node go when the human
\* answered it.
LEMMA KeptEntries ==
    ASSUME IInv, NEW r \in Requests
    PROVE  /\ Kept(r) \in Seq(Entry)
           /\ \A k \in DOMAIN Kept(r) : \E i \in DOMAIN executed[r] :
                 /\ Kept(r)[k] = executed[r][i]
                 /\ IsAnswered(r) => executed[r][i].node # current[r]
           /\ \A i \in DOMAIN executed[r] :
                 \/ IsAnswered(r) /\ executed[r][i].node = current[r]
                 \/ \E k \in DOMAIN Kept(r) : Kept(r)[k] = executed[r][i]
<1>1. executed[r] \in Seq(Entry)
  BY DEF IInv, TypeOK
<1>2. CASE IsAnswered(r)
  <2> DEFINE I == {i \in DOMAIN executed[r] : executed[r][i].node # current[r]}
  <2>1. Kept(r) = Pick(executed[r], I)
    BY <1>2 DEF Kept, Without
  <2>2. I \subseteq DOMAIN executed[r] /\ \A i \in DOMAIN executed[r] : i \in I <=> executed[r][i].node # current[r]
    OBVIOUS
  <2> HIDE DEF I
  <2>3. /\ \A i \in I : \E k \in DOMAIN Kept(r) : Kept(r)[k] = executed[r][i]
        /\ \A k \in DOMAIN Kept(r) : \E i \in I : Kept(r)[k] = executed[r][i]
    <3> DEFINE kept == Pick(executed[r], I)
    <3>1. /\ \A i \in I : \E k \in DOMAIN kept : kept[k] = executed[r][i]
          /\ \A k \in DOMAIN kept : \E i \in I : kept[k] = executed[r][i]
      <4>1. I \in SUBSET (DOMAIN executed[r])
        BY <2>2
      <4> QED
        BY <1>1, <4>1, PickKeeps, Zenon
    <3>2. Kept(r) = kept
      BY <2>1
    <3> HIDE DEF kept
    <3> QED
      BY <3>1, <3>2
  <2>4. Kept(r) \in Seq(Entry)
    BY <1>1, <2>1, <2>2, PickType, Zenon
  <2> QED
    BY <1>2, <2>2, <2>3, <2>4, Zenon
<1>3. CASE ~IsAnswered(r)
  BY <1>1, <1>3, Zenon DEF Kept
<1> QED
  BY <1>2, <1>3

\* The kept entries stay in their order.
LEMMA KeptInOrder ==
    ASSUME IInv, NEW r \in Requests
    PROVE  \E at \in [DOMAIN Kept(r) -> DOMAIN executed[r]] :
              /\ \A k \in DOMAIN Kept(r) : Kept(r)[k] = executed[r][at[k]]
              /\ \A k, l \in DOMAIN Kept(r) : k < l => at[k] < at[l]
              /\ \A i \in DOMAIN executed[r] :
                    \/ IsAnswered(r) /\ executed[r][i].node = current[r]
                    \/ \E k \in DOMAIN Kept(r) : at[k] = i
<1> DEFINE d == executed[r]
           kept == Kept(r)
<1>1. d \in Seq(Entry)
  BY DEF IInv, TypeOK
<1>2. CASE IsAnswered(r)
  <2> DEFINE I == {i \in DOMAIN d : d[i].node # current[r]}
  <2>1. kept = Pick(d, I)
    BY <1>2 DEF Kept, Without
  <2>2. I \in SUBSET (DOMAIN d)
    OBVIOUS
  <2>3. \A i \in DOMAIN d : i \in I \/ d[i].node = current[r]
    OBVIOUS
  <2> HIDE DEF I, d, kept
  <2>4. PICK at \in [DOMAIN Pick(d, I) -> I] :
              /\ \A k \in DOMAIN Pick(d, I) : Pick(d, I)[k] = d[at[k]]
              /\ \A k, l \in DOMAIN Pick(d, I) : k < l => at[k] < at[l]
              /\ \A i \in I : \E k \in DOMAIN Pick(d, I) : at[k] = i
    BY <1>1, <2>2, PickOrder
  <2>5. at \in [DOMAIN kept -> DOMAIN d]
    BY <2>1, <2>2, <2>4
  <2>6. /\ \A k \in DOMAIN kept : kept[k] = d[at[k]]
        /\ \A k, l \in DOMAIN kept : k < l => at[k] < at[l]
        /\ \A i \in DOMAIN d : (IsAnswered(r) /\ d[i].node = current[r])
                               \/ \E k \in DOMAIN kept : at[k] = i
    BY <1>2, <2>1, <2>3, <2>4, Zenon
  <2> QED
    BY <2>5, <2>6, Zenon DEF d, kept
<1>3. CASE ~IsAnswered(r)
  <2> DEFINE at == [k \in DOMAIN d |-> k]
  <2>1. kept = d
    BY <1>3 DEF Kept
  <2> HIDE DEF kept, d
  <2>2. at \in [DOMAIN kept -> DOMAIN d] /\ \A k \in DOMAIN kept : at[k] = k
    BY <2>1
  <2> HIDE DEF at
  <2>3. /\ \A k \in DOMAIN kept : kept[k] = d[at[k]]
        /\ \A k, l \in DOMAIN kept : k < l => at[k] < at[l]
        /\ \A i \in DOMAIN d : \E k \in DOMAIN kept : at[k] = i
    BY <2>1, <2>2
  <2> QED
    BY <2>2, <2>3, Zenon DEF d, kept
<1> QED
  BY <1>2, <1>3

\* A step adds at most one entry, that of the current node, which only a finished or a
\* stopped run of an answered node does in place of the entries it had.
Failed(r, e) ==
    /\ pc[r] \in {"loop", "running"} /\ pc'[r] = "failing"
    /\ executed'[r] = Append(executed[r], e)
    /\ e.status \in {"ERROR", "TERMINATED"} /\ e.taken = {}
    /\ humanInput'[r] = humanInput[r]

Ran(r, e) ==
    /\ pc[r] = "running"
    /\ executed'[r] = Append(Kept(r), e)
    /\ e.node = current[r]
    /\ \/ e.status = "FINISHED" /\ pc'[r] = "outputs"
       \/ /\ e.status = "STOPPED" /\ pc'[r] = "stopped" /\ e.taken = {}
          /\ F.kind[current[r]] \in {"human", "agent"}
    /\ humanInput'[r] = UsedUp(r)

LEMMA BeginNodeExecuted ==
    ASSUME IInv, NEW r \in Requests, BeginNode(r)
    PROVE  \/ pc'[r] = "running" /\ executed' = executed
           \/ \E e \in Entry : Failed(r, e)
<1> DEFINE e == [node |-> Head(queue[r]), status |-> "TERMINATED", taken |-> {}]
<1>1. /\ executed \in [Requests -> Seq(Entry)]
      /\ pc \in [Requests -> {"idle"} \cup Active \cup Ended]
      /\ queue[r] # <<>> => Head(queue[r]) \in Node
  BY DEF IInv, TypeOK
<1>2. e \in Entry /\ e.status = "TERMINATED" /\ e.taken = {}
  BY <1>1 DEF BeginNode, Entry, States
<1>3. CASE r \in aborted
  <2>1. executed' = [executed EXCEPT ![r] = Append(executed[r], e)]
    BY <1>3 DEF BeginNode
  <2> HIDE DEF e
  <2> QED
    BY <1>1, <1>2, <1>3, <2>1 DEF BeginNode, Failed
<1>4. CASE r \notin aborted
  BY <1>1, <1>4 DEF BeginNode
<1> QED
  BY <1>3, <1>4

LEMMA FinishNodeRan ==
    ASSUME IInv, NEW r \in Requests, NEW fulfilled \in Reports(r), FinishNode(r, fulfilled)
    PROVE  \E e \in Entry : Ran(r, e)
<1>1. /\ executed \in [Requests -> Seq(Entry)]
      /\ humanInput \in [Requests -> Node \cup {NoNode}]
      /\ pc \in [Requests -> {"idle"} \cup Active \cup Ended]
      /\ F \in Flow /\ current[r] \in Node /\ fulfilled \in SUBSET Nat
  BY FlowType, ReportsType DEF IInv, TypeOK, Placed, PlacedAt, FinishNode
<1> DEFINE taken == IF IsDecision(F, current[r]) THEN Taken(F, current[r], fulfilled) ELSE {}
           e == [node |-> current[r], status |-> "FINISHED", taken |-> taken]
<1>2. taken \in SUBSET Nat
  BY <1>1, TakenType
<1>3. executed' = [executed EXCEPT ![r] = Append(Kept(r), e)]
  BY DEF FinishNode
<1> HIDE DEF taken
<1>4. e \in Entry /\ e.status = "FINISHED" /\ e.node = current[r]
  BY <1>1, <1>2 DEF Entry, States
<1> HIDE DEF e
<1> QED
  BY <1>1, <1>3, <1>4 DEF FinishNode, Ran

LEMMA StopNodeRan ==
    ASSUME IInv, NEW r \in Requests, StopNode(r)
    PROVE  \E e \in Entry : Ran(r, e)
<1> DEFINE e == [node |-> current[r], status |-> "STOPPED", taken |-> {}]
<1>1. /\ executed \in [Requests -> Seq(Entry)]
      /\ humanInput \in [Requests -> Node \cup {NoNode}]
      /\ pc \in [Requests -> {"idle"} \cup Active \cup Ended]
      /\ current[r] \in Node
  BY DEF IInv, TypeOK, Placed, PlacedAt, StopNode
<1>2. e \in Entry /\ e.status = "STOPPED" /\ e.node = current[r] /\ e.taken = {}
  BY <1>1 DEF Entry, States
<1>3. executed' = [executed EXCEPT ![r] = Append(Kept(r), e)]
  BY DEF StopNode
<1> HIDE DEF e
<1>4. Ran(r, e)
  BY <1>1, <1>2, <1>3 DEF StopNode, Ran
<1> QED
  BY <1>2, <1>4

LEMMA FailNodeFailed ==
    ASSUME IInv, NEW r \in Requests, NEW status \in {"ERROR", "TERMINATED"},
           FailNode(r, status)
    PROVE  \E e \in Entry : Failed(r, e)
<1> DEFINE e == [node |-> current[r], status |-> status, taken |-> {}]
<1>1. /\ executed \in [Requests -> Seq(Entry)]
      /\ pc \in [Requests -> {"idle"} \cup Active \cup Ended]
      /\ current[r] \in Node
  BY DEF IInv, TypeOK, Placed, PlacedAt, FailNode
<1>2. e \in Entry /\ e.status = status /\ e.taken = {}
  BY <1>1 DEF Entry, States
<1>3. executed' = [executed EXCEPT ![r] = Append(executed[r], e)]
  BY DEF FailNode
<1> HIDE DEF e
<1>4. Failed(r, e)
  BY <1>1, <1>2, <1>3 DEF FailNode, Failed
<1> QED
  BY <1>2, <1>4

LEMMA StepExecuted ==
    ASSUME IInv, NEW r \in Requests, Step(r)
    PROVE  \/ executed'[r] = executed[r] /\ humanInput'[r] \in {humanInput[r], NoNode}
           \/ \E e \in Entry : Failed(r, e) \/ Ran(r, e)
<1>1. CASE BeginNode(r)
  BY <1>1, BeginNodeExecuted DEF BeginNode
<1>2. CASE \E fulfilled \in Reports(r) : FinishNode(r, fulfilled)
  BY <1>2, FinishNodeRan
<1>3. CASE StopNode(r) \/ \E status \in {"ERROR", "TERMINATED"} : FailNode(r, status)
  BY <1>3, StopNodeRan, FailNodeFailed
<1>4. CASE DropErrorEntry(r) \/ Reopen(r) \/ Overrun(r) \/ DeliverOutput(r)
  BY <1>4 DEF DropErrorEntry, Reopen, Overrun, DeliverOutput
<1>5. CASE EndOutputs(r)
  BY <1>5 DEF EndOutputs, IInv, TypeOK
<1>6. CASE Settle(r) \/ SettleFailure(r) \/ ClearAction(r) \/ SaveMessages(r) \/ LoseAnswer(r)
  BY <1>6 DEF Settle, SettleFailure, ClearAction, SaveMessages, LoseAnswer
<1> QED
  BY <1>1, <1>2, <1>3, <1>4, <1>5, <1>6, Zenon DEF Step

\* A step writes no row or that of the request: the executed data, or the state alone.
LEMMA StepRow ==
    ASSUME IInv, NEW r \in Requests, Step(r)
    PROVE  /\ row[r] \in DOMAIN executions
           /\ row' = row
           /\ \/ executions' = executions
              \/ \E e \in Row : /\ executions' = [executions EXCEPT ![row[r]] = e]
                                /\ e.data \in {executed[r], executions[row[r]].data}
                                /\ executed' = executed
<1>1. /\ row[r] \in DOMAIN executions
      /\ executions[row[r]] \in Row
      /\ executed[r] \in Seq(Entry)
  BY StepsWhileActive DEF IInv, TypeOK, Placed, PlacedAt
<1>2. ASSUME NEW s \in States,
             executions' = [executions EXCEPT ![row[r]] = [state |-> s, data |-> executed[r]]]
      PROVE  \E e \in Row : /\ executions' = [executions EXCEPT ![row[r]] = e]
                            /\ e.data = executed[r]
  <2> DEFINE e == [state |-> s, data |-> executed[r]]
  <2>1. e \in Row /\ e.data = executed[r]
    BY <1>1 DEF Row
  <2>2. executions' = [executions EXCEPT ![row[r]] = e]
    BY <1>2
  <2> HIDE DEF e
  <2> QED
    BY <2>1, <2>2
<1>3. CASE DropErrorEntry(r)
  <2>1. "INPROGRESS" \in States
    BY DEF States
  <2> QED
    BY <1>1, <1>2, <1>3, <2>1 DEF DropErrorEntry, control
<1>4. CASE Reopen(r)
  <2> DEFINE e == [executions[row[r]] EXCEPT !.state = "INPROGRESS"]
  <2>1. e \in Row
    BY <1>1, RowReopened, Zenon
  <2>2. e.data = executions[row[r]].data
    BY <1>1 DEF Row
  <2>3. executions' = [executions EXCEPT ![row[r]] = e]
    BY <1>4, Zenon DEF Reopen
  <2> HIDE DEF e
  <2> QED
    BY <1>1, <1>4, <2>1, <2>2, <2>3 DEF Reopen, control
<1>5. CASE Settle(r)
  BY <1>1, <1>2, <1>5, FinalStateType DEF Settle, control
<1>6. CASE SettleFailure(r)
  <2>1. executed[r] # <<>>
    BY <1>6 DEF IInv, Placed, PlacedAt, SettleFailure
  <2>2. Last(executed[r]) \in Entry
    BY <1>1, <2>1, LastType
  <2>3. Last(executed[r]).status \in States
    BY <2>2 DEF Entry
  <2> QED
    BY <1>1, <1>2, <1>6, <2>3 DEF SettleFailure, control
<1>7. CASE BeginNode(r) \/ Overrun(r) \/ StopNode(r) \/ DeliverOutput(r) \/ EndOutputs(r)
  BY <1>1, <1>7 DEF BeginNode, Overrun, StopNode, DeliverOutput, EndOutputs, shared, control
<1>8. CASE \E fulfilled \in Reports(r) : FinishNode(r, fulfilled)
  BY <1>1, <1>8 DEF FinishNode, shared, control
<1>9. CASE \E status \in {"ERROR", "TERMINATED"} : FailNode(r, status)
  BY <1>1, <1>9 DEF FailNode, shared, control
<1>10. CASE ClearAction(r) \/ SaveMessages(r) \/ LoseAnswer(r)
  BY <1>1, <1>10 DEF ClearAction, SaveMessages, LoseAnswer, shared, control
<1> QED
  BY <1>3, <1>4, <1>5, <1>6, <1>7, <1>8, <1>9, <1>10 DEF Step

(***************************************************************************)
(* Finished work. Only a node that waits for a human is ever run again, so *)
(* only its entries are ever dropped: the stops in the data are of such    *)
(* nodes (Stops), and so is the node a human input names. A request that   *)
(* is served has every finished step of its row in hand (Work), because    *)
(* nobody else writes the row meanwhile.                                   *)
(***************************************************************************)
Waits(n) == F.kind[n] \in {"human", "agent"}

StopsWait(d) == \A i \in DOMAIN d : d[i].status = "STOPPED" => Waits(d[i].node)

Stops ==
    /\ \A i \in DOMAIN executions : StopsWait(executions[i].data)
    /\ \A r \in Requests :
          StopsWait(executed[r]) /\ (humanInput[r] # NoNode => Waits(humanInput[r]))

\* Every finished step of d that is not repeated is in e.
Carries(d, e) ==
    \A i \in DOMAIN d : d[i].status = "FINISHED" /\ ~Waits(d[i].node) => Finished(e, d[i].node)

Work == \A r \in Requests : pc[r] \in Active => Carries(executions[row[r]].data, executed[r])

\* What a resume continues with is the data of the row, but for an error at its end.
LEMMA ResumedEntries ==
    ASSUME NEW e \in Row
    PROVE  /\ ResumeData(e) \in Seq(Entry) /\ e.data \in Seq(Entry)
           /\ DOMAIN ResumeData(e) \subseteq DOMAIN e.data
           /\ \A i \in DOMAIN ResumeData(e) : ResumeData(e)[i] = e.data[i]
           /\ \A i \in DOMAIN e.data : i \in DOMAIN ResumeData(e) \/ e.data[i].status = "ERROR"
<1>1. e.data \in Seq(Entry)
  BY DEF Row
<1>2. CASE Retryable(e)
  <2> DEFINE d == e.data
             n == Len(d)
  <2>1. n >= 2 /\ d[n].status = "ERROR" /\ d \in Seq(Entry) /\ n \in Nat
    BY <1>1, <1>2 DEF Retryable, EndsInRetry
  <2>2. ResumeData(e) = SubSeq(d, 1, n - 1)
    BY <1>2 DEF ResumeData
  <2> HIDE DEF d
  <2>3. /\ SubSeq(d, 1, n - 1) \in Seq(Entry)
        /\ DOMAIN SubSeq(d, 1, n - 1) = 1 .. n - 1
        /\ DOMAIN d = 1 .. n
        /\ \A i \in 1 .. n - 1 : SubSeq(d, 1, n - 1)[i] = d[i]
    BY <2>1
  <2>4. \A i \in 1 .. n : i \in 1 .. n - 1 \/ i = n
    BY <2>1
  <2>5. 1 .. n - 1 \subseteq 1 .. n
    BY <2>1
  <2> QED
    BY <2>1, <2>2, <2>3, <2>4, <2>5 DEF d
<1>3. CASE ~Retryable(e)
  BY <1>1, <1>3 DEF ResumeData
<1> QED
  BY <1>2, <1>3

\* The most recent stop is a stop, when there is one.
LEMMA LastStoppedIs ==
    ASSUME NEW d \in Seq(Entry), LastStopped(d) # NoNode
    PROVE  \E i \in DOMAIN d :
              /\ d[i].status = "STOPPED" /\ d[i].node = LastStopped(d)
              /\ \A j \in DOMAIN d : d[j].status = "STOPPED" => j <= i
<1> DEFINE stops == {i \in DOMAIN d : d[i].status = "STOPPED"}
           last == CHOOSE i \in stops : \A j \in stops : j <= i
<1>1. stops # {} /\ LastStopped(d) = d[last].node
  BY DEF LastStopped
<1>2. Len(d) \in Nat /\ DOMAIN d = 1 .. Len(d) /\ stops \in SUBSET (1 .. Len(d))
  OBVIOUS
<1> HIDE DEF stops
<1>3. \E i \in stops : \A j \in stops : j <= i
  BY <1>1, <1>2, GreatestPosition
<1>4. last \in stops /\ \A j \in stops : j <= last
  BY <1>3
<1> HIDE DEF last
<1> QED
  BY <1>1, <1>4 DEF stops

\* The agentflow stays the same, and so does which nodes wait.
LEMMA FlowStays == ASSUME chatflow' = chatflow PROVE F' = F
BY DEF F

\* The node a human input names waits for a human: it is one of the stops.
LEMMA NamedWaits ==
    ASSUME IInv, Stops, NEW named \in NamedStops, CanResume(named)
    PROVE  /\ ResumeNode(ResumeData(Last(executions)), named) \in Node
           /\ Waits(ResumeNode(ResumeData(Last(executions)), named))
<1> DEFINE d == ResumeData(Last(executions))
           n == ResumeNode(d, named)
<1>1. /\ Last(executions) \in Row /\ Len(executions) \in DOMAIN executions
      /\ Last(executions) = executions[Len(executions)]
  BY LastType DEF IInv, TypeOK, CanResume, Last
<1>2. d \in Seq(Entry) /\ StopsWait(d)
  BY <1>1, ResumedEntries DEF Stops, StopsWait
<1>3. n \in Node
  <2>1. PICK i \in DOMAIN d : d[i].node = n
    BY DEF CanResume
  <2> HIDE DEF d
  <2>2. d[i] \in Entry
    BY <1>2, <2>1
  <2> QED
    BY <2>1, <2>2 DEF Entry
<1>4. n # NoNode
  BY <1>3, FlowAssumption
<1>5. CASE named = NoNode
  <2>1. n = LastStopped(d)
    BY <1>5 DEF ResumeNode
  <2> HIDE DEF d
  <2>2. PICK i \in DOMAIN d : d[i].status = "STOPPED" /\ d[i].node = n
    BY <1>2, <1>4, <2>1, LastStoppedIs
  <2> QED
    BY <1>2, <1>3, <2>2 DEF StopsWait, d
<1>6. CASE named # NoNode
  <2>1. n = named
    BY <1>6 DEF ResumeNode
  <2>2. PICK i \in DOMAIN executions : \E j \in DOMAIN executions[i].data :
           executions[i].data[j].status = "STOPPED" /\ executions[i].data[j].node = named
    <3>1. Len(executions) \in DOMAIN executions
      BY <1>1
    <3> QED
      BY <1>6, <3>1 DEF NamedStops
  <2> QED
    BY <1>3, <2>1, <2>2 DEF Stops, StopsWait
<1> QED
  BY <1>3, <1>5, <1>6

LEMMA StopsFrame ==
    ASSUME IInv, Stops, NEW r \in Requests, Unmoved(r),
           \A i \in DOMAIN executions' : StopsWait(executions'[i].data),
           StopsWait(executed'[r]),
           humanInput'[r] # NoNode => Waits(humanInput'[r])
    PROVE  Stops'
<1>1. F' = F
  BY FlowStays DEF Unmoved
<1>2. \A q \in Requests : q = r \/ (executed'[q] = executed[q] /\ humanInput'[q] = humanInput[q])
  BY DEF Unmoved
<1> QED
  BY <1>1, <1>2 DEF Stops, StopsWait, Waits

LEMMA ArriveStops == ASSUME IInv, Stops, NEW r \in Requests, Arrive(r) PROVE Stops'
<1>1. Unmoved(r)
  BY ServesOne
<1>2. /\ executions \in Seq(Row) /\ executed \in [Requests -> Seq(Entry)]
      /\ humanInput \in [Requests -> Node \cup {NoNode}]
  BY DEF IInv, TypeOK
<1>3. CASE Ask(r)
  <2>1. executed'[r] = executed[r] /\ humanInput'[r] = humanInput[r]
    BY <1>3 DEF Ask
  <2>2. \A i \in DOMAIN executions' : StopsWait(executions'[i].data)
    <3> DEFINE e == [state |-> "INPROGRESS", data |-> <<>>]
    <3>1. e \in Row /\ e.data = <<>>
      BY DEF Row, States
    <3>2. executions' = Append(executions, e)
      BY <1>3 DEF Ask
    <3> HIDE DEF e
    <3>3. /\ DOMAIN executions' = DOMAIN executions \cup {Len(executions) + 1}
          /\ executions'[Len(executions) + 1] = e
          /\ \A i \in DOMAIN executions : executions'[i] = executions[i]
      BY <1>2, <3>1, <3>2, AppendedEntry
    <3>4. StopsWait(e.data)
      BY <3>1 DEF StopsWait
    <3> QED
      BY <3>3, <3>4 DEF Stops
  <2> QED
    BY <1>1, <2>1, <2>2, StopsFrame DEF Stops
<1>4. CASE RefuseQuestion(r)
  <2>1. executions' = executions /\ executed' = executed /\ humanInput' = humanInput
    BY <1>4 DEF RefuseQuestion, shared
  <2> QED
    BY <1>1, <2>1, StopsFrame DEF Stops
<1>5. ASSUME NEW named \in NamedStops, Resume(r, named) PROVE Stops'
  <2> DEFINE d == ResumeData(Last(executions))
  <2>1. /\ executions' = executions /\ executed'[r] = d
        /\ humanInput'[r] = ResumeNode(d, named) /\ CanResume(named)
    BY <1>2, <1>5 DEF Resume, shared
  <2>2. /\ Last(executions) \in Row /\ Len(executions) \in DOMAIN executions
        /\ Last(executions) = executions[Len(executions)]
    BY <1>2, <2>1, LastType DEF CanResume, Last
  <2>3. StopsWait(d)
    BY <2>2, ResumedEntries DEF Stops, StopsWait
  <2>4. Waits(ResumeNode(d, named))
    BY <2>1, NamedWaits
  <2> QED
    BY <1>1, <2>1, <2>3, <2>4, StopsFrame DEF Stops
<1>6. ASSUME NEW named, RefuseHumanInput(r, named) PROVE Stops'
  <2>1. executions' = executions /\ executed' = executed /\ humanInput' = humanInput
    BY <1>6 DEF RefuseHumanInput, shared
  <2> QED
    BY <1>1, <2>1, StopsFrame DEF Stops
<1> QED
  BY <1>3, <1>4, <1>5, <1>6, Zenon DEF Arrive

LEMMA StepStops == ASSUME IInv, Stops, NEW r \in Requests, Step(r) PROVE Stops'
<1>1. Unmoved(r)
  BY ServesOne
<1>2. StopsWait(executed[r]) /\ executed[r] \in Seq(Entry) /\ row[r] \in DOMAIN executions
  BY StepRow DEF Stops, IInv, TypeOK
<1>3. \A i \in DOMAIN executions' : StopsWait(executions'[i].data)
  <2>1. CASE executions' = executions
    BY <2>1 DEF Stops
  <2>2. ASSUME NEW e \in Row, executions' = [executions EXCEPT ![row[r]] = e],
               e.data \in {executed[r], executions[row[r]].data}
        PROVE  \A i \in DOMAIN executions' : StopsWait(executions'[i].data)
    <3>1. StopsWait(e.data)
      BY <1>2, <2>2 DEF Stops
    <3>2. /\ executions'[row[r]] = e /\ DOMAIN executions' = DOMAIN executions
          /\ \A j \in DOMAIN executions \ {row[r]} : executions'[j] = executions[j]
      BY <1>2, <2>2, WrittenRow
    <3> QED
      BY <3>1, <3>2 DEF Stops
  <2> QED
    BY <2>1, <2>2, StepRow
<1>4. StopsWait(executed'[r]) /\ (humanInput'[r] # NoNode => Waits(humanInput'[r]))
  <2>1. CASE executed'[r] = executed[r] /\ humanInput'[r] \in {humanInput[r], NoNode}
    BY <1>2, <2>1 DEF Stops
  <2>2. ASSUME NEW e \in Entry, Failed(r, e)
        PROVE  StopsWait(executed'[r]) /\ (humanInput'[r] # NoNode => Waits(humanInput'[r]))
    BY <1>2, <2>2, AppendedEntry DEF Failed, StopsWait, Stops
  <2>3. ASSUME NEW e \in Entry, Ran(r, e)
        PROVE  StopsWait(executed'[r]) /\ (humanInput'[r] # NoNode => Waits(humanInput'[r]))
    <3>1. Kept(r) \in Seq(Entry) /\ StopsWait(Kept(r))
      BY <1>2, KeptEntries DEF StopsWait
    <3>2. e.status = "STOPPED" => Waits(e.node)
      BY <2>3 DEF Ran, Waits
    <3>3. StopsWait(Append(Kept(r), e))
      BY <3>1, <3>2, AppendedEntry DEF StopsWait
    <3>4. UsedUp(r) \in {humanInput[r], NoNode}
      BY DEF UsedUp
    <3> QED
      BY <2>3, <3>3, <3>4 DEF Ran, Stops
  <2> QED
    BY <2>1, <2>2, <2>3, StepExecuted
<1> QED
  BY <1>1, <1>3, <1>4, StopsFrame

LEMMA NextStops == ASSUME IInv, Stops, [Next]_vars PROVE Stops'
<1>1. CASE Crash \/ (\E r \in Requests : Abort(r)) \/ UNCHANGED vars
  <2>1. /\ executions' = executions /\ executed' = executed
        /\ humanInput' = humanInput /\ chatflow' = chatflow
    BY <1>1 DEF Crash, Abort, vars, shared
  <2> QED
    BY <2>1 DEF Stops, StopsWait, Waits, F
<1> QED
  BY <1>1, ArriveStops, StepStops, Zenon DEF Next

LEMMA InitStops == Init => Stops
BY DEF Init, Stops, StopsWait

LEMMA CarriesAlong ==
    ASSUME NEW d, NEW e, NEW f, Carries(d, e), Carries(e, f)
    PROVE  Carries(d, f)
BY DEF Carries, Finished

LEMMA CarriesItself == \A d : Carries(d, d)
BY DEF Carries, Finished

\* No step drops a finished step of a node that does not wait.
LEMMA StepCarries ==
    ASSUME IInv, Stops, NEW r \in Requests, Step(r)
    PROVE  Carries(executed[r], executed'[r])
<1>1. executed[r] \in Seq(Entry)
  BY DEF IInv, TypeOK
<1>2. CASE executed'[r] = executed[r]
  BY <1>2, CarriesItself
<1>3. ASSUME NEW e \in Entry, Failed(r, e) PROVE Carries(executed[r], executed'[r])
  BY <1>1, <1>3, AppendedEntry DEF Failed, Carries, Finished
<1>4. ASSUME NEW e \in Entry, Ran(r, e) PROVE Carries(executed[r], executed'[r])
  <2>1. IsAnswered(r) => Waits(current[r])
    <3>1. current[r] \in Node /\ NoNode \notin Node
      BY <1>4, FlowAssumption DEF Ran, IInv, Placed, PlacedAt
    <3> QED
      BY <3>1 DEF IsAnswered, Stops
  <2>2. ASSUME NEW i \in DOMAIN executed[r],
               executed[r][i].status = "FINISHED", ~Waits(executed[r][i].node)
        PROVE  Finished(executed'[r], executed[r][i].node)
    <3>1. PICK k \in DOMAIN Kept(r) : Kept(r)[k] = executed[r][i]
      BY <2>1, <2>2, KeptEntries
    <3>2. executed'[r] = Append(Kept(r), e) /\ Kept(r) \in Seq(Entry)
      BY <1>4, KeptEntries DEF Ran
    <3>3. k \in DOMAIN executed'[r] /\ executed'[r][k] = executed[r][i]
      BY <3>1, <3>2, AppendedEntry
    <3> QED
      BY <2>2, <3>3 DEF Finished
  <2> QED
    BY <2>2 DEF Carries
<1> QED
  BY <1>2, <1>3, <1>4, StepExecuted

\* No step takes a finished step out of a row.
LEMMA StepKeepsWork ==
    ASSUME IInv, Stops, Work, NEW r \in Requests, Step(r)
    PROVE  /\ DOMAIN executions' = DOMAIN executions
           /\ \A i \in DOMAIN executions : Carries(executions[i].data, executions'[i].data)
           /\ executions' = executions \/ Carries(executions'[row[r]].data, executed'[r])
<1>1. row[r] \in DOMAIN executions /\ Carries(executions[row[r]].data, executed[r])
  BY StepRow, StepsWhileActive DEF Work
<1>2. CASE executions' = executions
  BY <1>2, CarriesItself
<1>3. ASSUME NEW e \in Row,
             executions' = [executions EXCEPT ![row[r]] = e], executed' = executed,
             e.data \in {executed[r], executions[row[r]].data}
      PROVE  /\ DOMAIN executions' = DOMAIN executions
             /\ \A i \in DOMAIN executions : Carries(executions[i].data, executions'[i].data)
             /\ Carries(executions'[row[r]].data, executed'[r])
  <2>1. /\ executions'[row[r]] = e /\ DOMAIN executions' = DOMAIN executions
        /\ \A j \in DOMAIN executions \ {row[r]} : executions'[j] = executions[j]
    BY <1>1, <1>3, WrittenRow
  <2>2. Carries(executions[row[r]].data, e.data) /\ Carries(e.data, executed[r])
    BY <1>1, <1>3, CarriesItself
  <2> QED
    BY <1>3, <2>1, <2>2, CarriesItself
<1> QED
  BY <1>2, <1>3, StepRow

\* The work of a request that is served is in hand after each of its steps.
LEMMA ArriveWork ==
    ASSUME IInv, NEW r \in Requests, Arrive(r), pc'[r] \in Active
    PROVE  Carries(executions'[row'[r]].data, executed'[r])
<1>1. /\ executions \in Seq(Row) /\ executed \in [Requests -> Seq(Entry)]
      /\ row \in [Requests -> 0 .. Len(executions)]
      /\ pc \in [Requests -> {"idle"} \cup Active \cup Ended]
  BY DEF IInv, TypeOK
<1>2. CASE Ask(r)
  <2> DEFINE e == [state |-> "INPROGRESS", data |-> <<>>]
  <2>1. e \in Row /\ e.data = <<>>
    BY DEF Row, States
  <2>2. executions' = Append(executions, e) /\ row'[r] = Len(executions) + 1
    BY <1>1, <1>2 DEF Ask
  <2> HIDE DEF e
  <2>3. executions'[row'[r]] = e
    BY <1>1, <2>1, <2>2, AppendedEntry
  <2> QED
    BY <2>1, <2>3 DEF Carries
<1>3. ASSUME NEW named, Resume(r, named) PROVE Carries(executions'[row'[r]].data, executed'[r])
  <2> DEFINE e == Last(executions)
  <2>1. executions' = executions /\ row'[r] = Len(executions) /\ executed'[r] = ResumeData(e)
    BY <1>1, <1>3 DEF Resume, shared
  <2>2. e \in Row /\ e = executions[Len(executions)]
    BY <1>1, <1>3, LastType DEF Resume, CanResume, Last
  <2> HIDE DEF e
  <2>3. Carries(e.data, ResumeData(e))
    BY <2>2, ResumedEntries DEF Carries, Finished
  <2> QED
    BY <2>1, <2>2, <2>3
<1>4. CASE RefuseQuestion(r)
  BY <1>1, <1>4 DEF RefuseQuestion, Active
<1>5. ASSUME NEW named, RefuseHumanInput(r, named) PROVE FALSE
  BY <1>1, <1>5 DEF RefuseHumanInput, Active
<1> QED
  BY <1>2, <1>3, <1>4, <1>5, Zenon DEF Arrive

LEMMA NextWork ==
    ASSUME MaxActive = 1, IInv, Alone, Stops, Work, [Next]_vars
    PROVE  Work'
<1>1. CASE Crash \/ (\E r \in Requests : Abort(r)) \/ UNCHANGED vars
  <2>1. /\ executions' = executions /\ executed' = executed /\ row' = row /\ F' = F
        /\ \A r \in Requests : pc'[r] \in Active => pc[r] \in Active
    BY <1>1 DEF Crash, Abort, vars, shared, control, F, Active
  <2> QED
    BY <2>1 DEF Work, Carries, Waits
<1>2. ASSUME NEW r \in Requests, Arrive(r) \/ Step(r) PROVE Work'
  <2>1. F' = F
    BY <1>2, ServesOne, FlowStays DEF Unmoved
  <2>2. \A q \in Requests \ {r} : pc'[q] \notin Active
    BY <1>2, OthersAtRest
  <2>3. pc'[r] \in Active => Carries(executions'[row'[r]].data, executed'[r])
    <3>1. CASE Arrive(r)
      BY <3>1, ArriveWork
    <3>2. CASE Step(r)
      <4>1. row' = row /\ Carries(executions[row[r]].data, executed[r])
        BY <3>2, StepRow, StepsWhileActive DEF Work
      <4>2. CASE executions' = executions
        BY <3>2, <4>1, <4>2, StepCarries, CarriesAlong
      <4>3. CASE executions' # executions
        BY <3>2, <4>1, <4>3, StepKeepsWork
      <4> QED
        BY <4>2, <4>3
    <3> QED
      BY <1>2, <3>1, <3>2
  <2> QED
    BY <2>1, <2>2, <2>3 DEF Work, Carries, Waits
<1> QED
  BY <1>1, <1>2, Zenon DEF Next

LEMMA InitWork == Init => Work
BY DEF Init, Work, Active

\* When the requests of a session come one at a time, no finished step is ever lost from
\* an execution: over all stops, resumes, errors, retries and crashes an update drops only
\* the entries of the node the human was asked about (executeAgentFlow filters them out of
\* its copy, and writes the whole copy back).
THEOREM WorkIsKept == MaxActive = 1 => (Spec => FinishedWorkIsKept)
<1> SUFFICES ASSUME MaxActive = 1 PROVE Spec => FinishedWorkIsKept
  OBVIOUS
<1> DEFINE kept == \A i \in DOMAIN executions : \A p \in DOMAIN executions[i].data :
                      LET e == executions[i].data[p] IN
                      e.status = "FINISHED" /\ F.kind[e.node] \notin {"human", "agent"}
                      => Finished(executions'[i].data, e.node)
<1>1. ASSUME \A i \in DOMAIN executions : Carries(executions[i].data, executions'[i].data)
      PROVE  kept
  BY <1>1 DEF Carries, Waits
<1>2. ASSUME IInv, Stops, Work, Next PROVE kept \/ UNCHANGED executions
  <2>1. CASE Crash \/ (\E r \in Requests : Abort(r))
    BY <2>1 DEF Crash, Abort, shared
  <2>2. ASSUME NEW r \in Requests, Step(r) PROVE kept
    BY <1>1, <1>2, <2>2, StepKeepsWork
  <2>3. ASSUME NEW r \in Requests, Arrive(r) PROVE kept
    <3>1. \A i \in DOMAIN executions : executions'[i] = executions[i]
      <4>1. CASE Ask(r)
        BY <1>2, <4>1 DEF Ask, IInv, TypeOK
      <4>2. CASE ~Ask(r)
        BY <2>3, <4>2 DEF Arrive, RefuseQuestion, Resume, RefuseHumanInput, shared
      <4> QED
        BY <4>1, <4>2
    <3> QED
      BY <1>1, <3>1, CarriesItself
  <2> QED
    BY <1>2, <2>1, <2>2, <2>3, Zenon DEF Next
<1>3. IInv /\ Stops /\ Work /\ [Next]_vars => [kept]_executions
  BY <1>2 DEF vars
<1>4. IInv /\ Alone /\ Stops /\ Work /\ [Next]_vars => (Alone /\ Stops /\ Work)'
  BY NextAlone, NextStops, NextWork
<1>5. Init => Alone
  BY DEF Init, Alone, Active
<1> QED
  BY <1>3, <1>4, <1>5, InitIInv, NextIInv, InitStops, InitWork, PTL DEF Spec, FinishedWorkIsKept

(***************************************************************************)
(* The queue. A node is queued because it starts the flow, because the     *)
(* human answered it, because a loop node goes back to it, or because the  *)
(* outputs it waits for have come in (Called). The copy of the executed    *)
(* data only grows while anything is queued or waits: the one node whose   *)
(* entries are dropped is the one the human answered, and it runs first,   *)
(* with an empty queue and nothing waiting (Answering).                    *)
(***************************************************************************)

\* Of an output that was not taken determineNodesToIgnore looks for one edge only. A flow
\* has single branches when there is no second one, and when the outputs that have edges
\* are those the node reports.
SingleBranches ==
    \A id \in DOMAIN Agentflows :
        LET f == Agentflows[id] IN
        \A e \in DOMAIN f.edges : IsDecision(f, f.edges[e].src) =>
            /\ f.edges[e].out \in Outputs(f, f.edges[e].src)
            /\ \A x \in DOMAIN f.edges :
                  f.edges[x].src = f.edges[e].src /\ f.edges[x].out = f.edges[e].out => x = e

NoneWait(r) == \A n \in Node : waiting[r][n] = {}

FinishedNodes(d) == {n \in Node : Finished(d, n)}

Called(r, n) ==
    \/ n \in StartingNodes(F) \cup {humanInput[r]}
    \/ LoopedBackTo(executed[r], n)
    \/ /\ SingleBranches => Reached(executed[r], n)
       /\ HasRequiredInputs(NodeDependencies(F, n), FinishedNodes(executed[r]))

CalledNodes(r) == {n \in Node : Called(r, n)}

\* The children of the node that has just finished.
Children(r) ==
    {n \in F.nodes : SingleBranches => n \in Reaches(F, current[r], Last(executed[r]).taken)}

Answering(r) ==
    pc[r] \in {"loop", "running", "outputs"} /\ humanInput[r] # NoNode =>
        /\ NoneWait(r)
        /\ \/ pc[r] = "loop" /\ queue[r] = <<humanInput[r]>>
           \/ pc[r] = "running" /\ queue[r] = <<>> /\ current[r] = humanInput[r]

QueuedAt(r) ==
    /\ pc[r] \in {"idle", "dropping", "resuming"} => queue[r] = <<>> /\ NoneWait(r)
    /\ pc[r] = "idle" => humanInput[r] = NoNode
    /\ Answering(r)
    /\ pc[r] = "running" => current[r] \in CalledNodes(r)
    /\ pc[r] \in {"loop", "running", "outputs"} =>
          /\ queue[r] \in Seq(CalledNodes(r))
          /\ \A n \in Node : waiting[r][n] \subseteq FinishedNodes(executed[r])
    /\ pc[r] = "outputs" =>
          /\ Last(executed[r]).node = current[r] /\ Last(executed[r]).status = "FINISHED"
          /\ children[r] \in Seq(Children(r))

Queued == \A r \in Requests : QueuedAt(r)

\* A child that is processed is the target of an edge, and of one that was taken when the
\* flow has single branches.
LEMMA FiredChildren ==
    ASSUME NEW id \in DOMAIN Agentflows, NEW n, NEW taken,
           NEW i \in DOMAIN Fired(Agentflows[id], n, taken)
    PROVE  /\ Fired(Agentflows[id], n, taken)[i] \in Agentflows[id].nodes
           /\ SingleBranches =>
                 Fired(Agentflows[id], n, taken)[i] \in Reaches(Agentflows[id], n, taken)
<1> DEFINE f == Agentflows[id]
           ignored == IF IsDecision(f, n) THEN NodesToIgnore(f, n, taken) ELSE {}
           kept == {e \in EdgesFrom(f, n) : f.edges[e].tgt \notin ignored}
           fired == Fired(f, n, taken)
<1>1. /\ f \in Flow
      /\ \A e \in DOMAIN f.edges : {f.edges[e].src, f.edges[e].tgt} \subseteq f.nodes
  BY FlowAssumption
<1>2. f.edges \in Seq([src : Node, tgt : Node, out : Nat])
  BY <1>1 DEF Flow
<1>3. kept \in SUBSET (DOMAIN f.edges)
  BY DEF EdgesFrom
<1>4. PICK e \in kept : fired[i] = f.edges[e].tgt
  <2>1. Targets(f) \in Seq(Node) /\ DOMAIN Targets(f) = DOMAIN f.edges
    BY <1>1, TargetsType
  <2>2. fired = Pick(Targets(f), kept)
    BY Zenon DEF Fired
  <2>3. PICK e \in kept : fired[i] = Targets(f)[e]
    <3>1. kept \in SUBSET (DOMAIN Targets(f)) /\ i \in DOMAIN fired
      BY <1>3, <2>1
    <3> HIDE DEF kept, fired
    <3>2. \A k \in DOMAIN Pick(Targets(f), kept) :
             \E e \in kept : Pick(Targets(f), kept)[k] = Targets(f)[e]
      BY <2>1, <3>1, PickKeeps, Zenon
    <3> QED
      BY <2>2, <3>1, <3>2
  <2>4. Targets(f)[e] = f.edges[e].tgt
    BY <1>3 DEF Targets
  <2> QED
    BY <2>3, <2>4
<1>5. e \in EdgesFrom(f, n) /\ e \in DOMAIN f.edges /\ f.edges[e].src = n
  BY DEF EdgesFrom
<1>6. ASSUME SingleBranches, IsDecision(f, n) PROVE f.edges[e].out \in taken
  <2> DEFINE o == f.edges[e].out
             edges == {x \in EdgesFrom(f, n) : f.edges[x].out = o}
  <2>1. SUFFICES ASSUME o \notin taken PROVE FALSE
    OBVIOUS
  <2>2. /\ o \in Outputs(f, n)
        /\ \A x \in DOMAIN f.edges : f.edges[x].src = n /\ f.edges[x].out = o => x = e
    BY <1>5, <1>6 DEF SingleBranches
  <2>3. edges = {e}
    BY <1>5, <2>2 DEF EdgesFrom
  <2>4. First(edges) = e
    <3>1. e \in Nat
      BY <1>2, <1>5
    <3> QED
      BY <2>3, <3>1 DEF First
  <2>5. f.edges[e].tgt \in NodesToIgnore(f, n, taken)
    BY <2>1, <2>2, <2>3, <2>4 DEF NodesToIgnore
  <2>6. f.edges[e].tgt \notin NodesToIgnore(f, n, taken)
    BY <1>6
  <2> QED
    BY <2>5, <2>6
<1>7. SingleBranches => fired[i] \in Reaches(f, n, taken)
  BY <1>4, <1>5, <1>6 DEF Reaches
<1>8. fired[i] \in f.nodes
  BY <1>1, <1>4, <1>5
<1> QED
  BY <1>7, <1>8

\* A node that starts the flow requires no input.
LEMMA StartRequiresNothing ==
    ASSUME NEW f, NEW n \in StartingNodes(f), NEW received
    PROVE  HasRequiredInputs(NodeDependencies(f, n), received)
<1>1. Sources(f, n) = {}
  BY DEF StartingNodes, Sources
<1> QED
  BY <1>1 DEF HasRequiredInputs, NodeDependencies

\* More inputs never make a node wait again.
LEMMA InputsSuffice ==
    ASSUME NEW dep, NEW received, NEW more, received \subseteq more,
           HasRequiredInputs(dep, received)
    PROVE  HasRequiredInputs(dep, more)
BY DEF HasRequiredInputs

\* What the executed data say stays said while they grow.
Extends(d, e) == \A i \in DOMAIN d : \E k \in DOMAIN e : e[k] = d[i]

LEMMA ExtendsKeeps ==
    ASSUME NEW d, NEW e, Extends(d, e)
    PROVE  /\ FinishedNodes(d) \subseteq FinishedNodes(e)
           /\ \A n : Reached(d, n) => Reached(e, n)
           /\ \A n : LoopedBackTo(d, n) => LoopedBackTo(e, n)
<1>1. \A n : Finished(d, n) => Finished(e, n)
  BY DEF Extends, Finished
<1>2. \A n : Reached(d, n) => Reached(e, n)
  BY Zenon DEF Extends, Reached
<1>3. \A n : LoopedBackTo(d, n) => LoopedBackTo(e, n)
  BY Zenon DEF Extends, LoopedBackTo
<1> QED
  BY <1>1, <1>2, <1>3 DEF FinishedNodes

LEMMA CalledStays ==
    ASSUME NEW r \in Requests, chatflow' = chatflow, NEW n,
           Extends(executed[r], executed'[r]), humanInput'[r] = humanInput[r], Called(r, n)
    PROVE  Called(r, n)'
<1>1. F' = F
  BY FlowStays
<1>2. \A d, m : /\ Reached(d, m)' <=> Reached(d, m)
                /\ LoopedBackTo(d, m)' <=> LoopedBackTo(d, m)
  BY <1>1 DEF Reached, LoopedBackTo
<1> QED
  BY <1>1, <1>2, ExtendsKeeps, InputsSuffice DEF Called

LEMMA CalledGrow ==
    ASSUME NEW r \in Requests, chatflow' = chatflow,
           Extends(executed[r], executed'[r]), humanInput'[r] = humanInput[r]
    PROVE  CalledNodes(r) \subseteq CalledNodes(r)'
BY CalledStays DEF CalledNodes

LEMMA SeqGrows ==
    ASSUME NEW S, NEW T, S \subseteq T, NEW s \in Seq(S)
    PROVE  s \in Seq(T)
OBVIOUS

LEMMA SeqOf ==
    ASSUME NEW S, NEW T, NEW s \in Seq(S), \A i \in DOMAIN s : s[i] \in T
    PROVE  s \in Seq(T)
<1>1. Len(s) \in Nat /\ DOMAIN s = 1 .. Len(s) /\ s = [i \in 1 .. Len(s) |-> s[i]]
  OBVIOUS
<1>2. s \in [1 .. Len(s) -> T]
  BY <1>1
<1> QED
  BY <1>1, <1>2

LEMMA QueuedFrame ==
    ASSUME Queued, NEW r \in Requests, Unmoved(r), QueuedAt(r)'
    PROVE  Queued'
<1> SUFFICES ASSUME NEW q \in Requests, q # r PROVE QueuedAt(q)'
  BY DEF Queued
<1>1. F' = F /\ QueuedAt(q)
  BY FlowStays DEF Unmoved, Queued
<1>2. /\ pc'[q] = pc[q] /\ humanInput'[q] = humanInput[q] /\ executed'[q] = executed[q]
      /\ queue'[q] = queue[q] /\ waiting'[q] = waiting[q]
      /\ current'[q] = current[q] /\ children'[q] = children[q]
  BY DEF Unmoved
<1>3. CalledNodes(q)' = CalledNodes(q) /\ Children(q)' = Children(q)
  BY <1>1, <1>2 DEF CalledNodes, Called, Reached, LoopedBackTo, Children
<1> QED
  BY <1>1, <1>2, <1>3 DEF QueuedAt, Answering, NoneWait

LEMMA ArriveQueued ==
    ASSUME IInv, Queued, NEW r \in Requests, Arrive(r)
    PROVE  QueuedAt(r)'
<1>1. /\ pc \in [Requests -> {"idle"} \cup Active \cup Ended]
      /\ queue \in [Requests -> Seq(Node)]
      /\ QueuedAt(r)
  BY DEF IInv, TypeOK, Queued
<1>2. pc[r] = "idle" /\ queue[r] = <<>> /\ NoneWait(r) /\ humanInput[r] = NoNode
  BY <1>1, ArriveArrives DEF MayArrive, QueuedAt
<1>3. CASE Ask(r)
  <2>1. PICK start \in StartingNodes(F) : queue' = [queue EXCEPT ![r] = <<start>>]
    BY <1>3 DEF Ask
  <2>2. /\ pc'[r] = "loop" /\ queue'[r] = <<start>>
        /\ chatflow' = chatflow /\ executed' = executed /\ humanInput' = humanInput
        /\ waiting' = waiting
    BY <1>1, <1>3, <2>1 DEF Ask
  <2>3. start \in CalledNodes(r)'
    <3>1. F \in Flow
      BY FlowType DEF IInv, TypeOK
    <3>2. start \in Node
      BY <2>1, <3>1, StartType
    <3> QED
      BY <2>1, <2>2, <3>2, FlowStays DEF CalledNodes, Called
  <2>4. queue'[r] \in Seq(CalledNodes(r)')
    BY <2>2, <2>3
  <2> QED
    BY <1>2, <2>2, <2>4 DEF QueuedAt, Answering, NoneWait
<1>4. ASSUME pc'[r] = "rejected" PROVE QueuedAt(r)'
  BY <1>4 DEF QueuedAt, Answering
<1>5. CASE RefuseQuestion(r) \/ \E named \in NamedStops : RefuseHumanInput(r, named)
  BY <1>1, <1>4, <1>5 DEF RefuseQuestion, RefuseHumanInput
<1>6. ASSUME NEW named, Resume(r, named) PROVE QueuedAt(r)'
  <2>1. pc'[r] \in {"dropping", "resuming"} /\ queue' = queue /\ waiting' = waiting
    BY <1>1, <1>6 DEF Resume, local
  <2> QED
    BY <1>2, <2>1 DEF QueuedAt, Answering, NoneWait
<1> QED
  BY <1>3, <1>5, <1>6, Zenon DEF Arrive

LEMMA BeginNodeQueued ==
    ASSUME IInv, Queued, NEW r \in Requests, BeginNode(r)
    PROVE  QueuedAt(r)'
<1>1. /\ pc \in [Requests -> {"idle"} \cup Active \cup Ended]
      /\ queue \in [Requests -> Seq(Node)]
      /\ current \in [Requests -> Node \cup {NoNode}]
      /\ QueuedAt(r)
  BY DEF IInv, TypeOK, Queued
<1>2. /\ pc[r] = "loop" /\ queue[r] # <<>>
      /\ queue'[r] = Tail(queue[r]) /\ current'[r] = Head(queue[r])
      /\ chatflow' = chatflow /\ humanInput' = humanInput /\ waiting' = waiting
  BY <1>1 DEF BeginNode
<1>3. CASE r \in aborted
  <2>1. pc'[r] = "failing"
    BY <1>1, <1>3 DEF BeginNode
  <2> QED
    BY <2>1 DEF QueuedAt, Answering
<1>4. CASE r \notin aborted
  <2>1. pc'[r] = "running" /\ executed' = executed
    BY <1>1, <1>4 DEF BeginNode
  <2>2. CalledNodes(r) \subseteq CalledNodes(r)'
    BY <1>2, <2>1, CalledGrow DEF Extends
  <2>3. queue[r] \in Seq(CalledNodes(r)')
    BY <1>1, <1>2, <2>2, SeqGrows DEF QueuedAt
  <2>4. Head(queue[r]) \in CalledNodes(r)' /\ Tail(queue[r]) \in Seq(CalledNodes(r)')
    BY <1>2, <2>3
  <2>5. ASSUME humanInput[r] # NoNode
        PROVE  NoneWait(r) /\ Head(queue[r]) = humanInput[r] /\ Tail(queue[r]) = <<>>
    <3>1. NoneWait(r) /\ queue[r] = <<humanInput[r]>>
      BY <1>1, <1>2, <2>5 DEF QueuedAt, Answering
    <3> QED
      BY <3>1
  <2>6. Answering(r)'
    BY <1>2, <2>1, <2>5 DEF Answering, NoneWait
  <2> QED
    BY <1>1, <1>2, <2>1, <2>4, <2>6 DEF QueuedAt
<1> QED
  BY <1>3, <1>4

\* A node that finished has used up the answer of the human, and every child that is
\* processed next is one of its own.
LEMMA FinishNodeQueued ==
    ASSUME IInv, Queued, NEW r \in Requests, NEW fulfilled \in Reports(r),
           FinishNode(r, fulfilled)
    PROVE  QueuedAt(r)'
<1>1. /\ pc \in [Requests -> {"idle"} \cup Active \cup Ended]
      /\ humanInput \in [Requests -> Node \cup {NoNode}]
      /\ executed \in [Requests -> Seq(Entry)]
      /\ children \in [Requests -> Seq(Node)]
      /\ chatflow \in DOMAIN Agentflows /\ F \in Flow
      /\ QueuedAt(r)
  BY FlowType DEF IInv, TypeOK, Queued
<1>2. /\ pc[r] = "running" /\ pc'[r] = "outputs" /\ chatflow' = chatflow /\ F' = F
      /\ queue' = queue /\ waiting' = waiting /\ current' = current
      /\ humanInput'[r] = UsedUp(r)
  BY <1>1, FlowStays DEF FinishNode
<1>3. current[r] \in Node /\ NoNode \notin Node
  BY <1>2, FlowAssumption DEF IInv, Placed, PlacedAt
<1> DEFINE taken == IF IsDecision(F, current[r]) THEN Taken(F, current[r], fulfilled) ELSE {}
           e == [node |-> current[r], status |-> "FINISHED", taken |-> taken]
<1>4. taken \in SUBSET Nat
  BY <1>1, <1>3, TakenType, ReportsType
<1>5. /\ executed' = [executed EXCEPT ![r] = Append(Kept(r), e)]
      /\ children' = [children EXCEPT ![r] = Fired(F, current[r], taken)]
  BY DEF FinishNode
<1> HIDE DEF taken
<1>6. e \in Entry /\ e.node = current[r] /\ e.status = "FINISHED" /\ e.taken = taken
  BY <1>3, <1>4 DEF Entry, States
<1> HIDE DEF e
<1>7. /\ Kept(r) \in Seq(Entry)
      /\ executed'[r] = Append(Kept(r), e) /\ Last(executed'[r]) = e
  BY <1>1, <1>5, <1>6, KeptEntries, AppendedEntry
<1>8. humanInput'[r] = NoNode
  <2>1. humanInput[r] # NoNode => IsAnswered(r)
    BY <1>1, <1>2 DEF QueuedAt, Answering, IsAnswered
  <2> QED
    BY <1>2, <2>1 DEF UsedUp
<1>9. children'[r] \in Seq(Children(r)')
  <2> DEFINE fired == Fired(F, current[r], taken)
             C == {n \in F.nodes : SingleBranches => n \in Reaches(F, current[r], taken)}
  <2>1. fired \in Seq(Node) /\ \A i \in DOMAIN fired : fired[i] \in C
    <3>1. fired \in Seq(Node)
      BY <1>1, FiredType
    <3>2. \A i \in DOMAIN fired : fired[i] \in C
      BY <1>1, FiredChildren DEF F
    <3> QED
      BY <3>1, <3>2
  <2>2. Children(r)' = C
    BY <1>2, <1>6, <1>7 DEF Children
  <2>3. children'[r] = fired
    BY <1>1, <1>5
  <2> HIDE DEF fired, C
  <2> QED
    BY <2>1, <2>2, <2>3, SeqOf
<1>10. CASE IsAnswered(r)
  <2>1. queue[r] = <<>> /\ NoneWait(r)
    BY <1>1, <1>2, <1>3, <1>10 DEF QueuedAt, Answering, IsAnswered
  <2> QED
    BY <1>2, <1>6, <1>7, <1>8, <1>9, <2>1 DEF QueuedAt, Answering, NoneWait
<1>11. CASE ~IsAnswered(r)
  <2>1. humanInput'[r] = humanInput[r] /\ Kept(r) = executed[r]
    BY <1>2, <1>11 DEF UsedUp, Kept
  <2>2. Extends(executed[r], executed'[r])
    BY <1>1, <1>6, <1>7, <2>1, AppendedEntry DEF Extends
  <2>3. queue[r] \in Seq(CalledNodes(r)')
    BY <1>1, <1>2, <2>1, <2>2, CalledGrow, SeqGrows DEF QueuedAt
  <2>4. \A n \in Node : waiting[r][n] \subseteq FinishedNodes(executed'[r])
    BY <1>1, <1>2, <2>2, ExtendsKeeps DEF QueuedAt
  <2> QED
    BY <1>2, <1>6, <1>7, <1>8, <1>9, <2>3, <2>4 DEF QueuedAt, Answering
<1> QED
  BY <1>10, <1>11

\* A child is queued once the outputs it waits for have come in.
LEMMA DeliverOutputQueued ==
    ASSUME IInv, Queued, NEW r \in Requests, DeliverOutput(r)
    PROVE  QueuedAt(r)'
<1> DEFINE child == Head(children[r])
           received == waiting[r][child] \cup {current[r]}
<1>1. /\ queue \in [Requests -> Seq(Node)] /\ queue[r] \in Seq(Node)
      /\ children \in [Requests -> Seq(Node)]
      /\ waiting \in [Requests -> [Node -> SUBSET Node]]
      /\ executed[r] \in Seq(Entry)
      /\ chatflow \in DOMAIN Agentflows /\ F \in Flow
      /\ QueuedAt(r)
  BY FlowType DEF IInv, TypeOK, Queued
<1>2. /\ pc[r] = "outputs" /\ pc' = pc /\ chatflow' = chatflow /\ F' = F
      /\ executed' = executed /\ current' = current /\ humanInput' = humanInput
      /\ children[r] # <<>> /\ children'[r] = Tail(children[r])
  BY <1>1, FlowStays DEF DeliverOutput
<1>3. /\ CalledNodes(r)' = CalledNodes(r) /\ Children(r)' = Children(r)
  BY <1>2 DEF CalledNodes, Called, Reached, LoopedBackTo, Children
<1>4. child \in Children(r) /\ Tail(children[r]) \in Seq(Children(r))
  BY <1>1, <1>2 DEF QueuedAt
<1>5. child \in Node /\ child \in F.nodes /\ child \in DOMAIN F.kind /\ current[r] \in Node
  BY <1>1, <1>2, <1>4 DEF Children, Flow, IInv, Placed, PlacedAt
<1>6. received \subseteq FinishedNodes(executed[r])
  <2>1. executed[r] # <<>>
    BY <1>2 DEF IInv, Placed, PlacedAt
  <2>2. Len(executed[r]) \in DOMAIN executed[r]
    BY <1>1, <2>1, LastType
  <2>3. current[r] \in FinishedNodes(executed[r])
    BY <1>1, <1>2, <1>5, <2>2 DEF QueuedAt, FinishedNodes, Finished, Last
  <2> QED
    BY <1>1, <1>2, <1>5, <2>3 DEF QueuedAt
<1>7. humanInput[r] = NoNode
  BY <1>1, <1>2 DEF QueuedAt, Answering
<1>8. ASSUME Ready(child, received) PROVE child \in CalledNodes(r)
  <2>1. HasRequiredInputs(NodeDependencies(F, child), FinishedNodes(executed[r]))
    <3>1. Dependencies[chatflow][child] = NodeDependencies(F, child)
      BY <1>1, <1>5 DEF Dependencies, F
    <3> QED
      BY <1>6, <1>8, <3>1, InputsSuffice DEF Ready
  <2>2. SingleBranches => Reached(executed[r], child)
    <3>1. executed[r] # <<>>
      BY <1>2 DEF IInv, Placed, PlacedAt
    <3>2. Len(executed[r]) \in DOMAIN executed[r]
      BY <1>1, <3>1, LastType
    <3> QED
      BY <1>1, <1>2, <1>4, <3>2 DEF QueuedAt, Children, Reached, Last
  <2> QED
    BY <1>5, <2>1, <2>2 DEF CalledNodes, Called
<1>9. queue'[r] \in Seq(CalledNodes(r))
  <2>1. queue[r] \in Seq(CalledNodes(r))
    BY <1>1, <1>2 DEF QueuedAt
  <2>2. CASE Ready(child, received)
    <3>1. queue'[r] = Append(queue[r], child)
      BY <1>1, <2>2 DEF DeliverOutput
    <3> HIDE DEF child, received
    <3> QED
      BY <1>8, <2>1, <2>2, <3>1, Appended
  <2>3. CASE ~Ready(child, received)
    BY <2>1, <2>3 DEF DeliverOutput
  <2> QED
    BY <2>2, <2>3
<1>10. \A n \in Node : waiting'[r][n] \subseteq FinishedNodes(executed[r])
  <2>1. \A n \in Node : waiting[r][n] \subseteq FinishedNodes(executed[r])
    BY <1>1, <1>2 DEF QueuedAt
  <2>2. \E w \in {{}, received} : waiting' = [waiting EXCEPT ![r][child] = w]
    BY Zenon DEF DeliverOutput
  <2> QED
    BY <1>1, <1>5, <1>6, <2>1, <2>2
<1> QED
  BY <1>1, <1>2, <1>3, <1>4, <1>7, <1>9, <1>10 DEF QueuedAt, Answering

\* A loop node goes back.
LEMMA EndOutputsQueued ==
    ASSUME IInv, Queued, NEW r \in Requests, EndOutputs(r)
    PROVE  QueuedAt(r)'
<1>1. /\ queue \in [Requests -> Seq(Node)] /\ queue[r] \in Seq(Node)
      /\ humanInput \in [Requests -> Node \cup {NoNode}]
      /\ pc \in [Requests -> {"idle"} \cup Active \cup Ended]
      /\ executed[r] \in Seq(Entry) /\ F \in Flow
      /\ QueuedAt(r)
  BY FlowType DEF IInv, TypeOK, Queued
<1>2. /\ pc[r] = "outputs" /\ pc'[r] = "loop" /\ chatflow' = chatflow /\ F' = F
      /\ executed' = executed /\ waiting' = waiting
  BY <1>1, FlowStays DEF EndOutputs
<1>3. humanInput[r] = NoNode /\ humanInput'[r] = NoNode
  BY <1>1, <1>2 DEF QueuedAt, Answering, EndOutputs
<1>4. CalledNodes(r)' = CalledNodes(r)
  BY <1>2, <1>3 DEF CalledNodes, Called, Reached, LoopedBackTo
<1>5. queue[r] \in Seq(CalledNodes(r))
  BY <1>1, <1>2 DEF QueuedAt
<1>6. CASE LoopsBack(r)
  <2> DEFINE n == F.back[current[r]]
  <2>1. queue'[r] = Append(queue[r], n)
    BY <1>1, <1>6 DEF EndOutputs
  <2>2. executed[r] # <<>> /\ current[r] \in Node
    BY <1>2 DEF IInv, Placed, PlacedAt
  <2>3. Len(executed[r]) \in DOMAIN executed[r]
    BY <1>1, <2>2, LastType
  <2>4. n \in CalledNodes(r)
    BY <1>1, <1>2, <1>6, <2>2, <2>3
    DEF QueuedAt, CalledNodes, Called, LoopedBackTo, LoopsBack, Last, Flow
  <2> HIDE DEF n
  <2>5. queue'[r] \in Seq(CalledNodes(r))
    BY <1>5, <2>1, <2>4, Appended
  <2> QED
    BY <1>1, <1>2, <1>3, <1>4, <2>5 DEF QueuedAt, Answering
<1>7. CASE ~LoopsBack(r)
  <2>1. queue' = queue
    BY <1>7 DEF EndOutputs
  <2> QED
    BY <1>1, <1>2, <1>3, <1>4, <1>5, <2>1 DEF QueuedAt, Answering
<1> QED
  BY <1>6, <1>7

\* A resume starts with the node the human answered.
LEMMA ReopenQueued ==
    ASSUME IInv, Queued, NEW r \in Requests, Reopen(r)
    PROVE  QueuedAt(r)'
<1>1. /\ pc \in [Requests -> {"idle"} \cup Active \cup Ended]
      /\ queue \in [Requests -> Seq(Node)]
      /\ QueuedAt(r)
  BY DEF IInv, TypeOK, Queued
<1>2. /\ pc[r] = "resuming" /\ pc'[r] = "loop" /\ queue'[r] = <<humanInput[r]>>
      /\ humanInput' = humanInput /\ waiting' = waiting /\ executed' = executed
  BY <1>1 DEF Reopen
<1>3. humanInput[r] \in Node /\ NoneWait(r)
  BY <1>1, <1>2 DEF IInv, Placed, PlacedAt, QueuedAt
<1>4. humanInput[r] \in CalledNodes(r)'
  BY <1>2, <1>3 DEF CalledNodes, Called
<1>5. queue'[r] \in Seq(CalledNodes(r)')
  BY <1>2, <1>4
<1> QED
  BY <1>1, <1>2, <1>3, <1>5 DEF QueuedAt, Answering, NoneWait

LEMMA StepQueued ==
    ASSUME IInv, Queued, NEW r \in Requests, Step(r)
    PROVE  QueuedAt(r)'
<1>1. /\ pc \in [Requests -> {"idle"} \cup Active \cup Ended]
      /\ QueuedAt(r)
  BY DEF IInv, TypeOK, Queued
<1>2. CASE BeginNode(r) \/ DeliverOutput(r) \/ EndOutputs(r) \/ Reopen(r)
  BY <1>2, BeginNodeQueued, DeliverOutputQueued, EndOutputsQueued, ReopenQueued
<1>3. CASE \E fulfilled \in Reports(r) : FinishNode(r, fulfilled)
  BY <1>3, FinishNodeQueued
<1>4. CASE DropErrorEntry(r)
  BY <1>1, <1>4 DEF DropErrorEntry, local, QueuedAt, Answering, NoneWait
<1>5. ASSUME pc'[r] \in {"stopped", "failing", "settled", "saving"} \cup Ended
      PROVE  QueuedAt(r)'
  BY <1>5 DEF QueuedAt, Answering, Ended
<1>6. CASE Overrun(r) \/ StopNode(r) \/ Settle(r) \/ SettleFailure(r)
  BY <1>1, <1>5, <1>6 DEF Overrun, StopNode, Settle, SettleFailure, Ended
<1>7. CASE \E status \in {"ERROR", "TERMINATED"} : FailNode(r, status)
  BY <1>1, <1>5, <1>7 DEF FailNode, Ended
<1>8. CASE ClearAction(r) \/ SaveMessages(r) \/ LoseAnswer(r)
  BY <1>1, <1>5, <1>8 DEF ClearAction, SaveMessages, LoseAnswer, Ended
<1> QED
  BY <1>2, <1>3, <1>4, <1>6, <1>7, <1>8 DEF Step

LEMMA NextQueued == ASSUME IInv, Queued, [Next]_vars PROVE Queued'
<1>1. CASE Crash \/ (\E r \in Requests : Abort(r)) \/ UNCHANGED vars
  <2>1. /\ \A r \in Requests : pc'[r] = pc[r] \/ pc'[r] = "crashed"
        /\ chatflow' = chatflow /\ F' = F /\ humanInput' = humanInput
        /\ executed' = executed /\ queue' = queue /\ waiting' = waiting
        /\ current' = current /\ children' = children
    BY <1>1 DEF Crash, Abort, vars, shared, control, local, F
  <2>2. \A r \in Requests : CalledNodes(r)' = CalledNodes(r) /\ Children(r)' = Children(r)
    BY <2>1 DEF CalledNodes, Called, Reached, LoopedBackTo, Children
  <2> QED
    BY <2>1, <2>2 DEF Queued, QueuedAt, Answering, NoneWait
<1>2. ASSUME NEW r \in Requests, Arrive(r) \/ Step(r) PROVE Queued'
  BY <1>2, ServesOne, ArriveQueued, StepQueued, QueuedFrame
<1> QED
  BY <1>1, <1>2, Zenon DEF Next

LEMMA InitQueued == Init => Queued
BY DEF Init, Queued, QueuedAt, Answering, NoneWait

\* In an agentflow with single branches a node that runs is the start of the flow, the node
\* the human answered, the target of a loop, or a child on a branch that was taken, whatever
\* the shape of the flow, over joins, loops, stops, resumes and any number of requests side
\* by side (determineNodesToIgnore; with a second edge on one output it does not hold).
THEOREM TakenBranchesRun == SingleBranches => (Spec => []OnlyTakenBranchesRun)
<1> SUFFICES ASSUME SingleBranches PROVE Spec => []OnlyTakenBranchesRun
  OBVIOUS
<1>1. Queued => OnlyTakenBranchesRun
  BY DEF Queued, QueuedAt, CalledNodes, Called, OnlyTakenBranchesRun
<1> QED
  BY <1>1, InitIInv, NextIInv, InitQueued, NextQueued, PTL DEF Spec

\* In every agentflow a node that runs has the results of the inputs it requires and of one
\* of each conditional group, also when the nodes that waited before a stop are forgotten
\* (processNodeOutputs, hasReceivedRequiredInputs), unless the human or a loop called it.
THEOREM InputsComeFirst == Spec => []RunsAfterItsInputs
<1>1. ASSUME IInv, Queued PROVE RunsAfterItsInputs
  <2> SUFFICES ASSUME NEW r \in Requests, pc[r] = "running",
                      current[r] # humanInput[r],
                      ~LoopedBackTo(executed[r], current[r])
               PROVE  HasRequiredInputs(NodeDependencies(F, current[r]),
                                        FinishedNodes(executed[r]))
    BY DEF RunsAfterItsInputs, FinishedNodes
  <2>1. Called(r, current[r])
    BY <1>1 DEF Queued, QueuedAt, CalledNodes
  <2>2. CASE current[r] \in StartingNodes(F)
    BY <2>2, StartRequiresNothing
  <2> QED
    BY <2>1, <2>2 DEF Called
<1> QED
  BY <1>1, InitIInv, NextIInv, InitQueued, NextQueued, PTL DEF Spec

(***************************************************************************)
(* The stops. When a client answers the stop it was shown, an execution    *)
(* has at most one, at the end of its data, and the request that resumes   *)
(* it answers that stop (Ordered), also when several requests resume it    *)
(* side by side.                                                           *)
(***************************************************************************)
\* Up to n every step of d is finished, but for a stop at n.
Orderly(d, n) ==
    \A i \in DOMAIN d : i <= n => d[i].status = "FINISHED" \/ (d[i].status = "STOPPED" /\ i = n)

RowOrderly(e) ==
    /\ e.state = "STOPPED" => Orderly(e.data, Len(e.data)) /\ HasStatus(e.data, "STOPPED")
    /\ e.state = "ERROR" => Orderly(e.data, Len(e.data) - 1)

RowsOrderly == \A i \in DOMAIN executions : RowOrderly(executions[i])

OrderedAt(r) ==
    /\ pc[r] = "idle" => executed[r] = <<>>
    /\ pc[r] \in {"dropping", "resuming", "loop", "running", "stopped", "settled", "saving"} =>
          Orderly(executed[r], Len(executed[r]))
    /\ pc[r] \in {"dropping", "resuming"} => HasStatus(executed[r], "STOPPED")
    /\ pc[r] \in {"dropping", "resuming", "loop", "running"} =>
          \A i \in DOMAIN executed[r] :
             executed[r][i].status = "STOPPED" => humanInput[r] = executed[r][i].node
    /\ pc[r] = "outputs" => \A i \in DOMAIN executed[r] : executed[r][i].status = "FINISHED"
    /\ pc[r] = "failing" =>
          /\ Orderly(executed[r], Len(executed[r]) - 1)
          /\ Last(executed[r]).status \in {"ERROR", "TERMINATED"}

Ordered == RowsOrderly /\ \A r \in Requests : OrderedAt(r)

\* What a resume continues with ends in the stop that is answered.
LEMMA ResumedOrderly ==
    ASSUME NEW e \in Row, Resumable(e), RowOrderly(e)
    PROVE  Orderly(ResumeData(e), Len(ResumeData(e))) /\ HasStatus(ResumeData(e), "STOPPED")
<1>1. e.data \in Seq(Entry) /\ Len(e.data) \in Nat /\ DOMAIN e.data = 1 .. Len(e.data)
  BY DEF Row
<1>2. CASE Retryable(e)
  <2> DEFINE d == e.data
             n == Len(d)
             s == SubSeq(d, 1, n - 1)
  <2>1. /\ n >= 2 /\ d[n - 1].status = "STOPPED" /\ d \in Seq(Entry) /\ n \in Nat
        /\ Orderly(d, n - 1)
    BY <1>1, <1>2 DEF Retryable, EndsInRetry, RowOrderly
  <2>2. ResumeData(e) = s
    BY <1>2 DEF ResumeData
  <2> HIDE DEF d
  <2>3. /\ Len(s) = n - 1 /\ DOMAIN s = 1 .. n - 1 /\ DOMAIN d = 1 .. n
        /\ \A i \in 1 .. n - 1 : s[i] = d[i]
    BY <2>1
  <2> HIDE DEF s
  <2>4. \A i \in 1 .. n - 1 : i \in DOMAIN d /\ i <= n - 1
    BY <2>1, <2>3
  <2>5. Orderly(s, n - 1)
    BY <2>1, <2>3, <2>4 DEF Orderly
  <2>6. n - 1 \in DOMAIN s /\ s[n - 1].status = "STOPPED"
    BY <2>1, <2>3
  <2> QED
    BY <2>2, <2>3, <2>5, <2>6 DEF HasStatus
<1>3. CASE ~Retryable(e)
  BY <1>3 DEF Resumable, ResumeData, RowOrderly
<1> QED
  BY <1>2, <1>3

\* The stop at the end of orderly data is the only one.
LEMMA OneStop ==
    ASSUME NEW d \in Seq(Entry), Orderly(d, Len(d)),
           NEW i \in DOMAIN d, d[i].status = "STOPPED",
           NEW j \in DOMAIN d, d[j].status = "STOPPED"
    PROVE  i = j
BY DEF Orderly

\* When there is a stop there is a most recent one.
LEMMA StopIsLast ==
    ASSUME NEW d \in Seq(Entry), HasStatus(d, "STOPPED")
    PROVE  LastStopped(d) # NoNode
<1> DEFINE stops == {i \in DOMAIN d : d[i].status = "STOPPED"}
           last == CHOOSE i \in stops : \A j \in stops : j <= i
<1>1. stops # {}
  BY DEF HasStatus
<1>2. LastStopped(d) = d[last].node
  BY <1>1 DEF LastStopped
<1>3. Len(d) \in Nat /\ DOMAIN d = 1 .. Len(d) /\ stops \in SUBSET (1 .. Len(d))
  OBVIOUS
<1>4. stops \subseteq DOMAIN d
  OBVIOUS
<1> HIDE DEF stops
<1>5. \E i \in stops : \A j \in stops : j <= i
  BY <1>1, <1>3, GreatestPosition
<1>6. last \in DOMAIN d
  BY <1>4, <1>5
<1> HIDE DEF last
<1>7. d[last] \in Entry
  BY <1>6
<1> QED
  BY <1>2, <1>7, FlowAssumption DEF Entry

\* An answer names the stop at the end of the data.
LEMMA ResumeAnswersStop ==
    ASSUME ~StaleResume, IInv, RowsOrderly, NEW named \in NamedStops, CanResume(named)
    PROVE  LET d == ResumeData(Last(executions)) IN
           \A i \in DOMAIN d : d[i].status = "STOPPED" => ResumeNode(d, named) = d[i].node
<1> DEFINE e == Last(executions)
           d == ResumeData(e)
<1>1. /\ e \in Row /\ Len(executions) \in DOMAIN executions
      /\ e = executions[Len(executions)] /\ Resumable(e) /\ RowOrderly(e)
      /\ 0 # Len(executions)
  BY LastType DEF IInv, TypeOK, CanResume, Last, RowsOrderly
<1>2. /\ d \in Seq(Entry) /\ DOMAIN d \subseteq DOMAIN e.data
      /\ \A i \in DOMAIN d : d[i] = e.data[i]
      /\ \A i \in DOMAIN e.data : i \in DOMAIN d \/ e.data[i].status = "ERROR"
  BY <1>1, ResumedEntries
<1>3. Orderly(d, Len(d)) /\ HasStatus(d, "STOPPED")
  BY <1>1, ResumedOrderly
<1>4. CASE named = NoNode
  <2>1. ResumeNode(d, named) = LastStopped(d)
    BY <1>4 DEF ResumeNode
  <2> HIDE DEF d
  <2>2. PICK k \in DOMAIN d : d[k].status = "STOPPED" /\ d[k].node = LastStopped(d)
    BY <1>2, <1>3, StopIsLast, LastStoppedIs
  <2> QED
    BY <1>2, <1>3, <2>1, <2>2, OneStop DEF d
<1>5. CASE named # NoNode
  <2>1. ResumeNode(d, named) = named
    BY <1>5 DEF ResumeNode
  <2>2. PICK j \in DOMAIN e.data : e.data[j].status = "STOPPED" /\ e.data[j].node = named
    BY <1>1, <1>5 DEF NamedStops
  <2> HIDE DEF d, e
  <2>3. j \in DOMAIN d /\ d[j].status = "STOPPED" /\ d[j].node = named
    BY <1>2, <2>2
  <2> QED
    BY <1>2, <1>3, <2>1, <2>3, OneStop DEF d, e
<1> QED
  BY <1>4, <1>5

\* Until a run of the node the human answered ends, nothing else runs, so the stop is gone
\* once something else does.
LEMMA KeptIsFinished ==
    ASSUME IInv, Queued, NEW r \in Requests, OrderedAt(r), pc[r] = "running"
    PROVE  /\ Kept(r) \in Seq(Entry)
           /\ \A k \in DOMAIN Kept(r) : Kept(r)[k].status = "FINISHED"
<1>1. /\ QueuedAt(r) /\ executed[r] \in Seq(Entry)
  BY DEF IInv, TypeOK, Queued
<1>2. ASSUME NEW i \in DOMAIN executed[r], executed[r][i].status # "FINISHED"
      PROVE  IsAnswered(r) /\ executed[r][i].node = current[r]
  <2>1. executed[r][i].status = "STOPPED"
    BY <1>1, <1>2 DEF OrderedAt, Orderly
  <2>2. executed[r][i].node \in Node /\ NoNode \notin Node
    <3>1. executed[r][i] \in Entry
      BY <1>1, <1>2
    <3> QED
      BY <3>1, FlowAssumption DEF Entry
  <2>3. humanInput[r] = executed[r][i].node
    BY <1>1, <2>1 DEF OrderedAt
  <2> QED
    BY <1>1, <2>2, <2>3 DEF QueuedAt, Answering, IsAnswered
<1> QED
  BY <1>1, <1>2, KeptEntries

LEMMA OrderedFrame ==
    ASSUME Ordered, NEW r \in Requests, Unmoved(r), OrderedAt(r)', RowsOrderly'
    PROVE  Ordered'
BY DEF Ordered, OrderedAt, Unmoved

LEMMA ArriveOrdered ==
    ASSUME ~StaleResume, IInv, Ordered, NEW r \in Requests, Arrive(r)
    PROVE  OrderedAt(r)' /\ RowsOrderly'
<1>1. /\ OrderedAt(r) /\ RowsOrderly /\ pc[r] = "idle" /\ executed[r] = <<>>
      /\ executions \in Seq(Row)
      /\ executed \in [Requests -> Seq(Entry)]
      /\ humanInput \in [Requests -> Node \cup {NoNode}]
      /\ pc \in [Requests -> {"idle"} \cup Active \cup Ended]
  BY ArriveArrives DEF IInv, TypeOK, Ordered, OrderedAt, MayArrive
<1>2. CASE Ask(r)
  <2> DEFINE e == [state |-> "INPROGRESS", data |-> <<>>]
  <2>1. e \in Row /\ RowOrderly(e)
    BY DEF Row, States, RowOrderly
  <2>2. executions' = Append(executions, e) /\ pc'[r] = "loop" /\ executed'[r] = <<>>
    BY <1>1, <1>2 DEF Ask
  <2> HIDE DEF e
  <2>3. /\ DOMAIN executions' = DOMAIN executions \cup {Len(executions) + 1}
        /\ executions'[Len(executions) + 1] = e
        /\ \A i \in DOMAIN executions : executions'[i] = executions[i]
    BY <1>1, <2>1, <2>2, AppendedEntry
  <2>4. RowsOrderly'
    BY <1>1, <2>1, <2>3 DEF RowsOrderly
  <2> QED
    BY <2>2, <2>4 DEF OrderedAt, Orderly
<1>3. CASE RefuseQuestion(r) \/ \E named \in NamedStops : RefuseHumanInput(r, named)
  <2>1. pc'[r] = "rejected" /\ executions' = executions
    BY <1>1, <1>3 DEF RefuseQuestion, RefuseHumanInput, shared
  <2> QED
    BY <1>1, <2>1 DEF OrderedAt, RowsOrderly
<1>4. ASSUME NEW named \in NamedStops, Resume(r, named)
      PROVE  OrderedAt(r)' /\ RowsOrderly'
  <2> DEFINE e == Last(executions)
             d == ResumeData(e)
  <2>1. /\ executions' = executions
        /\ executed'[r] = d /\ humanInput'[r] = ResumeNode(d, named)
        /\ pc'[r] \in {"dropping", "resuming"}
        /\ CanResume(named) /\ Resumable(e)
    BY <1>1, <1>4 DEF Resume, CanResume, shared
  <2>2. e \in Row /\ RowOrderly(e)
    <3>1. executions # <<>>
      BY <2>1 DEF CanResume
    <3>2. e \in Row /\ Len(executions) \in DOMAIN executions
      BY <1>1, <3>1, LastType
    <3> QED
      BY <1>1, <3>2 DEF RowsOrderly, Last
  <2>3. \A i \in DOMAIN d : d[i].status = "STOPPED" => ResumeNode(d, named) = d[i].node
    BY <1>1, <2>1, ResumeAnswersStop
  <2>4. Orderly(d, Len(d)) /\ HasStatus(d, "STOPPED")
    BY <2>1, <2>2, ResumedOrderly
  <2> HIDE DEF d, e
  <2> QED
    BY <1>1, <2>1, <2>3, <2>4 DEF OrderedAt, RowsOrderly
<1> QED
  BY <1>2, <1>3, <1>4, Zenon DEF Arrive

\* The steps that run a node.
LEMMA RunOrdered ==
    ASSUME IInv, Queued, NEW r \in Requests, OrderedAt(r),
           \/ BeginNode(r) \/ StopNode(r)
           \/ \E fulfilled \in Reports(r) : FinishNode(r, fulfilled)
           \/ \E status \in {"ERROR", "TERMINATED"} : FailNode(r, status)
    PROVE  OrderedAt(r)' /\ executions' = executions
<1>1. /\ executed[r] \in Seq(Entry) /\ executions' = executions
  BY DEF IInv, TypeOK, BeginNode, StopNode, FinishNode, FailNode, shared
<1>2. CASE BeginNode(r) /\ pc'[r] = "running" /\ executed' = executed
  <2>1. pc[r] = "loop" /\ humanInput' = humanInput
    BY <1>2 DEF BeginNode
  <2> QED
    BY <1>1, <1>2, <2>1 DEF OrderedAt
<1>3. ASSUME NEW e \in Entry, Failed(r, e) PROVE OrderedAt(r)'
  <2> DEFINE d == executed[r]
             s == Append(d, e)
  <2>1. /\ pc[r] \in {"loop", "running"} /\ pc'[r] = "failing" /\ executed'[r] = s
        /\ e.status \in {"ERROR", "TERMINATED"}
    BY <1>3 DEF Failed
  <2>2. Orderly(d, Len(d)) /\ d \in Seq(Entry)
    BY <1>1, <2>1 DEF OrderedAt
  <2> HIDE DEF d
  <2>3. /\ Len(s) = Len(d) + 1 /\ Len(d) \in Nat /\ DOMAIN s = DOMAIN d \cup {Len(d) + 1}
        /\ (\A i \in DOMAIN d : s[i] = d[i]) /\ s[Len(d) + 1] = e /\ Last(s) = e
        /\ DOMAIN d = 1 .. Len(d)
    BY <2>2, AppendedEntry
  <2> HIDE DEF s
  <2>4. Orderly(s, Len(s) - 1)
    BY <2>2, <2>3 DEF Orderly
  <2> QED
    BY <2>1, <2>3, <2>4 DEF OrderedAt
<1>4. ASSUME NEW e \in Entry, Ran(r, e) PROVE OrderedAt(r)'
  <2> DEFINE d == Kept(r)
             s == Append(d, e)
  <2>1. /\ pc[r] = "running" /\ executed'[r] = s
        /\ \/ e.status = "FINISHED" /\ pc'[r] = "outputs"
           \/ e.status = "STOPPED" /\ pc'[r] = "stopped"
    BY <1>4 DEF Ran
  <2>2. d \in Seq(Entry) /\ \A k \in DOMAIN d : d[k].status = "FINISHED"
    BY <2>1, KeptIsFinished
  <2> HIDE DEF d
  <2>3. /\ Len(s) = Len(d) + 1 /\ Len(d) \in Nat /\ DOMAIN s = DOMAIN d \cup {Len(d) + 1}
        /\ (\A i \in DOMAIN d : s[i] = d[i]) /\ s[Len(d) + 1] = e
    BY <2>2, AppendedEntry
  <2> HIDE DEF s
  <2>4. e.status = "FINISHED" => \A i \in DOMAIN s : s[i].status = "FINISHED"
    BY <2>2, <2>3
  <2>5. e.status = "STOPPED" => Orderly(s, Len(s))
    BY <2>2, <2>3 DEF Orderly
  <2> QED
    BY <2>1, <2>4, <2>5 DEF OrderedAt
<1>5. \/ BeginNode(r) /\ pc'[r] = "running" /\ executed' = executed
      \/ \E e \in Entry : Failed(r, e) \/ Ran(r, e)
  BY BeginNodeExecuted, FinishNodeRan, StopNodeRan, FailNodeFailed
<1> QED
  BY <1>1, <1>2, <1>3, <1>4, <1>5

\* The row that is settled: a stop at the end of the data is the only one, and an error is
\* the last entry.
LEMMA SettleOrdered ==
    ASSUME IInv, NEW r \in Requests, OrderedAt(r), Settle(r) \/ SettleFailure(r)
    PROVE  OrderedAt(r)' /\ RowOrderly(executions'[row[r]])
<1> DEFINE d == executed[r]
           e == [state |-> FinalState(d), data |-> d]
           f == [state |-> Last(d).status, data |-> d]
<1>1. /\ d \in Seq(Entry) /\ executed' = executed /\ row[r] \in DOMAIN executions
      /\ pc \in [Requests -> {"idle"} \cup Active \cup Ended]
  BY DEF IInv, TypeOK, Placed, PlacedAt, Settle, SettleFailure, Active
<1>2. CASE Settle(r)
  <2>1. /\ pc[r] \in {"stopped", "loop"} /\ pc'[r] = "settled"
        /\ executions' = [executions EXCEPT ![row[r]] = e]
    BY <1>1, <1>2 DEF Settle
  <2>2. Orderly(d, Len(d))
    BY <1>1, <2>1 DEF OrderedAt
  <2>3. /\ FinalState(d) # "ERROR"
        /\ FinalState(d) = "STOPPED" => HasStatus(d, "STOPPED")
    BY <1>1, <2>2 DEF FinalState, HasStatus, Orderly
  <2> HIDE DEF d
  <2>4. e.state = FinalState(d) /\ e.data = d
    OBVIOUS
  <2> HIDE DEF e
  <2>5. executions'[row[r]] = e
    BY <1>1, <2>1, WrittenRow
  <2> QED
    BY <1>1, <2>1, <2>2, <2>3, <2>4, <2>5 DEF RowOrderly, OrderedAt, d
<1>3. CASE SettleFailure(r)
  <2>1. /\ pc[r] = "failing" /\ pc'[r] = "failed"
        /\ executions' = [executions EXCEPT ![row[r]] = f]
    BY <1>1, <1>3 DEF SettleFailure
  <2>2. Orderly(d, Len(d) - 1) /\ Last(d).status \in {"ERROR", "TERMINATED"}
    BY <1>1, <2>1 DEF OrderedAt
  <2> HIDE DEF d
  <2>3. f.state = Last(d).status /\ f.data = d
    OBVIOUS
  <2> HIDE DEF f
  <2>4. executions'[row[r]] = f
    BY <1>1, <2>1, WrittenRow
  <2> QED
    BY <2>1, <2>2, <2>3, <2>4 DEF RowOrderly, OrderedAt
<1> QED
  BY <1>2, <1>3

\* Putting a row back to INPROGRESS leaves it in order.
LEMMA ReopenedRow ==
    ASSUME IInv, NEW r \in Requests, DropErrorEntry(r) \/ Reopen(r)
    PROVE  executions'[row[r]].state = "INPROGRESS" /\ row[r] \in DOMAIN executions
<1>1. row[r] \in DOMAIN executions /\ executions[row[r]] \in Row
  BY DEF IInv, TypeOK, Placed, PlacedAt, DropErrorEntry, Reopen, Active
<1>2. CASE DropErrorEntry(r)
  <2> DEFINE e == [state |-> "INPROGRESS", data |-> executed[r]]
  <2>1. e.state = "INPROGRESS"
    OBVIOUS
  <2>2. executions' = [executions EXCEPT ![row[r]] = e]
    BY <1>2 DEF DropErrorEntry
  <2> HIDE DEF e
  <2> QED
    BY <1>1, <2>1, <2>2, WrittenRow
<1>3. CASE Reopen(r)
  <2> DEFINE e == [executions[row[r]] EXCEPT !.state = "INPROGRESS"]
  <2>1. e.state = "INPROGRESS"
    BY <1>1 DEF Row
  <2>2. executions' = [executions EXCEPT ![row[r]] = e]
    BY <1>3, Zenon DEF Reopen
  <2> HIDE DEF e
  <2> QED
    BY <1>1, <2>1, <2>2, WrittenRow
<1> QED
  BY <1>2, <1>3

LEMMA StepOrderedAt ==
    ASSUME IInv, Queued, NEW r \in Requests, OrderedAt(r), Step(r)
    PROVE  /\ OrderedAt(r)'
           /\ executions' = executions \/ RowOrderly(executions'[row[r]])
<1>1. pc \in [Requests -> {"idle"} \cup Active \cup Ended]
  BY DEF IInv, TypeOK
<1>2. CASE DropErrorEntry(r) \/ Reopen(r)
  <2>1. /\ pc[r] \in {"dropping", "resuming"} /\ pc'[r] \in {"resuming", "loop"}
        /\ humanInput' = humanInput /\ executed' = executed
        /\ pc[r] = "resuming" => pc'[r] = "loop"
    BY <1>1, <1>2 DEF DropErrorEntry, Reopen
  <2>2. OrderedAt(r)'
    BY <2>1 DEF OrderedAt
  <2>3. RowOrderly(executions'[row[r]])
    BY <1>2, ReopenedRow DEF RowOrderly
  <2> QED
    BY <2>2, <2>3
<1>3. CASE DeliverOutput(r) \/ EndOutputs(r)
  <2>1. /\ pc[r] = "outputs" /\ pc'[r] \in {"outputs", "loop"} /\ executions' = executions
        /\ executed' = executed
    BY <1>1, <1>3 DEF DeliverOutput, EndOutputs, shared
  <2>2. \A i \in DOMAIN executed'[r] : executed'[r][i].status = "FINISHED"
    BY <2>1 DEF OrderedAt
  <2> QED
    BY <2>1, <2>2 DEF OrderedAt, Orderly
<1>4. CASE \/ BeginNode(r) \/ StopNode(r)
           \/ \E fulfilled \in Reports(r) : FinishNode(r, fulfilled)
           \/ \E status \in {"ERROR", "TERMINATED"} : FailNode(r, status)
  BY <1>4, RunOrdered
<1>5. CASE Settle(r) \/ SettleFailure(r)
  BY <1>5, SettleOrdered
<1>6. CASE Overrun(r) \/ ClearAction(r) \/ SaveMessages(r) \/ LoseAnswer(r)
  <2>1. /\ executions' = executions /\ executed' = executed
        /\ \/ pc[r] = "settled" /\ pc'[r] = "saving"
           \/ pc'[r] \in {"overrun", "done", "unsaved"}
    BY <1>1, <1>6 DEF Overrun, ClearAction, SaveMessages, LoseAnswer, shared
  <2> QED
    BY <2>1 DEF OrderedAt
<1> QED
  BY <1>2, <1>3, <1>4, <1>5, <1>6, Zenon DEF Step

\* A step writes the row of the request alone.
LEMMA StepRows ==
    ASSUME IInv, NEW r \in Requests, Step(r)
    PROVE  /\ row[r] \in DOMAIN executions /\ DOMAIN executions' = DOMAIN executions
           /\ \A i \in DOMAIN executions \ {row[r]} : executions'[i] = executions[i]
<1>1. /\ row[r] \in DOMAIN executions
      /\ \/ executions' = executions
         \/ \E e \in Row : executions' = [executions EXCEPT ![row[r]] = e]
  BY StepRow
<1> QED
  BY <1>1, WrittenRow

LEMMA NextOrdered ==
    ASSUME ~StaleResume, IInv, Queued, Ordered, [Next]_vars
    PROVE  Ordered'
<1>1. CASE Crash \/ (\E r \in Requests : Abort(r)) \/ UNCHANGED vars
  <2>1. /\ \A r \in Requests : pc'[r] = pc[r] \/ pc'[r] = "crashed"
        /\ executions' = executions /\ executed' = executed /\ humanInput' = humanInput
    BY <1>1 DEF Crash, Abort, vars, shared, control
  <2> QED
    BY <2>1 DEF Ordered, OrderedAt, RowsOrderly
<1>2. ASSUME NEW r \in Requests, Arrive(r) PROVE Ordered'
  BY <1>2, ServesOne, ArriveOrdered, OrderedFrame
<1>3. ASSUME NEW r \in Requests, Step(r) PROVE Ordered'
  <2>1. RowsOrderly'
    <3>1. /\ OrderedAt(r)'
          /\ executions' = executions \/ RowOrderly(executions'[row[r]])
      BY <1>3, StepOrderedAt DEF Ordered
    <3>2. \A i \in DOMAIN executions' :
             i = row[r] \/ (i \in DOMAIN executions /\ executions'[i] = executions[i])
      BY <1>3, StepRows
    <3> QED
      BY <3>1, <3>2 DEF Ordered, RowsOrderly
  <2> QED
    BY <1>3, <2>1, ServesOne, StepOrderedAt, OrderedFrame DEF Ordered
<1> QED
  BY <1>1, <1>2, <1>3, Zenon DEF Next

LEMMA InitOrdered == Init => Ordered
BY DEF Init, Ordered, OrderedAt, RowsOrderly

(***************************************************************************)
(* The buttons. When the client waits for each answer and answers the stop *)
(* it was shown, some message keeps the buttons for the stop of an         *)
(* execution until it is answered.                                         *)
(***************************************************************************)
Lost(i) == \E r \in Requests : row[r] = i /\ pc[r] \in {"unsaved", "crashed"}

HasButton(n) == \E m \in DOMAIN messages : messages[m] = n

HaveButtons(d) == \A i \in DOMAIN d : d[i].status = "STOPPED" => HasButton(d[i].node)

AnswersAt(r) ==
    /\ pc[r] \in {"settled", "saving"} =>
          executions[row[r]] = [state |-> FinalState(executed[r]), data |-> executed[r]]
    /\ pc[r] \in {"dropping", "resuming", "loop", "running", "failing"} /\ ~Lost(row[r]) =>
          HaveButtons(executed[r])

QuietHasButtons ==
    /\ ActiveRequests = {} /\ executions # <<>>
    /\ ~Lost(Len(executions)) /\ Resumable(Last(executions))
    => HaveButtons(Last(executions).data)

HInv ==
    /\ LInv /\ Queued /\ Ordered
    /\ \A r \in Requests : AnswersAt(r)
    /\ QuietHasButtons

OneByOne == MaxActive = 1 /\ ~StaleResume

LEMMA ArriveAnswers ==
    ASSUME OneByOne, HInv, NEW r \in Requests, Arrive(r)
    PROVE  AnswersAt(r)' /\ QuietHasButtons'
<1>1. /\ IInv /\ AnswersAt(r) /\ MayArrive(r) /\ pc[r] = "idle" /\ executed[r] = <<>>
      /\ executions \in Seq(Row) /\ Len(executions) \in Nat
      /\ row \in [Requests -> 0 .. Len(executions)]
      /\ executed \in [Requests -> Seq(Entry)]
      /\ humanInput \in [Requests -> Node \cup {NoNode}]
      /\ pc \in [Requests -> {"idle"} \cup Active \cup Ended]
      /\ ActiveRequests = {}
  <2>1. ActiveRequests = {}
    BY ArriveArrives, ArrivesAlone DEF ActiveRequests, OneByOne
  <2> QED
    BY <2>1, ArriveArrives DEF HInv, LInv, IInv, TypeOK, Ordered, OrderedAt, MayArrive
<1>2. CASE Ask(r)
  <2> DEFINE e == [state |-> "INPROGRESS", data |-> <<>>]
  <2>1. e \in Row /\ e.state = "INPROGRESS"
    BY DEF Row, States
  <2>2. executions' = Append(executions, e) /\ pc'[r] = "loop" /\ executed' = executed
    BY <1>1, <1>2 DEF Ask
  <2> HIDE DEF e
  <2>3. /\ DOMAIN executions' = DOMAIN executions \cup {Len(executions) + 1}
        /\ executions'[Len(executions) + 1] = e /\ Last(executions') = e
        /\ \A i \in DOMAIN executions : executions'[i] = executions[i]
    BY <1>1, <2>1, <2>2, AppendedEntry
  <2>4. AnswersAt(r)'
    <3>1. executed'[r] = <<>>
      BY <1>1, <2>2
    <3> QED
      BY <2>2, <3>1 DEF AnswersAt, HaveButtons
  <2>5. QuietHasButtons'
    BY <2>1, <2>3 DEF QuietHasButtons, Resumable, Retryable
  <2> QED
    BY <2>4, <2>5
<1>3. ASSUME RefuseQuestion(r) \/ \E named \in NamedStops : RefuseHumanInput(r, named)
      PROVE  AnswersAt(r)' /\ QuietHasButtons'
  <2>1. /\ pc' = [pc EXCEPT ![r] = "rejected"] /\ row' = row /\ executions' = executions
        /\ messages' = messages
    BY <1>3 DEF RefuseQuestion, RefuseHumanInput, shared, control
  <2>2. AnswersAt(r)'
    BY <1>1, <2>1 DEF AnswersAt
  <2>3. \A i : Lost(i)' <=> Lost(i)
    BY <1>1, <2>1 DEF Lost
  <2>4. QuietHasButtons'
    BY <1>1, <2>1, <2>3 DEF HInv, QuietHasButtons, HaveButtons, HasButton
  <2> QED
    BY <2>2, <2>4
<1>4. ASSUME NEW named \in NamedStops, Resume(r, named)
      PROVE  AnswersAt(r)' /\ QuietHasButtons'
  <2> DEFINE e == Last(executions)
             d == ResumeData(e)
  <2>1. /\ executions' = executions /\ messages' = messages
        /\ executed'[r] = d /\ humanInput'[r] = ResumeNode(d, named)
        /\ row' = [row EXCEPT ![r] = Len(executions)]
        /\ \E p \in {"dropping", "resuming"} : pc' = [pc EXCEPT ![r] = p]
        /\ CanResume(named) /\ Resumable(e)
    BY <1>1, <1>4 DEF Resume, CanResume, shared
  <2>2. e \in Row /\ executions # <<>>
    BY <1>1, <2>1, LastType DEF CanResume
  <2>3. DOMAIN d \subseteq DOMAIN e.data /\ \A i \in DOMAIN d : d[i] = e.data[i]
    BY <2>2, ResumedEntries
  <2>4. ~Lost(Len(executions))' => HaveButtons(d)
    <3>1. ~Lost(Len(executions))' => ~Lost(Len(executions))
      BY <1>1, <2>1 DEF Lost
    <3>2. ~Lost(Len(executions)) => HaveButtons(e.data)
      BY <1>1, <2>1, <2>2 DEF HInv, QuietHasButtons
    <3> QED
      BY <2>3, <3>1, <3>2 DEF HaveButtons
  <2> HIDE DEF d, e
  <2>5. AnswersAt(r)'
    <3>1. row'[r] = Len(executions) /\ pc'[r] \in {"dropping", "resuming"}
      BY <1>1, <2>1
    <3>2. ~Lost(row[r])' => HaveButtons(d)
      BY <2>1, <2>4, <3>1 DEF Lost
    <3>3. HaveButtons(d)' <=> HaveButtons(d)
      BY <2>1 DEF HaveButtons, HasButton, d, e
    <3> QED
      BY <2>1, <3>1, <3>2, <3>3 DEF AnswersAt, HaveButtons, HasButton
  <2>6. QuietHasButtons'
    <3>1. pc'[r] \in Active
      BY <1>1, <2>1 DEF Active
    <3> QED
      BY <3>1 DEF QuietHasButtons, ActiveRequests
  <2> QED
    BY <2>5, <2>6
<1> QED
  BY <1>2, <1>3, <1>4, Zenon DEF Arrive

\* What every step of the request has before it and leaves.
LEMMA StepsOnLastRow ==
    ASSUME OneByOne, HInv, NEW r \in Requests, Step(r)
    PROVE  /\ row' = row /\ row[r] = Len(executions) /\ row[r] \in DOMAIN executions
           /\ Len(executions') = Len(executions) /\ DOMAIN executions' = DOMAIN executions
           /\ \A i \in DOMAIN executions \ {row[r]} : executions'[i] = executions[i]
           /\ pc'[r] \notin {"unsaved", "crashed"} => (Lost(row[r])' <=> Lost(row[r]))
<1>1. /\ IInv /\ Alone /\ InHandAt(r) /\ pc[r] \in Active
  BY StepsWhileActive DEF HInv, LInv, InHand
<1>2. row' = row /\ row[r] = Len(executions) /\ row[r] \in DOMAIN executions
  BY <1>1, StepRow DEF InHandAt
<1>3. \/ executions' = executions
      \/ \E e \in Row : executions' = [executions EXCEPT ![row[r]] = e]
  BY <1>1, StepRow
<1>4. /\ Len(executions') = Len(executions) /\ DOMAIN executions' = DOMAIN executions
      /\ \A i \in DOMAIN executions \ {row[r]} : executions'[i] = executions[i]
  BY <1>1, <1>2, <1>3, WrittenRow
<1>5. \A q \in Requests \ {r} : pc'[q] = pc[q]
  BY <1>1, OthersAtRest DEF OneByOne
<1>6. pc'[r] \notin {"unsaved", "crashed"} => (Lost(row[r])' <=> Lost(row[r]))
  BY <1>1, <1>2, <1>5 DEF Lost, Active
<1> QED
  BY <1>2, <1>4, <1>6

\* The steps before the row is settled that leave the executed data alone.
LEMMA PrepareAnswers ==
    ASSUME OneByOne, HInv, NEW r \in Requests, Step(r),
           DropErrorEntry(r) \/ Reopen(r) \/ DeliverOutput(r) \/ EndOutputs(r)
    PROVE  AnswersAt(r)' /\ pc'[r] \in Active
<1>1. /\ AnswersAt(r) /\ row' = row
      /\ pc \in [Requests -> {"idle"} \cup Active \cup Ended]
  BY StepsOnLastRow DEF HInv, LInv, IInv, TypeOK
<1>2. executed' = executed /\ messages' = messages
  BY DEF DropErrorEntry, Reopen, DeliverOutput, EndOutputs, shared
<1>3. CASE DropErrorEntry(r) \/ Reopen(r)
  <2>1. pc[r] \in {"dropping", "resuming"} /\ pc'[r] \in {"resuming", "loop"}
    BY <1>1, <1>3 DEF DropErrorEntry, Reopen
  <2>2. Lost(row[r])' <=> Lost(row[r])
    BY <2>1, StepsOnLastRow
  <2> QED
    BY <1>1, <1>2, <2>1, <2>2 DEF AnswersAt, HaveButtons, HasButton, Active
<1>4. CASE DeliverOutput(r) \/ EndOutputs(r)
  <2>1. pc[r] = "outputs" /\ pc'[r] \in {"outputs", "loop"}
    BY <1>1, <1>4 DEF DeliverOutput, EndOutputs
  <2>2. \A i \in DOMAIN executed'[r] : executed'[r][i].status = "FINISHED"
    BY <1>2, <2>1 DEF HInv, Ordered, OrderedAt
  <2> QED
    BY <2>1, <2>2 DEF AnswersAt, HaveButtons, Active
<1> QED
  BY <1>3, <1>4

\* The steps that run a node.
LEMMA RunAnswers ==
    ASSUME OneByOne, HInv, NEW r \in Requests, Step(r),
           \/ BeginNode(r) \/ StopNode(r)
           \/ \E fulfilled \in Reports(r) : FinishNode(r, fulfilled)
           \/ \E status \in {"ERROR", "TERMINATED"} : FailNode(r, status)
    PROVE  AnswersAt(r)' /\ pc'[r] \in Active
<1>1. /\ IInv /\ AnswersAt(r) /\ executed[r] \in Seq(Entry) /\ row' = row
  BY StepsOnLastRow DEF HInv, LInv, IInv, TypeOK
<1>2. messages' = messages
  BY DEF BeginNode, StopNode, FinishNode, FailNode, shared
<1>3. CASE BeginNode(r) /\ pc'[r] = "running" /\ executed' = executed
  <2>1. pc[r] = "loop"
    BY <1>3 DEF BeginNode
  <2>2. Lost(row[r])' <=> Lost(row[r])
    BY <1>3, StepsOnLastRow
  <2> QED
    BY <1>1, <1>2, <1>3, <2>1, <2>2 DEF AnswersAt, HaveButtons, HasButton, Active
<1>4. ASSUME NEW e \in Entry, Failed(r, e)
      PROVE  AnswersAt(r)' /\ pc'[r] \in Active
  <2> DEFINE d == executed[r]
             s == Append(d, e)
  <2>1. /\ pc[r] \in {"loop", "running"} /\ pc'[r] = "failing" /\ executed'[r] = s
        /\ e.status \in {"ERROR", "TERMINATED"}
    BY <1>4 DEF Failed
  <2>2. (~Lost(row[r]) => HaveButtons(d)) /\ d \in Seq(Entry)
    BY <1>1, <2>1 DEF AnswersAt
  <2> HIDE DEF d
  <2>3. /\ DOMAIN s = DOMAIN d \cup {Len(d) + 1}
        /\ (\A i \in DOMAIN d : s[i] = d[i]) /\ s[Len(d) + 1] = e
    BY <2>2, AppendedEntry
  <2> HIDE DEF s
  <2>4. HaveButtons(d) => HaveButtons(s)
    BY <2>1, <2>3 DEF HaveButtons
  <2>5. Lost(row[r])' <=> Lost(row[r])
    BY <2>1, StepsOnLastRow
  <2>6. HaveButtons(executed[r])' <=> HaveButtons(s)
    BY <1>2, <2>1 DEF HaveButtons, HasButton
  <2> QED
    BY <2>1, <2>2, <2>4, <2>5, <2>6 DEF AnswersAt, Active
<1>5. ASSUME NEW e \in Entry, Ran(r, e)
      PROVE  AnswersAt(r)' /\ pc'[r] \in Active
  BY <1>5 DEF Ran, AnswersAt, Active
<1>6. \/ BeginNode(r) /\ pc'[r] = "running" /\ executed' = executed
      \/ \E e \in Entry : Failed(r, e) \/ Ran(r, e)
  BY <1>1, BeginNodeExecuted, FinishNodeRan, StopNodeRan, FailNodeFailed
<1> QED
  BY <1>3, <1>4, <1>5, <1>6

\* The row is settled; before an error at the end of its data the buttons of a stop are
\* still there.
LEMMA SettleAnswers ==
    ASSUME OneByOne, HInv, NEW r \in Requests, Step(r), Settle(r) \/ SettleFailure(r)
    PROVE  AnswersAt(r)' /\ QuietHasButtons'
<1> DEFINE d == executed[r]
           e == [state |-> FinalState(d), data |-> d]
           f == [state |-> Last(d).status, data |-> d]
<1>1. /\ IInv /\ AnswersAt(r)
      /\ row' = row /\ row[r] \in DOMAIN executions /\ row[r] = Len(executions)
      /\ Len(executions') = Len(executions) /\ executed' = executed /\ messages' = messages
      /\ pc \in [Requests -> {"idle"} \cup Active \cup Ended]
  BY StepsOnLastRow DEF HInv, LInv, IInv, TypeOK, Settle, SettleFailure
<1>2. CASE Settle(r)
  <2>1. pc'[r] = "settled" /\ executions' = [executions EXCEPT ![row[r]] = e]
    BY <1>1, <1>2 DEF Settle
  <2> HIDE DEF e
  <2>2. executions'[row[r]] = e
    BY <1>1, <2>1, WrittenRow
  <2>3. AnswersAt(r)'
    BY <1>1, <2>1, <2>2 DEF AnswersAt, e
  <2>4. QuietHasButtons'
    BY <2>1 DEF QuietHasButtons, ActiveRequests, Active
  <2> QED
    BY <2>3, <2>4
<1>3. CASE SettleFailure(r)
  <2>1. /\ pc[r] = "failing" /\ pc'[r] = "failed"
        /\ executions' = [executions EXCEPT ![row[r]] = f]
    BY <1>1, <1>3 DEF SettleFailure
  <2>2. ~Lost(row[r]) => HaveButtons(d)
    BY <1>1, <2>1 DEF AnswersAt
  <2>3. f.data = d
    OBVIOUS
  <2> HIDE DEF d, f
  <2>4. Last(executions') = f
    BY <1>1, <2>1, WrittenRow DEF Last
  <2>5. AnswersAt(r)'
    BY <2>1 DEF AnswersAt
  <2>6. QuietHasButtons'
    <3>1. Lost(row[r])' <=> Lost(row[r])
      BY <2>1, StepsOnLastRow
    <3>2. Lost(Len(executions))' <=> Lost(Len(executions))
      BY <1>1, <3>1 DEF Lost
    <3>3. \A n : HasButton(n)' <=> HasButton(n)
      BY <1>1 DEF HasButton
    <3> QED
      BY <1>1, <2>2, <2>3, <2>4, <3>2, <3>3 DEF QuietHasButtons, HaveButtons
  <2> QED
    BY <2>5, <2>6
<1> QED
  BY <1>2, <1>3

\* The request ends at the iteration limit, which leaves its row INPROGRESS, or with an
\* answer, which carries the buttons of the stop, or its answer is lost.
LEMMA EndAnswers ==
    ASSUME OneByOne, HInv, NEW r \in Requests, Step(r),
           Overrun(r) \/ ClearAction(r) \/ SaveMessages(r) \/ LoseAnswer(r)
    PROVE  AnswersAt(r)' /\ QuietHasButtons'
<1> DEFINE d == executed[r]
<1>1. /\ IInv /\ AnswersAt(r) /\ InHandAt(r) /\ d \in Seq(Entry)
      /\ executions # <<>> /\ row[r] = Len(executions) /\ row' = row /\ executed' = executed
      /\ messages \in Seq(Node \cup {NoNode}) /\ NoNode \notin Node
      /\ pc \in [Requests -> {"idle"} \cup Active \cup Ended]
  <2>1. /\ IInv /\ AnswersAt(r) /\ InHandAt(r)
    BY DEF HInv, LInv, InHand
  <2>2. /\ row' = row /\ row[r] = Len(executions) /\ row[r] \in DOMAIN executions
    BY StepsOnLastRow
  <2>3. executed' = executed
    BY DEF Overrun, ClearAction, SaveMessages, LoseAnswer
  <2>4. /\ d \in Seq(Entry) /\ messages \in Seq(Node \cup {NoNode}) /\ executions \in Seq(Row)
        /\ pc \in [Requests -> {"idle"} \cup Active \cup Ended]
    BY <2>1 DEF IInv, TypeOK
  <2>5. executions # <<>>
    BY <2>2, <2>4
  <2> QED
    BY <2>1, <2>2, <2>3, <2>4, <2>5, FlowAssumption
<1>2. executions' = executions
  BY DEF Overrun, ClearAction, SaveMessages, LoseAnswer, shared
<1>3. CASE Overrun(r)
  <2>1. pc[r] = "loop" /\ pc'[r] = "overrun"
    BY <1>1, <1>3 DEF Overrun
  <2>2. Last(executions).state = "INPROGRESS"
    BY <1>1, <2>1 DEF InHandAt, Last
  <2> QED
    BY <1>2, <2>1, <2>2 DEF AnswersAt, QuietHasButtons, Resumable, Retryable
<1>4. CASE ClearAction(r)
  <2>1. pc[r] = "settled" /\ pc'[r] = "saving"
    BY <1>1, <1>4 DEF ClearAction
  <2> QED
    BY <1>1, <1>2, <2>1 DEF AnswersAt, QuietHasButtons, ActiveRequests, Active
<1>5. CASE SaveMessages(r)
  <2> DEFINE b == IF Last(d).status = "STOPPED" THEN Last(d).node ELSE NoNode
  <2>1. /\ pc[r] \in {"settled", "saving"} /\ pc'[r] = "done"
        /\ messages' = Append(messages, b)
    BY <1>1, <1>5 DEF SaveMessages
  <2>2. d # <<>>
    BY <1>1, <2>1 DEF IInv, Placed, PlacedAt
  <2>3. Last(d) \in Entry /\ Len(d) \in DOMAIN d
    BY <1>1, <2>2, LastType
  <2>4. Last(d).node \in Node
    BY <2>3 DEF Entry
  <2>5. b \in Node \cup {NoNode}
    BY <2>4
  <2>6. Last(d).status = "STOPPED" => b = Last(d).node
    OBVIOUS
  <2>7. Orderly(d, Len(d)) /\ Last(executions) = [state |-> FinalState(d), data |-> d]
    BY <1>1, <2>1 DEF HInv, Ordered, OrderedAt, AnswersAt, Last
  <2> HIDE DEF d, b
  <2>8. /\ DOMAIN messages' = DOMAIN messages \cup {Len(messages) + 1}
        /\ messages'[Len(messages) + 1] = b
    BY <1>1, <2>1, <2>5, AppendedEntry
  <2>9. HaveButtons(d)'
    <3> SUFFICES ASSUME NEW i \in DOMAIN d, d[i].status = "STOPPED"
                 PROVE  \E m \in DOMAIN messages' : messages'[m] = d[i].node
      BY <1>1 DEF HaveButtons, HasButton, d
    <3>1. i = Len(d)
      BY <2>7 DEF Orderly
    <3> QED
      BY <2>6, <2>8, <3>1 DEF Last
  <2>10. QuietHasButtons'
    BY <1>1, <1>2, <2>7, <2>9 DEF QuietHasButtons, HaveButtons, HasButton, d
  <2> QED
    BY <1>2, <2>1, <2>10 DEF AnswersAt
<1>6. CASE LoseAnswer(r)
  <2>1. pc'[r] = "unsaved"
    BY <1>1, <1>6 DEF LoseAnswer
  <2>2. Lost(Len(executions))'
    BY <1>1, <1>2, <2>1 DEF Lost
  <2> QED
    BY <1>2, <2>1, <2>2 DEF AnswersAt, QuietHasButtons
<1> QED
  BY <1>2, <1>3, <1>4, <1>5, <1>6

LEMMA StepAnswers ==
    ASSUME OneByOne, HInv, NEW r \in Requests, Step(r)
    PROVE  AnswersAt(r)' /\ QuietHasButtons'
<1>1. pc'[r] \in Active => QuietHasButtons'
  BY DEF QuietHasButtons, ActiveRequests
<1>2. CASE DropErrorEntry(r) \/ Reopen(r) \/ DeliverOutput(r) \/ EndOutputs(r)
  BY <1>1, <1>2, PrepareAnswers
<1>3. CASE \/ BeginNode(r) \/ StopNode(r)
           \/ \E fulfilled \in Reports(r) : FinishNode(r, fulfilled)
           \/ \E status \in {"ERROR", "TERMINATED"} : FailNode(r, status)
  BY <1>1, <1>3, RunAnswers
<1>4. CASE Settle(r) \/ SettleFailure(r)
  BY <1>4, SettleAnswers
<1>5. CASE Overrun(r) \/ ClearAction(r) \/ SaveMessages(r) \/ LoseAnswer(r)
  BY <1>5, EndAnswers
<1> QED
  BY <1>2, <1>3, <1>4, <1>5, Zenon DEF Step

LEMMA NextHInv == ASSUME OneByOne, HInv, [Next]_vars PROVE HInv'
<1>1. LInv' /\ Queued' /\ Ordered'
  BY NextLInv, NextQueued, NextOrdered DEF HInv, LInv, OneByOne
<1>2. CASE Crash
  <2>1. /\ executions' = executions /\ messages' = messages /\ row' = row
        /\ executed' = executed /\ humanInput' = humanInput
        /\ \A r \in Requests : pc'[r] = IF pc[r] \in Active THEN "crashed" ELSE pc[r]
    BY <1>2 DEF Crash, shared, control
  <2>2. \A r \in Requests : AnswersAt(r)'
    <3> SUFFICES ASSUME NEW r \in Requests PROVE AnswersAt(r)'
      OBVIOUS
    <3>1. pc'[r] \notin Active /\ (pc'[r] = "idle" => pc[r] = "idle")
      BY <2>1 DEF Active
    <3> QED
      BY <2>1, <3>1 DEF HInv, AnswersAt, Active
  <2>3. PICK r \in Requests : pc[r] \in Active
    BY <1>2 DEF Crash, ActiveRequests
  <2>4. Lost(Len(executions))'
    BY <2>1, <2>3 DEF HInv, LInv, InHand, InHandAt, Lost
  <2> QED
    BY <1>1, <2>1, <2>2, <2>4 DEF HInv, QuietHasButtons
<1>3. ASSUME NEW r \in Requests, Arrive(r) \/ Step(r) PROVE HInv'
  <2>1. AnswersAt(r)' /\ QuietHasButtons'
    BY <1>3, ArriveAnswers, StepAnswers
  <2>2. ASSUME NEW q \in Requests \ {r} PROVE AnswersAt(q)'
    <3>1. pc[q] \notin Active /\ pc'[q] = pc[q] /\ executed'[q] = executed[q]
      BY <1>3, OthersAtRest, ServesOne DEF HInv, LInv, OneByOne, Unmoved
    <3> QED
      BY <3>1 DEF HInv, AnswersAt, Active
  <2> QED
    BY <1>1, <2>1, <2>2 DEF HInv
<1>4. CASE (\E r \in Requests : Abort(r)) \/ UNCHANGED vars
  <2>1. /\ executions' = executions /\ messages' = messages /\ row' = row /\ pc' = pc
        /\ executed' = executed /\ humanInput' = humanInput
    BY <1>4 DEF Abort, vars, shared, control
  <2>2. \A r \in Requests : AnswersAt(r)'
    BY <2>1 DEF HInv, AnswersAt, Lost, HaveButtons, HasButton
  <2>3. QuietHasButtons'
    BY <2>1 DEF HInv, QuietHasButtons, ActiveRequests, Lost, HaveButtons, HasButton
  <2> QED
    BY <1>1, <2>1, <2>2, <2>3 DEF HInv
<1> QED
  BY <1>2, <1>3, <1>4, Zenon DEF Next

LEMMA InitHInv == Init => HInv
BY InitLInv, InitQueued, InitOrdered DEF Init, HInv, AnswersAt, QuietHasButtons

\* When the client waits for each answer and answers the stop it was shown, an execution
\* that waits for a human has its buttons whenever the session is quiet, whatever the
\* agentflow and however often the resumes fail, are aborted or crash, unless an answer of
\* its own was lost (the chat messages executeAgentFlow saves and the action it clears).
THEOREM StopsHaveButtons == OneByOne => (Spec => []ResumableHasAction)
<1> SUFFICES ASSUME OneByOne PROVE Spec => []ResumableHasAction
  OBVIOUS
<1>1. ASSUME HInv PROVE ResumableHasAction
  <2> DEFINE e == Last(executions)
  <2> SUFFICES ASSUME ActiveRequests = {}, executions # <<>>, Resumable(e),
                      ~Lost(Len(executions))
               PROVE  \E i \in DOMAIN messages :
                         messages[i] # NoNode /\ messages[i] = LastStopped(e.data)
    BY DEF ResumableHasAction, Lost
  <2>1. e \in Row /\ RowOrderly(e)
    BY <1>1, LastType DEF HInv, LInv, IInv, TypeOK, Ordered, RowsOrderly, Last
  <2>2. HaveButtons(e.data)
    BY <1>1 DEF HInv, QuietHasButtons
  <2> HIDE DEF e
  <2>3. e.data \in Seq(Entry) /\ DOMAIN e.data = 1 .. Len(e.data) /\ Len(e.data) \in Nat
    BY <2>1 DEF Row
  <2>4. HasStatus(e.data, "STOPPED")
    <3>1. CASE e.state = "STOPPED"
      BY <2>1, <3>1 DEF RowOrderly
    <3>2. CASE Retryable(e)
      <4>1. Len(e.data) - 1 \in DOMAIN e.data /\ e.data[Len(e.data) - 1].status = "STOPPED"
        BY <2>3, <3>2 DEF Retryable, EndsInRetry
      <4> QED
        BY <4>1 DEF HasStatus
    <3> QED
      BY <3>1, <3>2 DEF Resumable
  <2>5. LastStopped(e.data) # NoNode
    BY <2>3, <2>4, StopIsLast
  <2> QED
    BY <2>2, <2>3, <2>5, LastStoppedIs DEF HaveButtons, HasButton
<1> QED
  BY <1>1, InitHInv, NextHInv, PTL DEF Spec

(***************************************************************************)
(* The calls. A request goes through the nodes its last entry calls, and   *)
(* what a waiting node has received is never enough for it (Deliveries).   *)
(***************************************************************************)
DeliversAt(r) ==
    /\ pc[r] = "outputs" =>
          \A i \in DOMAIN children[r] :
             children[r][i] \in Callees(F, current[r], Last(executed[r]).taken)
    /\ \A n \in Node : waiting[r][n] # {} => ~Satisfied(F, n, waiting[r][n])

Deliveries == \A r \in Requests : DeliversAt(r)

\* What a step of a request but its runs and deliveries leaves alone.
LEMMA DeliversFrame ==
    ASSUME NEW r \in Requests, DeliversAt(r), chatflow' = chatflow,
           waiting'[r] = waiting[r], pc'[r] # "outputs"
    PROVE  DeliversAt(r)'
BY FlowStays DEF DeliversAt

LEMMA FinishNodeDelivers ==
    ASSUME IInv, NEW r \in Requests, DeliversAt(r), NEW fulfilled \in Reports(r),
           FinishNode(r, fulfilled)
    PROVE  /\ DeliversAt(r)'
           /\ \E e \in Entry :
                 /\ executed'[r] = Append(Kept(r), e)
                 /\ e.node = current[r] /\ e.status = "FINISHED"
                 /\ e.taken \in Outcomes(F, current[r])
                 /\ children'[r] = Fired(F, current[r], e.taken)
<1> DEFINE taken == IF IsDecision(F, current[r]) THEN Taken(F, current[r], fulfilled) ELSE {}
           e == [node |-> current[r], status |-> "FINISHED", taken |-> taken]
<1>1. /\ executed \in [Requests -> Seq(Entry)] /\ children \in [Requests -> Seq(Node)]
      /\ F \in Flow /\ current[r] \in Node /\ fulfilled \in SUBSET Nat
      /\ pc[r] = "running" /\ chatflow' = chatflow /\ waiting' = waiting /\ current' = current
  BY FlowType, ReportsType DEF IInv, TypeOK, Placed, PlacedAt, FinishNode
<1>2. taken \in SUBSET Nat
  BY <1>1, TakenType
<1>3. /\ executed' = [executed EXCEPT ![r] = Append(Kept(r), e)]
      /\ children' = [children EXCEPT ![r] = Fired(F, current[r], taken)]
  BY DEF FinishNode
<1>4. taken \in Outcomes(F, current[r])
  BY <1>1 DEF Outcomes, Reports
<1> HIDE DEF taken
<1>5. e \in Entry /\ e.status = "FINISHED" /\ e.node = current[r] /\ e.taken = taken
  BY <1>1, <1>2 DEF Entry, States
<1> HIDE DEF e
<1>6. executed'[r] = Append(Kept(r), e) /\ children'[r] = Fired(F, current[r], taken)
  BY <1>1, <1>3
<1>7. Last(executed'[r]) = e
  BY <1>5, <1>6, KeptEntries, AppendedEntry
<1>8. F' = F
  BY <1>1, FlowStays
<1>9. DeliversAt(r)'
  BY <1>1, <1>5, <1>6, <1>7, <1>8 DEF DeliversAt, Callees
<1> QED
  BY <1>4, <1>5, <1>6, <1>9

\* What a delivery does to the queue and to the waiting nodes.
Delivered(r, child, received) ==
    /\ pc[r] = "outputs" /\ pc'[r] = "outputs"
    /\ child \in F.nodes /\ child \in Node /\ current[r] \in Node
    /\ received = waiting[r][child] \cup {current[r]}
    /\ children[r] # <<>> /\ child = Head(children[r]) /\ children'[r] = Tail(children[r])
    /\ \A n \in Node \ {child} : waiting'[r][n] = waiting[r][n]
    /\ \/ /\ Satisfied(F, child, received)
          /\ waiting'[r][child] = {} /\ queue'[r] = Append(queue[r], child)
       \/ /\ ~Satisfied(F, child, received)
          /\ waiting'[r][child] = received /\ queue'[r] = queue[r]

LEMMA DeliverOutputDelivers ==
    ASSUME IInv, Queued, NEW r \in Requests, DeliversAt(r), DeliverOutput(r)
    PROVE  DeliversAt(r)' /\ \E child, received : Delivered(r, child, received)
<1> DEFINE child == Head(children[r])
           received == waiting[r][child] \cup {current[r]}
<1>1. /\ queue \in [Requests -> Seq(Node)]
      /\ children \in [Requests -> Seq(Node)] /\ children[r] \in Seq(Node)
      /\ waiting \in [Requests -> [Node -> SUBSET Node]]
      /\ chatflow \in DOMAIN Agentflows /\ F \in Flow
      /\ QueuedAt(r)
  BY FlowType DEF IInv, TypeOK, Queued
<1>2. /\ pc[r] = "outputs" /\ pc' = pc /\ chatflow' = chatflow /\ F' = F
      /\ executed' = executed /\ current' = current
      /\ children[r] # <<>> /\ children'[r] = Tail(children[r])
  BY <1>1, FlowStays DEF DeliverOutput
<1>3. child \in Children(r) /\ child \in Node /\ current[r] \in Node
  BY <1>1, <1>2 DEF QueuedAt, IInv, Placed, PlacedAt
<1>4. Ready(child, received) <=> Satisfied(F, child, received)
  BY <1>1, <1>3 DEF Ready, Satisfied, Dependencies, Children, F
<1>5. Delivered(r, child, received)
  <2>1. /\ \A n \in Node \ {child} : waiting'[r][n] = waiting[r][n]
        /\ \/ /\ Ready(child, received)
              /\ waiting'[r][child] = {} /\ queue'[r] = Append(queue[r], child)
           \/ /\ ~Ready(child, received)
              /\ waiting'[r][child] = received /\ queue'[r] = queue[r]
    <3>1. CASE Ready(child, received)
      <4>1. /\ waiting' = [waiting EXCEPT ![r][child] = {}]
            /\ queue' = [queue EXCEPT ![r] = Append(queue[r], child)]
        BY <3>1 DEF DeliverOutput
      <4> QED
        BY <1>1, <1>3, <3>1, <4>1
    <3>2. CASE ~Ready(child, received)
      <4>1. waiting' = [waiting EXCEPT ![r][child] = received] /\ queue' = queue
        BY <3>2 DEF DeliverOutput
      <4> QED
        BY <1>1, <1>3, <3>2, <4>1
    <3> QED
      BY <3>1, <3>2
  <2> HIDE DEF child, received
  <2> QED
    BY <1>2, <1>3, <1>4, <2>1, Zenon DEF Delivered, Children, child, received
<1>6. \A i \in DOMAIN Tail(children[r]) : \E j \in DOMAIN children[r] : Tail(children[r])[i] = children[r][j]
  BY <1>1, <1>2
<1>7. DeliversAt(r)'
  <2> HIDE DEF child, received
  <2>1. \A n \in Node : waiting'[r][n] # {} => ~Satisfied(F, n, waiting'[r][n])
    BY <1>5 DEF Delivered, DeliversAt
  <2>2. \A i \in DOMAIN children'[r] :
           children'[r][i] \in Callees(F, current[r], Last(executed[r]).taken)
    BY <1>2, <1>6 DEF DeliversAt
  <2> QED
    BY <1>2, <2>1, <2>2 DEF DeliversAt
<1> QED
  BY <1>5, <1>7

LEMMA NextDeliveries == ASSUME IInv, Queued, Deliveries, [Next]_vars PROVE Deliveries'
<1>1. pc \in [Requests -> {"idle"} \cup Active \cup Ended]
  BY DEF IInv, TypeOK
<1>2. CASE Crash \/ (\E r \in Requests : Abort(r)) \/ UNCHANGED vars
  <2>1. /\ \A r \in Requests : pc'[r] = pc[r] \/ pc'[r] = "crashed"
        /\ chatflow' = chatflow /\ F' = F /\ executed' = executed
        /\ waiting' = waiting /\ current' = current /\ children' = children
    BY <1>2 DEF Crash, Abort, vars, shared, control, local, F
  <2> QED
    BY <2>1 DEF Deliveries, DeliversAt
<1>3. ASSUME NEW r \in Requests, Arrive(r) \/ Step(r) PROVE Deliveries'
  <2>1. DeliversAt(r)'
    <3>0. DeliversAt(r)
      BY DEF Deliveries
    <3>1. CASE Arrive(r)
      <4>1. chatflow' = chatflow /\ waiting' = waiting /\ pc'[r] # "outputs"
        BY <1>1, <3>1 DEF Arrive, Ask, RefuseQuestion, Resume, RefuseHumanInput, MayArrive, local
      <4> QED
        BY <3>0, <4>1, DeliversFrame
    <3>2. CASE DeliverOutput(r)
      BY <3>0, <3>2, DeliverOutputDelivers
    <3>3. CASE \E fulfilled \in Reports(r) : FinishNode(r, fulfilled)
      BY <3>0, <3>3, FinishNodeDelivers
    <3>4. CASE \/ DropErrorEntry(r) \/ Reopen(r) \/ BeginNode(r) \/ Overrun(r) \/ StopNode(r)
               \/ \E status \in {"ERROR", "TERMINATED"} : FailNode(r, status)
      <4>1. chatflow' = chatflow /\ waiting' = waiting /\ pc'[r] # "outputs"
        BY <1>1, <3>4
        DEF DropErrorEntry, Reopen, BeginNode, Overrun, StopNode, FailNode, local
      <4> QED
        BY <3>0, <4>1, DeliversFrame
    <3>5. CASE \/ EndOutputs(r) \/ Settle(r) \/ SettleFailure(r)
               \/ ClearAction(r) \/ SaveMessages(r) \/ LoseAnswer(r)
      <4>1. chatflow' = chatflow /\ waiting' = waiting /\ pc'[r] # "outputs"
        BY <1>1, <3>5
        DEF EndOutputs, Settle, SettleFailure, ClearAction, SaveMessages, LoseAnswer, local
      <4> QED
        BY <3>0, <4>1, DeliversFrame
    <3> QED
      BY <1>3, <3>1, <3>2, <3>3, <3>4, <3>5, Zenon DEF Step
  <2>2. Unmoved(r)
    BY <1>3, ServesOne
  <2> QED
    BY <2>1, <2>2, FlowStays DEF Deliveries, DeliversAt, Unmoved
<1> QED
  BY <1>2, <1>3, Zenon DEF Next

LEMMA InitDeliveries == Init => Deliveries
BY DEF Init, Deliveries, DeliversAt

(***************************************************************************)
(* The data of a flow that runs its nodes once (RunsOnce). The steps of an *)
(* execution, its finished nodes and what they took, are a course of the   *)
(* flow (Sound), so a node has been called by just the inputs it required  *)
(* (OneSupply), and a further input cannot come in for it.                 *)
(***************************************************************************)
Stays(e) == e.status \in {"FINISHED", "STOPPED"}

\* The nodes that called n in the data d.
CallersIn(f, d, n) ==
    {s \in Node : \E i \in DOMAIN d :
        d[i].status = "FINISHED" /\ d[i].node = s /\ n \in Callees(f, s, d[i].taken)}

Supplied(f, d, n) == n \in f.nodes /\ Satisfied(f, n, CallersIn(f, d, n))

Sound(f, d) ==
    /\ \A i, j \in DOMAIN d : Stays(d[i]) /\ Stays(d[j]) /\ d[i].node = d[j].node => i = j
    /\ \A i \in DOMAIN d : Stays(d[i]) => Supplied(f, d, d[i].node)
    /\ \A i \in DOMAIN d : d[i].status = "FINISHED" => d[i].taken \in Outcomes(f, d[i].node)

\* The finished steps of the data.
Course(d) ==
    {[node |-> d[i].node, taken |-> d[i].taken] : i \in {j \in DOMAIN d : d[j].status = "FINISHED"}}

LEMMA MoreCallers ==
    ASSUME NEW f, NEW d, NEW e, NEW n,
           \A i \in DOMAIN d : d[i].status = "FINISHED" => \E k \in DOMAIN e : e[k] = d[i]
    PROVE  CallersIn(f, d, n) \subseteq CallersIn(f, e, n)
<1> SUFFICES ASSUME NEW s \in CallersIn(f, d, n) PROVE s \in CallersIn(f, e, n)
  OBVIOUS
<1>1. s \in Node
  BY DEF CallersIn
<1>2. PICK i \in DOMAIN d :
          d[i].status = "FINISHED" /\ d[i].node = s /\ n \in Callees(f, s, d[i].taken)
  BY DEF CallersIn
<1>3. PICK k \in DOMAIN e : e[k] = d[i]
  BY <1>2
<1> QED
  BY <1>1, <1>2, <1>3 DEF CallersIn

\* Leaving out entries that are not finished leaves the data sound.
LEMMA SoundPart ==
    ASSUME NEW f, NEW d \in Seq(Entry), NEW e \in Seq(Entry), NEW at \in [DOMAIN d -> DOMAIN e],
           \A k \in DOMAIN d : d[k] = e[at[k]],
           \A k, l \in DOMAIN d : at[k] = at[l] => k = l,
           \A i \in DOMAIN e : e[i].status = "FINISHED" => \E k \in DOMAIN d : d[k] = e[i],
           Sound(f, e)
    PROVE  Sound(f, d)
<1>1. \A n : CallersIn(f, e, n) \subseteq CallersIn(f, d, n)
  BY MoreCallers
<1>2. \A n : Supplied(f, e, n) => Supplied(f, d, n)
  BY <1>1, InputsSuffice DEF Supplied, Satisfied
<1>3. \A i, j \in DOMAIN d : Stays(d[i]) /\ Stays(d[j]) /\ d[i].node = d[j].node => i = j
  BY DEF Sound
<1>4. \A i \in DOMAIN d : Stays(d[i]) => Supplied(f, d, d[i].node)
  BY <1>2 DEF Sound
<1>5. \A i \in DOMAIN d : d[i].status = "FINISHED" => d[i].taken \in Outcomes(f, d[i].node)
  BY DEF Sound
<1> QED
  BY <1>3, <1>4, <1>5 DEF Sound

\* An entry that is added was supplied and is the first of its node, or does not stay.
LEMMA SoundAppend ==
    ASSUME NEW f, NEW d \in Seq(Entry), NEW x \in Entry, Sound(f, d),
           Stays(x) => /\ Supplied(f, d, x.node)
                       /\ \A i \in DOMAIN d : Stays(d[i]) => d[i].node # x.node,
           x.status = "FINISHED" => x.taken \in Outcomes(f, x.node)
    PROVE  Sound(f, Append(d, x))
<1> DEFINE s == Append(d, x)
           m == Len(d) + 1
<1>1. /\ s \in Seq(Entry) /\ DOMAIN s = DOMAIN d \cup {m}
      /\ \A i \in DOMAIN d : s[i] = d[i]
      /\ s[m] = x
  BY AppendedEntry
<1> HIDE DEF s, m
<1>2. \A n : CallersIn(f, d, n) \subseteq CallersIn(f, s, n)
  BY <1>1, MoreCallers
<1>3. \A n : Supplied(f, d, n) => Supplied(f, s, n)
  BY <1>2, InputsSuffice DEF Supplied, Satisfied
<1>4. \A i, j \in DOMAIN s : Stays(s[i]) /\ Stays(s[j]) /\ s[i].node = s[j].node => i = j
  BY <1>1 DEF Sound
<1>5. \A i \in DOMAIN s : Stays(s[i]) => Supplied(f, s, s[i].node)
  BY <1>1, <1>3 DEF Sound
<1>6. \A i \in DOMAIN s : s[i].status = "FINISHED" => s[i].taken \in Outcomes(f, s[i].node)
  BY <1>1 DEF Sound
<1> QED
  BY <1>4, <1>5, <1>6 DEF Sound, s

\* The steps of sound data are a course of the flow.
LEMMA SoundCourse ==
    ASSUME NEW f \in Flow, NEW d \in Seq(Entry), Sound(f, d)
    PROVE  /\ Course(d) \in Courses(f)
           /\ \A n : Callers(f, Course(d), n) = CallersIn(f, d, n)
           /\ RanIn(Course(d)) = FinishedNodes(d)
<1> DEFINE c == Course(d)
           step(i) == [node |-> d[i].node, taken |-> d[i].taken]
<1>1. \A i \in DOMAIN d : d[i] \in Entry
  OBVIOUS
<1>2. \A i \in DOMAIN d : d[i].node \in Node
  BY <1>1 DEF Entry
<1>3. \A y \in c : \E i \in DOMAIN d : /\ d[i].status = "FINISHED" /\ y = step(i)
                                       /\ y.node = d[i].node /\ y.taken = d[i].taken
  BY DEF Course
<1>4. \A i \in DOMAIN d : d[i].status = "FINISHED" =>
         \E y \in c : y.node = d[i].node /\ y.taken = d[i].taken
  <2>1. SUFFICES ASSUME NEW i \in DOMAIN d, d[i].status = "FINISHED"
                 PROVE  \E y \in c : y.node = d[i].node /\ y.taken = d[i].taken
    OBVIOUS
  <2>2. step(i) \in c
    BY <2>1 DEF Course
  <2> QED
    BY <2>2
<1>5. \A n : Callers(f, c, n) = CallersIn(f, d, n)
  <2>1. TAKE n
  <2>2. ASSUME NEW s \in Callers(f, c, n) PROVE s \in CallersIn(f, d, n)
    <3>1. PICK y \in c : s = y.node /\ n \in Callees(f, y.node, y.taken)
      BY <2>2 DEF Callers
    <3> QED
      BY <1>2, <1>3, <3>1 DEF CallersIn
  <2>3. ASSUME NEW s \in CallersIn(f, d, n) PROVE s \in Callers(f, c, n)
    <3>1. PICK i \in DOMAIN d :
              d[i].status = "FINISHED" /\ d[i].node = s /\ n \in Callees(f, s, d[i].taken)
      BY <2>3 DEF CallersIn
    <3>2. PICK y \in c : y.node = s /\ y.taken = d[i].taken
      BY <1>4, <3>1
    <3> QED
      BY <3>1, <3>2 DEF Callers
  <2> QED
    BY <2>2, <2>3
<1>6. RanIn(c) = FinishedNodes(d)
  <2>1. RanIn(c) \subseteq FinishedNodes(d)
    BY <1>2, <1>3 DEF RanIn, FinishedNodes, Finished
  <2>2. FinishedNodes(d) \subseteq RanIn(c)
    BY <1>4 DEF RanIn, FinishedNodes, Finished
  <2> QED
    BY <2>1, <2>2
<1>7. c \in SUBSET Steps(f)
  <2>1. SUFFICES ASSUME NEW y \in c PROVE y \in Steps(f)
    OBVIOUS
  <2>2. PICK i \in DOMAIN d : d[i].status = "FINISHED" /\ y = step(i)
    BY <1>3
  <2>3. d[i].node \in f.nodes /\ d[i].taken \in Outcomes(f, d[i].node)
    BY <2>2 DEF Sound, Stays, Supplied
  <2> QED
    BY <2>2, <2>3 DEF Steps
<1>8. \A x, y \in c : x.node = y.node => x = y
  BY <1>3 DEF Sound, Stays
<1>9. \A n \in RanIn(c) : Satisfied(f, n, Callers(f, c, n))
  <2>1. \A n \in FinishedNodes(d) : Satisfied(f, n, CallersIn(f, d, n))
    BY DEF FinishedNodes, Finished, Sound, Stays, Supplied
  <2> QED
    BY <1>5, <1>6, <2>1
<1>10. c \in Courses(f)
  BY <1>7, <1>8, <1>9 DEF Courses
<1> QED
  BY <1>5, <1>6, <1>10

\* A node calls the targets of its edges.
LEMMA CalleesType ==
    ASSUME NEW f \in Flow, NEW n, NEW taken, NEW c \in Callees(f, n, taken)
    PROVE  n \in Sources(f, c)
<1> DEFINE ignored == IF IsDecision(f, n) THEN NodesToIgnore(f, n, taken) ELSE {}
           kept == {e \in EdgesFrom(f, n) : f.edges[e].tgt \notin ignored}
<1>1. Targets(f) \in Seq(Node) /\ DOMAIN Targets(f) = DOMAIN f.edges
  BY TargetsType
<1>2. Fired(f, n, taken) = Pick(Targets(f), kept)
  BY Zenon DEF Fired
<1>3. kept \in SUBSET (DOMAIN Targets(f)) /\ kept \in SUBSET EdgesFrom(f, n)
  BY <1>1 DEF EdgesFrom
<1> HIDE DEF kept
<1>4. PICK i \in DOMAIN Pick(Targets(f), kept) : c = Pick(Targets(f), kept)[i]
  BY <1>2 DEF Callees
<1>5. PICK e \in kept : c = Targets(f)[e]
  BY <1>1, <1>3, <1>4, PickKeeps, Zenon
<1>6. e \in DOMAIN f.edges /\ f.edges[e].src = n /\ f.edges[e].tgt = c
  BY <1>3, <1>5 DEF EdgesFrom, Targets
<1> QED
  BY <1>6 DEF Sources, EdgesInto

\* The inputs that were enough for a node are all that called it.
LEMMA OneSupply ==
    ASSUME NEW f \in Flow, OneOfEachGroup(f), NEW d \in Seq(Entry), Sound(f, d),
           NEW n \in f.nodes, NEW U \in SUBSET CallersIn(f, d, n), Satisfied(f, n, U)
    PROVE  CallersIn(f, d, n) = U
<1> DEFINE dep == NodeDependencies(f, n)
           under(s) == ConditionParent(f, s)
<1>1. SUFFICES ASSUME NEW a \in CallersIn(f, d, n) PROVE a \in U
  OBVIOUS
<1>2. a \in Sources(f, n)
  BY CalleesType DEF CallersIn
<1>3. /\ dep.expected = {s \in Sources(f, n) : under(s) = NoNode}
      /\ dep.groups = {{s \in Sources(f, n) : under(s) = c} :
                          c \in {under(s) : s \in Sources(f, n)} \ {NoNode}}
  BY DEF NodeDependencies
<1>4. dep.expected \subseteq U /\ \A g \in dep.groups : g \cap U # {}
  BY DEF Satisfied, HasRequiredInputs
<1>5. CASE under(a) = NoNode
  BY <1>2, <1>3, <1>4, <1>5
<1>6. CASE under(a) # NoNode
  <2> DEFINE g == {s \in Sources(f, n) : under(s) = under(a)}
  <2>1. g \in dep.groups /\ a \in g
    BY <1>2, <1>3, <1>6
  <2> HIDE DEF g
  <2>2. PICK b \in g : b \in U
    BY <1>4, <2>1
  <2>3. Course(d) \in Courses(f) /\ Callers(f, Course(d), n) = CallersIn(f, d, n)
    BY SoundCourse
  <2>4. a = b
    BY <1>1, <2>1, <2>2, <2>3 DEF OneOfEachGroup
  <2> QED
    BY <2>2, <2>4
<1> QED
  BY <1>5, <1>6

(***************************************************************************)
(* A node runs once. The inputs that made a node ready are taken away from *)
(* what it waits for, so for every node that has begun some of its callers *)
(* were enough and are neither waiting nor still to call it (Used). With   *)
(* OneSupply these are all the callers it has: it is never called again.   *)
(***************************************************************************)
Queues(r, n) == \E i \in DOMAIN queue[r] : queue[r][i] = n
Planned(r, n) == Queues(r, n) \/ (pc[r] = "running" /\ n = current[r])
HasStep(d, n) == \E i \in DOMAIN d : Stays(d[i]) /\ d[i].node = n
Begun(r, n) == Planned(r, n) \/ HasStep(executed[r], n)
IsChild(r, n) == pc[r] = "outputs" /\ \E i \in DOMAIN children[r] : children[r][i] = n

Used(r, n) ==
    /\ n \in F.nodes
    /\ \E U \in SUBSET CallersIn(F, executed[r], n) :
          Satisfied(F, n, U) /\ U \cap waiting[r][n] = {} /\ (IsChild(r, n) => current[r] \notin U)

RunsOnceAt(r) ==
    /\ \A n \in Node : Begun(r, n) => Used(r, n)
    /\ \A n \in Node : Planned(r, n) => ~Finished(executed[r], n)
    /\ \A i, j \in DOMAIN queue[r] : queue[r][i] = queue[r][j] => i = j
    /\ pc[r] = "running" => ~Queues(r, current[r])
    /\ \A n \in Node : waiting[r][n] \subseteq CallersIn(F, executed[r], n)
    /\ pc[r] = "outputs" =>
          /\ \A i, j \in DOMAIN children[r] : children[r][i] = children[r][j] => i = j
          /\ \A i \in DOMAIN children[r] : current[r] \in CallersIn(F, executed[r], children[r][i])

OnceAt(r) ==
    /\ pc[r] \in {"dropping", "resuming", "loop", "running", "outputs", "stopped", "failing"} =>
          Sound(F, executed[r])
    /\ pc[r] \in {"loop", "running", "outputs"} => RunsOnceAt(r)

RowsSound == \A i \in DOMAIN executions : Sound(F, executions[i].data)

OnceInv == RunsOnce(F) => RowsSound /\ \A r \in Requests : OnceAt(r)

\* A node that plans to run has no finished entry, so the data stay sound when it has run.
LEMMA KeptSound ==
    ASSUME IInv, Queued, NEW r \in Requests, OrderedAt(r), OnceAt(r), pc[r] = "running",
           NEW x \in Entry, x.node = current[r],
           x.status = "STOPPED" \/ (x.status = "FINISHED" /\ x.taken \in Outcomes(F, x.node))
    PROVE  /\ Sound(F, Append(Kept(r), x))
           /\ \A n : CallersIn(F, executed[r], n) \subseteq CallersIn(F, Append(Kept(r), x), n)
           /\ \A n : HasStep(Append(Kept(r), x), n) => n = current[r] \/ HasStep(executed[r], n)
           /\ \A n : Finished(Append(Kept(r), x), n) => n = current[r] \/ Finished(executed[r], n)
<1> DEFINE d == executed[r]
           kept == Kept(r)
           s == Append(kept, x)
<1>1. d \in Seq(Entry) /\ kept \in Seq(Entry) /\ current[r] \in Node /\ Sound(F, d) /\ RunsOnceAt(r)
  BY KeptEntries DEF IInv, TypeOK, Placed, PlacedAt, OnceAt
<1>2. Used(r, current[r]) /\ ~Finished(d, current[r])
  BY <1>1 DEF RunsOnceAt, Begun, Planned
<1>3. PICK at \in [DOMAIN kept -> DOMAIN d] :
          /\ \A k \in DOMAIN kept : kept[k] = d[at[k]]
          /\ \A k, l \in DOMAIN kept : k < l => at[k] < at[l]
          /\ \A i \in DOMAIN d : \/ IsAnswered(r) /\ d[i].node = current[r]
                                 \/ \E k \in DOMAIN kept : at[k] = i
  BY KeptInOrder
<1>4. Supplied(F, d, current[r])
  BY <1>2, InputsSuffice DEF Used, Supplied, Satisfied
<1>5. \A i \in DOMAIN d : d[i].status = "FINISHED" => \E k \in DOMAIN kept : kept[k] = d[i]
  BY <1>2, <1>3 DEF Finished
<1>6. \A k, l \in DOMAIN kept : at[k] = at[l] => k = l
  <2>1. DOMAIN kept \in SUBSET Nat /\ DOMAIN d \in SUBSET Nat
    BY <1>1
  <2>2. \A k, l \in DOMAIN kept : at[k] = at[l] => ~(k < l) /\ ~(l < k)
    BY <1>3, <2>1
  <2> QED
    BY <2>1, <2>2
<1>7. Sound(F, kept)
  <2> HIDE DEF kept, d
  <2> QED
    BY <1>1, <1>3, <1>5, <1>6, SoundPart
<1>8. \A k \in DOMAIN kept : kept[k].status = "FINISHED" /\ kept[k].node # current[r]
  <2>1. \A k \in DOMAIN kept : kept[k].status = "FINISHED"
    BY KeptIsFinished
  <2> QED
    BY <1>2, <1>3, <2>1 DEF Finished
<1>9. Supplied(F, kept, current[r])
  <2>1. CallersIn(F, d, current[r]) \subseteq CallersIn(F, kept, current[r])
    BY <1>5, MoreCallers
  <2> QED
    BY <1>4, <2>1, InputsSuffice DEF Supplied, Satisfied
<1>10. Sound(F, s)
  BY <1>1, <1>7, <1>8, <1>9, SoundAppend DEF Stays
<1>11. /\ DOMAIN s = DOMAIN kept \cup {Len(kept) + 1} /\ s[Len(kept) + 1] = x
       /\ \A k \in DOMAIN kept : s[k] = kept[k]
  BY <1>1, AppendedEntry
<1> HIDE DEF s
<1>12. \A n : CallersIn(F, d, n) \subseteq CallersIn(F, s, n)
  BY <1>5, <1>11, MoreCallers
<1>13. \A i \in DOMAIN s : s[i].node = current[r] \/ \E k \in DOMAIN d : s[i] = d[k]
  BY <1>3, <1>11
<1> QED
  BY <1>10, <1>12, <1>13 DEF HasStep, Finished, s

\* What a resume continues with is as sound as the row.
LEMMA ResumedSound ==
    ASSUME NEW f, NEW e \in Row, Sound(f, e.data)
    PROVE  Sound(f, ResumeData(e))
<1> DEFINE d == ResumeData(e)
           at == [k \in DOMAIN d |-> k]
<1>1. e.data \in Seq(Entry)
  BY DEF Row
<1>2. /\ d \in Seq(Entry) /\ DOMAIN d \subseteq DOMAIN e.data
      /\ \A i \in DOMAIN d : d[i] = e.data[i]
      /\ \A i \in DOMAIN e.data : i \in DOMAIN d \/ e.data[i].status = "ERROR"
  BY ResumedEntries
<1> HIDE DEF d
<1>3. at \in [DOMAIN d -> DOMAIN e.data] /\ \A k \in DOMAIN d : at[k] = k
  BY <1>2
<1> HIDE DEF at
<1>4. \A i \in DOMAIN e.data : e.data[i].status = "FINISHED" => \E k \in DOMAIN d : d[k] = e.data[i]
  <2>1. SUFFICES ASSUME NEW i \in DOMAIN e.data, e.data[i].status = "FINISHED"
                 PROVE  \E k \in DOMAIN d : d[k] = e.data[i]
    OBVIOUS
  <2>2. e.data[i].status # "ERROR"
    BY <2>1
  <2> QED
    BY <1>2, <2>2
<1>5. Sound(f, d)
  BY <1>1, <1>2, <1>3, <1>4, SoundPart
<1> QED
  BY <1>5 DEF d

\* Nothing has been called in empty data.
LEMMA EmptySound ==
    ASSUME NEW f
    PROVE  Sound(f, <<>>)
BY DEF Sound

LEMMA ArriveOnce ==
    ASSUME IInv, Queued, RowsSound, NEW r \in Requests, OrderedAt(r), OnceAt(r), Arrive(r)
    PROVE  OnceAt(r)' /\ RowsSound'
<1>1. /\ pc \in [Requests -> {"idle"} \cup Active \cup Ended]
      /\ executions \in Seq(Row) /\ F \in Flow
      /\ executed \in [Requests -> Seq(Entry)] /\ queue \in [Requests -> Seq(Node)]
      /\ pc[r] = "idle" /\ executed[r] = <<>> /\ NoneWait(r)
  BY ArriveArrives, FlowType DEF IInv, TypeOK, MayArrive, OrderedAt, Queued, QueuedAt
<1>2. CASE Ask(r)
  <2>1. PICK start \in StartingNodes(F) : queue' = [queue EXCEPT ![r] = <<start>>]
    BY <1>2 DEF Ask
  <2>2. /\ pc'[r] = "loop" /\ queue'[r] = <<start>> /\ start \in F.nodes
        /\ chatflow' = chatflow /\ executed' = executed /\ waiting' = waiting
        /\ executions' = Append(executions, [state |-> "INPROGRESS", data |-> <<>>])
    BY <1>1, <1>2, <2>1 DEF Ask, StartingNodes
  <2>3. F' = F
    BY <2>2, FlowStays
  <2>4. \A n : Begun(r, n)' => n = start
    BY <1>1, <2>2 DEF Begun, Planned, Queues, HasStep
  <2>5. Used(r, start)'
    <3>1. Satisfied(F, start, {})
      BY StartRequiresNothing DEF Satisfied
    <3> QED
      BY <2>2, <2>3, <3>1 DEF Used, IsChild
  <2>6. RunsOnceAt(r)'
    BY <1>1, <2>2, <2>3, <2>4, <2>5 DEF RunsOnceAt, Begun, Planned, Queues, Finished, NoneWait
  <2>7. OnceAt(r)'
    BY <1>1, <2>2, <2>6, EmptySound DEF OnceAt
  <2>8. RowsSound'
    <3> DEFINE e == [state |-> "INPROGRESS", data |-> <<>>]
    <3>1. e \in Row /\ Sound(F, e.data)
      BY EmptySound DEF Row, States
    <3>2. executions' = Append(executions, e)
      BY <2>2
    <3> HIDE DEF e
    <3>3. /\ DOMAIN executions' = DOMAIN executions \cup {Len(executions) + 1}
          /\ executions'[Len(executions) + 1] = e
          /\ \A i \in DOMAIN executions : executions'[i] = executions[i]
      BY <1>1, <3>1, <3>2, AppendedEntry
    <3> QED
      BY <2>3, <3>1, <3>3 DEF RowsSound
  <2> QED
    BY <2>7, <2>8
<1>3. CASE RefuseQuestion(r) \/ \E named \in NamedStops : RefuseHumanInput(r, named)
  <2>1. pc'[r] = "rejected" /\ executions' = executions /\ chatflow' = chatflow
    BY <1>1, <1>3 DEF RefuseQuestion, RefuseHumanInput, shared
  <2> QED
    BY <2>1, FlowStays DEF OnceAt, RowsSound
<1>4. ASSUME NEW named \in NamedStops, Resume(r, named)
      PROVE  OnceAt(r)' /\ RowsSound'
  <2>1. /\ executions' = executions /\ chatflow' = chatflow
        /\ executed'[r] = ResumeData(Last(executions))
        /\ pc'[r] \in {"dropping", "resuming"} /\ executions # <<>>
    BY <1>1, <1>4 DEF Resume, CanResume, shared
  <2>2. Last(executions) \in Row /\ Sound(F, Last(executions).data)
    BY <1>1, <2>1, LastType DEF RowsSound, Last
  <2>3. Sound(F, executed'[r])
    BY <2>1, <2>2, ResumedSound
  <2> QED
    BY <2>1, <2>3, FlowStays DEF OnceAt, RowsSound
<1> QED
  BY <1>2, <1>3, <1>4, Zenon DEF Arrive

LEMMA ReopenOnce ==
    ASSUME IInv, Queued, NEW r \in Requests, OrderedAt(r), OnceAt(r), Reopen(r)
    PROVE  OnceAt(r)'
<1> DEFINE d == executed[r]
<1>1. /\ pc \in [Requests -> {"idle"} \cup Active \cup Ended]
      /\ queue \in [Requests -> Seq(Node)] /\ d \in Seq(Entry)
      /\ pc[r] = "resuming" /\ QueuedAt(r)
  BY DEF IInv, TypeOK, Queued, Reopen
<1>2. /\ pc'[r] = "loop" /\ queue'[r] = <<humanInput[r]>> /\ NoneWait(r) /\ Sound(F, d)
      /\ chatflow' = chatflow /\ waiting' = waiting /\ executed' = executed /\ F' = F
  BY <1>1, FlowStays DEF Reopen, QueuedAt, OnceAt
<1>3. PICK i \in DOMAIN d : d[i].status = "STOPPED" /\ d[i].node = humanInput[r]
  BY <1>1 DEF OrderedAt, HasStatus
<1>4. \A n : Begun(r, n)' => HasStep(d, n)
  <2>1. HasStep(d, humanInput[r])
    BY <1>3 DEF HasStep, Stays
  <2> QED
    BY <1>2, <2>1 DEF Begun, Planned, Queues
<1>5. \A n : HasStep(d, n) => Used(r, n)'
  <2>1. \A n : HasStep(d, n) => Supplied(F, d, n)
    BY <1>2 DEF HasStep, Sound
  <2>2. \A n : Supplied(F, d, n) /\ n \in Node => Used(r, n)'
    BY <1>2 DEF Supplied, Used, NoneWait, IsChild
  <2>3. \A n : HasStep(d, n) => n \in Node
    <3>1. \A k \in DOMAIN d : d[k] \in Entry
      BY <1>1
    <3> QED
      BY <3>1 DEF HasStep, Entry
  <2> QED
    BY <2>1, <2>2, <2>3
<1>6. \A n : Planned(r, n)' => ~Finished(d, n)
  <2>1. ~Finished(d, humanInput[r])
    BY <1>2, <1>3 DEF Finished, Sound, Stays
  <2> QED
    BY <1>2, <2>1 DEF Planned, Queues
<1>7. RunsOnceAt(r)'
  BY <1>2, <1>4, <1>5, <1>6 DEF RunsOnceAt, NoneWait, Queues
<1> QED
  BY <1>2, <1>7 DEF OnceAt

LEMMA BeginNodeOnce ==
    ASSUME IInv, NEW r \in Requests, OnceAt(r), BeginNode(r)
    PROVE  OnceAt(r)'
<1>1. /\ pc \in [Requests -> {"idle"} \cup Active \cup Ended]
      /\ queue \in [Requests -> Seq(Node)] /\ queue[r] \in Seq(Node) /\ executed[r] \in Seq(Entry)
      /\ current \in [Requests -> Node \cup {NoNode}]
  BY DEF IInv, TypeOK
<1>2. /\ pc[r] = "loop" /\ queue[r] # <<>> /\ chatflow' = chatflow /\ F' = F
      /\ queue'[r] = Tail(queue[r]) /\ current'[r] = Head(queue[r])
      /\ waiting' = waiting /\ Sound(F, executed[r]) /\ RunsOnceAt(r)
  BY <1>1, FlowStays DEF BeginNode, OnceAt
<1>3. CASE pc'[r] = "running" /\ executed' = executed
  <2>1. \A n : Planned(r, n)' => Planned(r, n)
    <3>1. /\ Head(queue[r]) = queue[r][1] /\ 1 \in DOMAIN queue[r]
          /\ \A i \in DOMAIN Tail(queue[r]) :
                i + 1 \in DOMAIN queue[r] /\ Tail(queue[r])[i] = queue[r][i + 1]
      BY <1>1, <1>2
    <3> QED
      BY <1>2, <3>1 DEF Planned, Queues
  <2>2. /\ \A i, j \in DOMAIN queue'[r] : queue'[r][i] = queue'[r][j] => i = j
        /\ ~Queues(r, current[r])'
    <3> DEFINE q == queue[r]
               t == Tail(q)
    <3>1. \A i, j \in DOMAIN q : q[i] = q[j] => i = j
      BY <1>2 DEF RunsOnceAt
    <3>2. /\ DOMAIN t \in SUBSET Nat /\ 0 \notin DOMAIN t /\ 1 \in DOMAIN q /\ Head(q) = q[1]
          /\ \A i \in DOMAIN t : i + 1 \in DOMAIN q /\ t[i] = q[i + 1]
      BY <1>1, <1>2
    <3> HIDE DEF q, t
    <3>3. \A i, j \in DOMAIN t : t[i] = t[j] => i = j
      BY <3>1, <3>2
    <3>4. \A i \in DOMAIN t : t[i] # Head(q)
      BY <3>1, <3>2
    <3> QED
      BY <1>2, <3>3, <3>4 DEF Queues, q, t
  <2>3. \A n : Used(r, n) => Used(r, n)'
    BY <1>2, <1>3 DEF Used, IsChild
  <2>4. \A n : Begun(r, n)' => Begun(r, n)
    BY <1>3, <2>1 DEF Begun
  <2>5. RunsOnceAt(r)'
    BY <1>2, <1>3, <2>1, <2>2, <2>3, <2>4 DEF RunsOnceAt
  <2> QED
    BY <1>2, <1>3, <2>5 DEF OnceAt
<1>4. ASSUME NEW e \in Entry, Failed(r, e) PROVE OnceAt(r)'
  <2>1. /\ pc'[r] = "failing" /\ executed'[r] = Append(executed[r], e)
        /\ e.status \in {"ERROR", "TERMINATED"}
    BY <1>4 DEF Failed
  <2>2. Sound(F, executed'[r])
    BY <1>1, <1>2, <2>1, SoundAppend DEF Stays
  <2> QED
    BY <1>2, <2>1, <2>2 DEF OnceAt
<1> QED
  BY <1>3, <1>4, BeginNodeExecuted

LEMMA FailNodeOnce ==
    ASSUME IInv, NEW r \in Requests, OnceAt(r),
           NEW status \in {"ERROR", "TERMINATED"}, FailNode(r, status)
    PROVE  OnceAt(r)'
<1>1. PICK e \in Entry : Failed(r, e)
  BY FailNodeFailed
<1>2. /\ executed'[r] = Append(executed[r], e) /\ e.status \in {"ERROR", "TERMINATED"}
      /\ pc[r] = "running" /\ pc'[r] = "failing" /\ chatflow' = chatflow
      /\ executed[r] \in Seq(Entry)
  BY <1>1 DEF Failed, FailNode, IInv, TypeOK
<1>3. Sound(F, executed[r])
  BY <1>2 DEF OnceAt
<1>4. Sound(F, executed'[r])
  BY <1>2, <1>3, SoundAppend DEF Stays
<1> QED
  BY <1>2, <1>4, FlowStays DEF OnceAt

LEMMA StopNodeOnce ==
    ASSUME IInv, Queued, NEW r \in Requests, OrderedAt(r), OnceAt(r), StopNode(r)
    PROVE  OnceAt(r)'
<1> DEFINE x == [node |-> current[r], status |-> "STOPPED", taken |-> {}]
<1>1. /\ executed \in [Requests -> Seq(Entry)] /\ pc[r] = "running" /\ current[r] \in Node
      /\ pc \in [Requests -> {"idle"} \cup Active \cup Ended]
  BY DEF IInv, TypeOK, Placed, PlacedAt, StopNode
<1>2. x \in Entry /\ x.node = current[r] /\ x.status = "STOPPED"
  BY <1>1 DEF Entry, States
<1>3. executed'[r] = Append(Kept(r), x) /\ pc'[r] = "stopped" /\ chatflow' = chatflow
  BY <1>1 DEF StopNode
<1> HIDE DEF x
<1>4. Sound(F, Append(Kept(r), x))
  BY <1>1, <1>2, KeptSound DEF Stays
<1> QED
  BY <1>3, <1>4, FlowStays DEF OnceAt

\* A node that has finished leaves what the others used as it was: it has called them anew.
LEMMA FinishNodeOnce ==
    ASSUME IInv, Queued, CallsOnce(F), NEW r \in Requests, OrderedAt(r), DeliversAt(r), OnceAt(r),
           NEW fulfilled \in Reports(r), FinishNode(r, fulfilled)
    PROVE  OnceAt(r)'
<1> DEFINE d == executed[r]
           n == current[r]
<1>1. /\ pc[r] = "running" /\ pc'[r] = "outputs" /\ chatflow' = chatflow /\ F' = F
      /\ queue' = queue /\ waiting' = waiting /\ current' = current /\ n \in Node
      /\ d \in Seq(Entry) /\ Kept(r) \in Seq(Entry) /\ F \in Flow
  BY FlowStays, FlowType, KeptEntries DEF IInv, TypeOK, Placed, PlacedAt, FinishNode
<1>2. PICK e \in Entry :
          /\ executed'[r] = Append(Kept(r), e)
          /\ e.node = n /\ e.status = "FINISHED" /\ e.taken \in Outcomes(F, n)
          /\ children'[r] = Fired(F, n, e.taken)
  BY FinishNodeDelivers
<1> DEFINE s == Append(Kept(r), e)
<1>3. /\ Sound(F, s)
      /\ \A m : CallersIn(F, d, m) \subseteq CallersIn(F, s, m)
      /\ \A m : HasStep(s, m) => m = n \/ HasStep(d, m)
      /\ \A m : Finished(s, m) => m = n \/ Finished(d, m)
  BY <1>1, <1>2, KeptSound
<1>4. RunsOnceAt(r) /\ Used(r, n) /\ ~Finished(d, n)
  BY <1>1 DEF OnceAt, RunsOnceAt, Begun, Planned
<1>5. \A m : n \notin CallersIn(F, d, m)
  BY <1>4 DEF CallersIn, Finished
<1>6. \A m \in Node : Used(r, m) => Used(r, m)'
  <2>1. SUFFICES ASSUME NEW m \in Node, Used(r, m) PROVE Used(r, m)'
    OBVIOUS
  <2>2. PICK U \in SUBSET CallersIn(F, d, m) : Satisfied(F, m, U) /\ U \cap waiting[r][m] = {}
    BY <2>1 DEF Used
  <2>3. U \in SUBSET CallersIn(F, s, m) /\ n \notin U
    BY <1>3, <1>5, <2>2
  <2> HIDE DEF s, d
  <2> QED
    BY <1>1, <1>2, <2>1, <2>2, <2>3 DEF Used, s
<1>7. \A m : Begun(r, m)' => Begun(r, m)
  BY <1>1, <1>2, <1>3 DEF Begun, Planned, Queues
<1>8. \A m \in Node : Planned(r, m)' => ~Finished(s, m)
  <2>1. \A m : Planned(r, m)' => Queues(r, m)
    BY <1>1 DEF Planned, Queues
  <2>2. \A m \in Node : Queues(r, m) => m # n /\ ~Finished(d, m)
    BY <1>1, <1>4 DEF Planned, RunsOnceAt
  <2> QED
    BY <1>3, <2>1, <2>2
<1>9. \A i \in DOMAIN children'[r] : n \in CallersIn(F, s, children'[r][i])
  <2>1. Len(Kept(r)) + 1 \in DOMAIN s /\ s[Len(Kept(r)) + 1] = e
    BY <1>1, AppendedEntry
  <2>2. \A i \in DOMAIN children'[r] : children'[r][i] \in Callees(F, n, e.taken)
    BY <1>2 DEF Callees
  <2> HIDE DEF s
  <2> QED
    BY <1>1, <1>2, <2>1, <2>2 DEF CallersIn
<1>10. \A i, j \in DOMAIN children'[r] : children'[r][i] = children'[r][j] => i = j
  <2>1. n \in F.nodes
    BY <1>4 DEF Used
  <2> QED
    BY <1>2, <2>1 DEF CallsOnce
<1>11. /\ \A i, j \in DOMAIN queue[r] : queue[r][i] = queue[r][j] => i = j
       /\ \A m \in Node : waiting[r][m] \subseteq CallersIn(F, s, m)
       /\ \A m \in Node : Begun(r, m) => Used(r, m)
  BY <1>3, <1>4 DEF RunsOnceAt
<1>12. RunsOnceAt(r)'
  <2> HIDE DEF s, d
  <2> QED
    BY <1>1, <1>2, <1>6, <1>7, <1>8, <1>9, <1>10, <1>11 DEF RunsOnceAt, s
<1> QED
  BY <1>1, <1>2, <1>3, <1>12 DEF OnceAt

\* A node that becomes ready has not begun: all its callers would be used.
LEMMA DeliverOutputOnce ==
    ASSUME IInv, Queued, OneOfEachGroup(F), NEW r \in Requests, DeliversAt(r), OnceAt(r),
           DeliverOutput(r)
    PROVE  OnceAt(r)'
<1> DEFINE d == executed[r]
           n == current[r]
<1>1. /\ pc[r] = "outputs" /\ pc'[r] = "outputs" /\ chatflow' = chatflow /\ F' = F
      /\ current' = current /\ executed' = executed /\ d \in Seq(Entry) /\ F \in Flow
      /\ queue[r] \in Seq(Node) /\ children[r] \in Seq(Node)
      /\ queue'[r] \in Seq(Node)
  BY FlowStays, FlowType, DeliverOutputIInv DEF IInv, TypeOK, DeliverOutput
<1>2. PICK child, received : Delivered(r, child, received)
  BY DeliverOutputDelivers
<1>3. Sound(F, d) /\ RunsOnceAt(r)
  BY <1>1 DEF OnceAt
<1>4. /\ 1 \in DOMAIN children[r] /\ child = children[r][1]
      /\ \A i \in DOMAIN children'[r] :
            i + 1 \in DOMAIN children[r] /\ children'[r][i] = children[r][i + 1]
      /\ DOMAIN children'[r] \in SUBSET Nat /\ 0 \notin DOMAIN children'[r]
  BY <1>1, <1>2 DEF Delivered
<1>5. \A i, j \in DOMAIN children[r] : children[r][i] = children[r][j] => i = j
  BY <1>1, <1>3 DEF RunsOnceAt
<1>6. /\ \A i, j \in DOMAIN children'[r] : children'[r][i] = children'[r][j] => i = j
      /\ \A i \in DOMAIN children'[r] : children'[r][i] # child
  BY <1>4, <1>5
<1>7. received \subseteq CallersIn(F, d, child)
  <2>1. n \in CallersIn(F, d, child)
    BY <1>1, <1>3, <1>4 DEF RunsOnceAt
  <2> QED
    BY <1>2, <1>3, <2>1 DEF Delivered, RunsOnceAt
<1>8. IsChild(r, child) /\ (\A m : IsChild(r, m)' => IsChild(r, m)) /\ ~IsChild(r, child)'
  BY <1>1, <1>4, <1>6 DEF IsChild
<1>9. ~Begun(r, child)
  <2>1. SUFFICES ASSUME Begun(r, child) PROVE FALSE
    OBVIOUS
  <2>2. Used(r, child)
    BY <1>2, <1>3, <2>1 DEF RunsOnceAt, Delivered
  <2>3. PICK U \in SUBSET CallersIn(F, d, child) : Satisfied(F, child, U) /\ n \notin U
    BY <1>8, <2>2 DEF Used
  <2>4. CallersIn(F, d, child) = U
    BY <1>1, <1>2, <1>3, <2>3, OneSupply DEF Delivered, RunsOnce
  <2> QED
    BY <1>2, <1>7, <2>3, <2>4 DEF Delivered
<1>10. \A m \in Node : Used(r, m) /\ m # child => Used(r, m)'
  BY <1>1, <1>2, <1>8 DEF Used, Delivered
<1>11. /\ \A i \in DOMAIN children'[r] : n \in CallersIn(F, d, children'[r][i])
       /\ \A m \in Node : waiting'[r][m] \subseteq CallersIn(F, d, m)
  BY <1>1, <1>2, <1>3, <1>4, <1>7 DEF RunsOnceAt, Delivered
<1>12. CASE queue'[r] = queue[r]
  <2>1. \A m : Begun(r, m)' <=> Begun(r, m)
    BY <1>1, <1>12 DEF Begun, Planned, Queues
  <2>2. \A m : Planned(r, m)' <=> Planned(r, m)
    BY <1>1, <1>12 DEF Planned, Queues
  <2>3. RunsOnceAt(r)'
    BY <1>1, <1>3, <1>6, <1>9, <1>10, <1>11, <1>12, <2>1, <2>2 DEF RunsOnceAt
  <2> QED
    BY <1>1, <1>3, <2>3 DEF OnceAt
<1>13. CASE /\ Satisfied(F, child, received)
            /\ waiting'[r][child] = {} /\ queue'[r] = Append(queue[r], child)
  <2>0. /\ DOMAIN queue'[r] = DOMAIN queue[r] \cup {Len(queue[r]) + 1}
        /\ \A i \in DOMAIN queue[r] : queue'[r][i] = queue[r][i]
        /\ queue'[r][Len(queue[r]) + 1] = child
    BY <1>1, <1>2, <1>13, AppendedEntry DEF Delivered
  <2>1. \A m : Queues(r, m)' => m = child \/ Queues(r, m)
    BY <2>0 DEF Queues
  <2>2. \A m : Planned(r, m)' => m = child \/ Planned(r, m)
    BY <1>1, <2>1 DEF Planned
  <2>3. \A m : Begun(r, m)' => m = child \/ Begun(r, m)
    BY <1>1, <2>2 DEF Begun
  <2>4. \A i, j \in DOMAIN queue'[r] : queue'[r][i] = queue'[r][j] => i = j
    <3>1. \A i \in DOMAIN queue[r] : queue[r][i] # child
      BY <1>9 DEF Begun, Planned, Queues
    <3> QED
      BY <1>3, <2>0, <3>1 DEF RunsOnceAt
  <2>5. Used(r, child)'
    BY <1>1, <1>2, <1>7, <1>8, <1>13 DEF Used, Delivered
  <2>6. ~Finished(d, child)
    BY <1>9 DEF Begun, HasStep, Stays, Finished
  <2>7. RunsOnceAt(r)'
    BY <1>1, <1>3, <1>6, <1>10, <1>11, <2>2, <2>3, <2>4, <2>5, <2>6 DEF RunsOnceAt
  <2> QED
    BY <1>1, <1>3, <2>7 DEF OnceAt
<1> QED
  BY <1>2, <1>12, <1>13 DEF Delivered

LEMMA EndOutputsOnce ==
    ASSUME IInv, Queued, LoopFree(F), NEW r \in Requests, OnceAt(r), EndOutputs(r)
    PROVE  OnceAt(r)'
<1> DEFINE d == executed[r]
<1>1. /\ pc \in [Requests -> {"idle"} \cup Active \cup Ended]
      /\ pc[r] = "outputs" /\ pc'[r] = "loop" /\ chatflow' = chatflow /\ F' = F
      /\ executed' = executed /\ waiting' = waiting /\ d \in Seq(Entry) /\ d # <<>>
      /\ QueuedAt(r)
  BY FlowStays DEF IInv, TypeOK, Placed, PlacedAt, EndOutputs, Queued
<1>2. Sound(F, d) /\ RunsOnceAt(r)
  BY <1>1 DEF OnceAt
<1>3. current[r] \in F.nodes
  <2>1. d[Len(d)].node = current[r] /\ d[Len(d)].status = "FINISHED" /\ Len(d) \in DOMAIN d
    BY <1>1, LastType DEF QueuedAt, Last
  <2> QED
    BY <1>2, <2>1 DEF Sound, Stays, Supplied
<1>4. queue' = queue
  BY <1>3 DEF EndOutputs, LoopsBack, LoopFree
<1>5. \A n : /\ Planned(r, n)' <=> Planned(r, n)
             /\ Used(r, n) => Used(r, n)'
  BY <1>1, <1>4 DEF Planned, Queues, Used, IsChild
<1>6. \A n : Begun(r, n)' <=> Begun(r, n)
  BY <1>1, <1>5 DEF Begun
<1>7. RunsOnceAt(r)'
  BY <1>1, <1>2, <1>4, <1>5, <1>6 DEF RunsOnceAt
<1> QED
  BY <1>1, <1>2, <1>7 DEF OnceAt

\* What is written to the row is the executed data, or the row only changes its state.
LEMMA StepOnce ==
    ASSUME IInv, Queued, RunsOnce(F), RowsSound, NEW r \in Requests, OrderedAt(r),
           DeliversAt(r), OnceAt(r), Step(r)
    PROVE  OnceAt(r)' /\ RowsSound'
<1>1. /\ pc \in [Requests -> {"idle"} \cup Active \cup Ended]
      /\ LoopFree(F) /\ CallsOnce(F) /\ OneOfEachGroup(F)
  BY DEF IInv, TypeOK, RunsOnce
<1>2. ASSUME Reopen(r) \/ BeginNode(r) \/ StopNode(r) \/ DeliverOutput(r) \/ EndOutputs(r)
      PROVE  OnceAt(r)'
  BY <1>1, <1>2, ReopenOnce, BeginNodeOnce, StopNodeOnce, DeliverOutputOnce, EndOutputsOnce
<1>3. ASSUME \/ \E fulfilled \in Reports(r) : FinishNode(r, fulfilled)
             \/ \E status \in {"ERROR", "TERMINATED"} : FailNode(r, status)
      PROVE  OnceAt(r)'
  BY <1>1, <1>3, FinishNodeOnce, FailNodeOnce
<1>4. ASSUME DropErrorEntry(r) PROVE OnceAt(r)'
  <2>1. /\ pc[r] = "dropping" /\ pc'[r] = "resuming" /\ executed' = executed
        /\ chatflow' = chatflow
    BY <1>1, <1>4 DEF DropErrorEntry
  <2> QED
    BY <2>1, FlowStays DEF OnceAt
<1>5. ASSUME \/ Overrun(r) \/ Settle(r) \/ SettleFailure(r)
             \/ ClearAction(r) \/ SaveMessages(r) \/ LoseAnswer(r)
      PROVE  OnceAt(r)'
  <2>1. pc'[r] \in {"overrun", "settled", "failed", "saving", "done", "unsaved"}
    BY <1>1, <1>5 DEF Overrun, Settle, SettleFailure, ClearAction, SaveMessages, LoseAnswer
  <2> QED
    BY <2>1 DEF OnceAt
<1>6. OnceAt(r)'
  BY <1>2, <1>3, <1>4, <1>5, Zenon DEF Step
<1>7. chatflow' = chatflow /\ F' = F
  BY ServesOne, FlowStays DEF Unmoved
<1>8. executions' = executions \/ Sound(F, executions'[row[r]].data)
  <2>1. ASSUME executed' = executed,
               executions'[row[r]].data \in {executed[r], executions[row[r]].data},
               pc[r] \in {"dropping", "resuming", "loop", "stopped", "failing"}
        PROVE  Sound(F, executions'[row[r]].data)
    BY <2>1, StepRow DEF OnceAt, RowsSound
  <2>2. row[r] \in DOMAIN executions
    BY StepRow
  <2>3. \/ executions' = executions
        \/ /\ executions'[row[r]].data \in {executed[r], executions[row[r]].data}
           /\ executed' = executed
    BY <2>2, StepRow, WrittenRow
  <2>4. \/ executions' = executions
        \/ pc[r] \in {"dropping", "resuming", "loop", "stopped", "failing"}
    BY DEF Step, DropErrorEntry, Reopen, BeginNode, Overrun, FinishNode, StopNode, FailNode,
           DeliverOutput, EndOutputs, Settle, SettleFailure, ClearAction, SaveMessages,
           LoseAnswer, shared
  <2> QED
    BY <2>1, <2>3, <2>4
<1>9. \A i \in DOMAIN executions' :
         i = row[r] \/ (i \in DOMAIN executions /\ executions'[i] = executions[i])
  BY StepRows
<1>10. RowsSound'
  BY <1>7, <1>8, <1>9 DEF RowsSound
<1> QED
  BY <1>6, <1>10

LEMMA NextOnce ==
    ASSUME ~StaleResume, IInv, Queued, Ordered, Deliveries, OnceInv, [Next]_vars
    PROVE  OnceInv'
<1>1. CASE Crash \/ (\E r \in Requests : Abort(r)) \/ UNCHANGED vars
  <2>1. /\ \A r \in Requests : pc'[r] = pc[r] \/ pc'[r] = "crashed"
        /\ executions' = executions /\ chatflow' = chatflow /\ F' = F
        /\ executed' = executed /\ queue' = queue /\ waiting' = waiting
        /\ current' = current /\ children' = children
    BY <1>1 DEF Crash, Abort, vars, shared, control, local, F
  <2>2. ASSUME RunsOnce(F), NEW r \in Requests PROVE OnceAt(r)'
    <3>1. CASE pc'[r] = "crashed"
      BY <3>1 DEF OnceAt
    <3>2. CASE pc'[r] = pc[r]
      <4>1. \A n : /\ Planned(r, n)' <=> Planned(r, n)
                   /\ Queues(r, n)' <=> Queues(r, n)
                   /\ Used(r, n)' <=> Used(r, n)
        BY <2>1, <3>2 DEF Planned, Queues, Used, IsChild
      <4>2. \A n : Begun(r, n)' <=> Begun(r, n)
        BY <2>1, <4>1 DEF Begun
      <4>3. RunsOnceAt(r)' <=> RunsOnceAt(r)
        BY <2>1, <3>2, <4>1, <4>2 DEF RunsOnceAt
      <4> QED
        BY <2>1, <2>2, <3>2, <4>3 DEF OnceInv, OnceAt
    <3> QED
      BY <2>1, <3>1, <3>2
  <2> QED
    BY <2>1, <2>2 DEF OnceInv, RowsSound
<1>2. ASSUME NEW r \in Requests, Arrive(r) \/ Step(r) PROVE OnceInv'
  <2>1. Unmoved(r) /\ F' = F
    BY <1>2, ServesOne, FlowStays DEF Unmoved
  <2>2. SUFFICES ASSUME RunsOnce(F) PROVE RowsSound' /\ \A q \in Requests : OnceAt(q)'
    BY <2>1 DEF OnceInv
  <2>3. /\ RowsSound /\ OnceAt(r) /\ OrderedAt(r) /\ DeliversAt(r)
        /\ \A q \in Requests : OnceAt(q)
    BY <2>2 DEF OnceInv, Ordered, Deliveries
  <2>4. RowsSound' /\ OnceAt(r)'
    BY <1>2, <2>2, <2>3, ArriveOnce, StepOnce
  <2>5. ASSUME NEW q \in Requests, q # r PROVE OnceAt(q)'
    <3>1. /\ pc'[q] = pc[q] /\ executed'[q] = executed[q] /\ queue'[q] = queue[q]
          /\ waiting'[q] = waiting[q] /\ current'[q] = current[q] /\ children'[q] = children[q]
      BY <2>1, <2>5 DEF Unmoved
    <3>2. \A n : /\ Planned(q, n)' <=> Planned(q, n)
                 /\ Queues(q, n)' <=> Queues(q, n)
                 /\ Used(q, n)' <=> Used(q, n)
      BY <2>1, <3>1 DEF Planned, Queues, Used, IsChild
    <3>3. \A n : Begun(q, n)' <=> Begun(q, n)
      BY <3>1, <3>2 DEF Begun
    <3>4. RunsOnceAt(q)' <=> RunsOnceAt(q)
      BY <2>1, <3>1, <3>2, <3>3 DEF RunsOnceAt
    <3> QED
      BY <2>1, <2>3, <3>1, <3>4 DEF OnceAt
  <2> QED
    BY <2>4, <2>5
<1> QED
  BY <1>1, <1>2, Zenon DEF Next

LEMMA InitOnce == Init => OnceInv
BY DEF Init, OnceInv, RowsSound, OnceAt

\* The loop-free agentflows run their nodes once.
LoopFreeRunOnce == \A id \in DOMAIN Agentflows : LoopFree(Agentflows[id]) => RunsOnce(Agentflows[id])

\* When the client answers the stop it was shown, no node finishes twice in an execution of a
\* loop-free agentflow in which a node has one edge at most to another and inputs of one
\* conditional group never come together, over joins, stops, resumes, errors and any number
\* of requests side by side (processNodeOutputs; with two parallel routes below one branch of
\* a condition it does not hold: their join runs once for each).
THEOREM NodesFinishOnce == ~StaleResume /\ LoopFreeRunOnce => (Spec => []EachNodeFinishesOnce)
<1> SUFFICES ASSUME ~StaleResume, LoopFreeRunOnce PROVE Spec => []EachNodeFinishesOnce
  OBVIOUS
<1>1. ASSUME IInv, OnceInv PROVE EachNodeFinishesOnce
  <2>1. SUFFICES ASSUME LoopFree(F),
                        NEW i \in DOMAIN executions,
                        NEW p \in DOMAIN executions[i].data, NEW q \in DOMAIN executions[i].data,
                        executions[i].data[p].node = executions[i].data[q].node,
                        executions[i].data[p].status = "FINISHED",
                        executions[i].data[q].status = "FINISHED"
                 PROVE  p = q
    BY DEF EachNodeFinishesOnce, LoopFree
  <2>2. RunsOnce(F)
    BY <1>1, <2>1 DEF LoopFreeRunOnce, IInv, TypeOK, F
  <2>3. Sound(F, executions[i].data)
    BY <1>1, <2>2 DEF OnceInv, RowsSound
  <2> QED
    BY <2>1, <2>3 DEF Sound, Stays
<1>2. Init => IInv /\ Queued /\ Ordered /\ Deliveries /\ OnceInv
  BY InitIInv, InitQueued, InitOrdered, InitDeliveries, InitOnce
<1>3. /\ IInv /\ Queued /\ Ordered /\ Deliveries /\ OnceInv /\ [Next]_vars
      => (IInv /\ Queued /\ Ordered /\ Deliveries /\ OnceInv)'
  BY <1>1, NextIInv, NextQueued, NextOrdered, NextDeliveries, NextOnce
<1> QED
  BY <1>1, <1>2, <1>3, PTL DEF Spec

(***************************************************************************)
(* Complete executions. Every node that a finished node called has run     *)
(* after it, is planned, waits with its result, or is still to be called   *)
(* (Handled). A stop and an error after a stop forget what is planned and  *)
(* what waits, so at a stop nothing else may be; and at the end of the     *)
(* queue nothing may wait. The two kinds of Completes(f) each see to this: *)
(* Single for the flows that run one node at a time, the courses of the    *)
(* flow for the others.                                                    *)
(***************************************************************************)
Later(d, p, c) == \E q \in DOMAIN d : p < q /\ d[q].node = c /\ d[q].status = "FINISHED"

\* After every finished node all it called have finished, but for the nodes N.
CompleteBut(f, d, N) ==
    \A p \in DOMAIN d : d[p].status = "FINISHED" =>
        \A c \in Callees(f, d[p].node, d[p].taken) : Later(d, p, c) \/ c \in N

StopNodes(d) == {d[i].node : i \in {j \in DOMAIN d : d[j].status = "STOPPED"}}

RowComplete(f, e) ==
    /\ e.state = "FINISHED" =>
          CompleteBut(f, e.data, {}) /\ \A i \in DOMAIN e.data : e.data[i].status = "FINISHED"
    /\ Resumable(e) => CompleteBut(f, ResumeData(e), StopNodes(ResumeData(e)))

Handled(r, p, c) ==
    \/ Later(executed[r], p, c)
    \/ Planned(r, c)
    \/ executed[r][p].node \in waiting[r][c]
    \/ p = Len(executed[r]) /\ IsChild(r, c)

AllHandled(r) ==
    \A p \in DOMAIN executed[r] : executed[r][p].status = "FINISHED" =>
        \A c \in Callees(F, executed[r][p].node, executed[r][p].taken) : Handled(r, p, c)

CompleteAt(r) ==
    /\ pc[r] \in {"dropping", "resuming"} => CompleteBut(F, executed[r], {humanInput[r]})
    /\ pc[r] \in {"loop", "running", "outputs"} => AllHandled(r)
    /\ pc[r] = "stopped" => CompleteBut(F, executed[r], StopNodes(executed[r]))
    /\ pc[r] = "failing" =>
          RowComplete(F, [state |-> Last(executed[r]).status, data |-> executed[r]])

RowsComplete == \A i \in DOMAIN executions : RowComplete(F, executions[i])

CompleteInv == Completes(F) => RowsComplete /\ \A r \in Requests : CompleteAt(r)

\* One node at a time: nothing waits, and what is queued or called is one node at most.
SingleAt(r) ==
    /\ NoneWait(r) \/ pc[r] \notin {"loop", "running", "outputs"}
    /\ pc[r] = "loop" => Len(queue[r]) <= 1
    /\ pc[r] = "running" => Len(queue[r]) = 0
    /\ pc[r] = "outputs" =>
          Len(queue[r]) + Len(children[r]) <= IF F.kind[current[r]] = "loop" THEN 0 ELSE 1

Single == OneAtATime(F) => \A r \in Requests : SingleAt(r)

LEMMA ArriveSingle ==
    ASSUME IInv, Queued, NEW r \in Requests, Arrive(r)
    PROVE  SingleAt(r)'
<1>1. /\ pc \in [Requests -> {"idle"} \cup Active \cup Ended]
      /\ queue \in [Requests -> Seq(Node)] /\ pc[r] = "idle" /\ NoneWait(r)
  BY ArriveArrives DEF IInv, TypeOK, MayArrive, Queued, QueuedAt
<1>2. CASE Ask(r)
  <2>1. PICK start \in StartingNodes(F) : queue' = [queue EXCEPT ![r] = <<start>>]
    BY <1>2 DEF Ask
  <2>2. pc'[r] = "loop" /\ queue'[r] = <<start>> /\ waiting' = waiting
    BY <1>1, <1>2, <2>1 DEF Ask
  <2> QED
    BY <1>1, <2>2 DEF SingleAt, NoneWait
<1>3. CASE \/ RefuseQuestion(r)
           \/ \E named \in NamedStops : Resume(r, named) \/ RefuseHumanInput(r, named)
  <2>1. pc'[r] \in {"rejected", "dropping", "resuming"}
    BY <1>1, <1>3 DEF RefuseQuestion, Resume, RefuseHumanInput
  <2> QED
    BY <2>1 DEF SingleAt
<1> QED
  BY <1>2, <1>3, Zenon DEF Arrive

LEMMA DeliverOutputSingle ==
    ASSUME IInv, Queued, OneAtATime(F), NEW r \in Requests, DeliversAt(r), SingleAt(r),
           DeliverOutput(r)
    PROVE  SingleAt(r)'
<1>1. /\ pc[r] = "outputs" /\ pc'[r] = "outputs" /\ chatflow' = chatflow /\ F' = F
      /\ current' = current /\ F \in Flow /\ queue[r] \in Seq(Node) /\ children[r] \in Seq(Node)
  BY FlowStays, FlowType DEF IInv, TypeOK, DeliverOutput
<1>2. PICK child, received : Delivered(r, child, received)
  BY DeliverOutputDelivers
<1>3. 1 \in DOMAIN children[r] /\ child = children[r][1]
  BY <1>1, <1>2 DEF Delivered
<1>4. current[r] \in Sources(F, child)
  BY <1>1, <1>3, CalleesType DEF DeliversAt
<1>5. Satisfied(F, child, received)
  <2>1. Satisfied(F, child, {current[r]})
    BY <1>2, <1>4 DEF OneAtATime, Delivered
  <2> QED
    BY <1>2, <2>1, InputsSuffice DEF Satisfied, Delivered
<1>6. waiting'[r][child] = {} /\ queue'[r] = Append(queue[r], child)
  BY <1>2, <1>5 DEF Delivered
<1>7. NoneWait(r)'
  BY <1>1, <1>2, <1>6 DEF SingleAt, NoneWait, Delivered
<1>8. Len(queue'[r]) + Len(children'[r]) = Len(queue[r]) + Len(children[r])
  <2>1. children[r] # <<>> /\ children'[r] = Tail(children[r]) /\ child \in Node
    BY <1>2 DEF Delivered
  <2> DEFINE a == Len(queue[r])
             b == Len(children[r])
             x == Len(queue'[r])
             y == Len(children'[r])
  <2>2. x = a + 1 /\ a \in Nat
    BY <1>1, <1>6, <2>1, AppendedEntry
  <2>3. y = b - 1 /\ b \in Nat
    BY <1>1, <2>1
  <2> HIDE DEF a, b, x, y
  <2>4. x + y = a + b
    BY <2>2, <2>3
  <2> QED
    BY <2>4 DEF a, b, x, y
<1> QED
  BY <1>1, <1>7, <1>8 DEF SingleAt

LEMMA StepSingle ==
    ASSUME IInv, Queued, OneAtATime(F), NEW r \in Requests, DeliversAt(r), SingleAt(r), Step(r)
    PROVE  SingleAt(r)'
<1>1. /\ pc \in [Requests -> {"idle"} \cup Active \cup Ended]
      /\ queue \in [Requests -> Seq(Node)] /\ queue[r] \in Seq(Node) /\ children[r] \in Seq(Node)
      /\ QueuedAt(r)
  BY DEF IInv, TypeOK, Queued
<1>2. CASE DeliverOutput(r)
  BY <1>2, DeliverOutputSingle
<1>3. CASE Reopen(r)
  <2>1. pc[r] = "resuming" /\ pc'[r] = "loop" /\ queue'[r] = <<humanInput[r]>> /\ waiting' = waiting
    BY <1>1, <1>3 DEF Reopen
  <2> QED
    BY <1>1, <2>1 DEF SingleAt, QueuedAt, NoneWait
<1>4. CASE BeginNode(r)
  <2>1. /\ pc[r] = "loop" /\ queue[r] # <<>> /\ queue'[r] = Tail(queue[r]) /\ waiting' = waiting
        /\ pc'[r] \in {"running", "failing"}
    BY <1>1, <1>4 DEF BeginNode
  <2> DEFINE a == Len(queue[r])
             x == Len(queue'[r])
  <2>2. x = a - 1 /\ a \in Nat /\ a # 0
    BY <1>1, <2>1
  <2>3. a <= 1 /\ NoneWait(r)
    BY <2>1 DEF SingleAt
  <2> HIDE DEF a, x
  <2>4. x = 0
    BY <2>2, <2>3
  <2> USE DEF a, x
  <2>5. NoneWait(r)'
    BY <2>1, <2>3 DEF NoneWait
  <2> QED
    BY <2>1, <2>4, <2>5 DEF SingleAt
<1>5. ASSUME NEW fulfilled \in Reports(r), FinishNode(r, fulfilled) PROVE SingleAt(r)'
  <2>1. /\ pc[r] = "running" /\ pc'[r] = "outputs" /\ chatflow' = chatflow /\ F' = F
        /\ queue' = queue /\ waiting' = waiting /\ current' = current
        /\ current[r] \in Node
    BY <1>1, <1>5, FlowStays DEF FinishNode, IInv, Placed, PlacedAt
  <2>2. PICK e \in Entry :
            e.taken \in Outcomes(F, current[r]) /\ children'[r] = Fired(F, current[r], e.taken)
    BY <1>5, FinishNodeDelivers
  <2>3. Len(children'[r]) <= IF F.kind[current[r]] = "loop" THEN 0 ELSE 1
    BY <2>1, <2>2 DEF OneAtATime
  <2>4. Len(children'[r]) \in Nat
    <3>1. F \in Flow
      BY FlowType DEF IInv, TypeOK
    <3> QED
      BY <2>2, <3>1, FiredType
  <2>5. NoneWait(r)' /\ Len(queue'[r]) = 0
    BY <2>1 DEF SingleAt, NoneWait
  <2>6. Len(queue'[r]) + Len(children'[r]) <= IF F.kind[current[r]] = "loop" THEN 0 ELSE 1
    BY <2>3, <2>4, <2>5
  <2> QED
    BY <2>1, <2>5, <2>6 DEF SingleAt
<1>6. CASE EndOutputs(r)
  <2>1. /\ pc[r] = "outputs" /\ pc'[r] = "loop" /\ waiting' = waiting
        /\ queue'[r] = queue[r] \/ (F.kind[current[r]] = "loop" /\ Len(queue'[r]) = Len(queue[r]) + 1)
    BY <1>1, <1>6 DEF EndOutputs, LoopsBack
  <2> DEFINE a == Len(queue[r])
             b == Len(children[r])
             x == Len(queue'[r])
             loops == F.kind[current[r]] = "loop"
  <2>2. a \in Nat /\ b \in Nat /\ (x = a \/ (loops /\ x = a + 1))
    BY <1>1, <2>1
  <2>3. a + b <= IF loops THEN 0 ELSE 1
    BY <2>1 DEF SingleAt
  <2> HIDE DEF a, b, x, loops
  <2>4. x <= 1
    BY <2>2, <2>3
  <2> USE DEF x
  <2>5. NoneWait(r)'
    BY <2>1 DEF SingleAt, NoneWait
  <2> QED
    BY <2>1, <2>4, <2>5 DEF SingleAt
<1>7. CASE \/ DropErrorEntry(r) \/ Overrun(r) \/ StopNode(r) \/ Settle(r) \/ SettleFailure(r)
           \/ ClearAction(r) \/ SaveMessages(r) \/ LoseAnswer(r)
           \/ \E status \in {"ERROR", "TERMINATED"} : FailNode(r, status)
  <2>1. pc'[r] \notin {"loop", "running", "outputs"}
    BY <1>1, <1>7 DEF DropErrorEntry, Overrun, StopNode, Settle, SettleFailure, ClearAction,
                      SaveMessages, LoseAnswer, FailNode
  <2> QED
    BY <2>1 DEF SingleAt
<1> QED
  BY <1>2, <1>3, <1>4, <1>5, <1>6, <1>7, Zenon DEF Step

LEMMA NextSingle == ASSUME IInv, Queued, Deliveries, Single, [Next]_vars PROVE Single'
<1>1. CASE Crash \/ (\E r \in Requests : Abort(r)) \/ UNCHANGED vars
  <2>1. /\ \A r \in Requests : pc'[r] = pc[r] \/ pc'[r] = "crashed"
        /\ chatflow' = chatflow /\ F' = F
        /\ queue' = queue /\ waiting' = waiting /\ current' = current /\ children' = children
    BY <1>1 DEF Crash, Abort, vars, shared, control, local, F
  <2> QED
    BY <2>1 DEF Single, SingleAt, NoneWait
<1>2. ASSUME NEW r \in Requests, Arrive(r) \/ Step(r) PROVE Single'
  <2>1. Unmoved(r) /\ F' = F
    BY <1>2, ServesOne, FlowStays DEF Unmoved
  <2>2. OneAtATime(F) => SingleAt(r)'
    BY <1>2, ArriveSingle, StepSingle DEF Single, Deliveries
  <2> QED
    BY <2>1, <2>2 DEF Single, SingleAt, NoneWait, Unmoved
<1> QED
  BY <1>1, <1>2, Zenon DEF Next

LEMMA InitSingle == Init => Single
BY DEF Init, Single, SingleAt

\* A node that was called is a node of the flow.
LEMMA CalleesAreNodes ==
    ASSUME IInv, NEW n, NEW taken, NEW c \in Callees(F, n, taken)
    PROVE  c \in F.nodes /\ c \in Node
<1>1. chatflow \in DOMAIN Agentflows /\ F \in Flow /\ F = Agentflows[chatflow]
  BY FlowType DEF IInv, TypeOK, F
<1>2. PICK i \in DOMAIN Fired(F, n, taken) : c = Fired(F, n, taken)[i]
  BY DEF Callees
<1>3. c \in F.nodes
  BY <1>1, <1>2, FiredChildren
<1> QED
  BY <1>1, <1>3 DEF Flow

\* Where nodes run once, one that has finished ran after all that called it.
LEMMA FinishedLater ==
    ASSUME IInv, RunsOnce(F), NEW r \in Requests, OnceAt(r), pc[r] \in {"loop", "running"},
           NEW p \in DOMAIN executed[r], executed[r][p].status = "FINISHED",
           NEW c \in Callees(F, executed[r][p].node, executed[r][p].taken),
           Handled(r, p, c), Finished(executed[r], c)
    PROVE  Later(executed[r], p, c)
<1> DEFINE d == executed[r]
           s == d[p].node
<1>1. d \in Seq(Entry) /\ F \in Flow /\ OneOfEachGroup(F) /\ Sound(F, d) /\ RunsOnceAt(r)
  BY FlowType DEF IInv, TypeOK, RunsOnce, OnceAt
<1>2. c \in F.nodes /\ c \in Node
  BY CalleesAreNodes
<1>3. s \in CallersIn(F, d, c)
  <2>1. d[p] \in Entry
    BY <1>1
  <2> QED
    BY <2>1 DEF CallersIn, Entry
<1>4. Used(r, c) /\ ~Planned(r, c)
  BY <1>1, <1>2 DEF RunsOnceAt, Begun, HasStep, Stays, Finished
<1>5. PICK U \in SUBSET CallersIn(F, d, c) : Satisfied(F, c, U) /\ U \cap waiting[r][c] = {}
  BY <1>4 DEF Used
<1>6. CallersIn(F, d, c) = U
  BY <1>1, <1>2, <1>5, OneSupply
<1>7. s \notin waiting[r][c]
  BY <1>3, <1>5, <1>6
<1> QED
  BY <1>4, <1>7 DEF Handled, IsChild

\* When a node stops, everything else that was called has run.
LEMMA StopsLast ==
    ASSUME IInv, Queued, Completes(F), Single, OnceInv,
           NEW r \in Requests, AllHandled(r), pc[r] = "running",
           F.kind[current[r]] \in {"human", "agent"}
    PROVE  CompleteBut(F, executed[r], {current[r]})
<1> DEFINE d == executed[r]
           h == current[r]
<1>1. /\ d \in Seq(Entry) /\ F \in Flow /\ h \in Node
      /\ queue[r] \in Seq(Node)
  BY FlowType DEF IInv, TypeOK, Placed, PlacedAt
<1>2. SUFFICES ASSUME NEW p \in DOMAIN d, d[p].status = "FINISHED",
                      NEW c \in Callees(F, d[p].node, d[p].taken), c # h
               PROVE  Later(d, p, c)
  BY DEF CompleteBut
<1>3. Handled(r, p, c) /\ c \in F.nodes /\ c \in Node
  BY <1>2, CalleesAreNodes DEF AllHandled
<1>4. CASE OneAtATime(F)
  <2>1. NoneWait(r) /\ Len(queue[r]) = 0
    BY <1>4 DEF Single, SingleAt
  <2>2. queue[r] = <<>>
    BY <1>1, <2>1
  <2> QED
    BY <1>2, <1>3, <2>1, <2>2 DEF Handled, Planned, Queues, NoneWait, IsChild
<1>5. CASE RunsOnce(F) /\ JoinsFill(F) /\ StopsAlone(F)
  <2>1. OnceAt(r) /\ Sound(F, d) /\ RunsOnceAt(r)
    BY <1>5 DEF OnceInv, OnceAt
  <2>2. Used(r, h) /\ ~Finished(d, h)
    BY <1>1, <2>1 DEF RunsOnceAt, Begun, Planned
  <2>3. /\ Course(d) \in Courses(F)
        /\ \A n : Callers(F, Course(d), n) = CallersIn(F, d, n)
        /\ RanIn(Course(d)) = FinishedNodes(d)
    BY <1>1, <2>1, SoundCourse
  <2>4. h \in F.nodes \ RanIn(Course(d)) /\ Satisfied(F, h, Callers(F, Course(d), h))
    BY <2>2, <2>3, InputsSuffice DEF Used, FinishedNodes, Satisfied
  <2>5. CalledIn(F, Course(d)) \subseteq RanIn(Course(d)) \cup {h}
    BY <1>5, <2>3, <2>4 DEF StopsAlone
  <2>6. d[p].node \in CallersIn(F, d, c)
    <3>1. d[p] \in Entry
      BY <1>1
    <3> QED
      BY <1>2, <3>1 DEF CallersIn, Entry
  <2>7. c \in CalledIn(F, Course(d))
    BY <1>3, <2>3, <2>6 DEF CalledIn
  <2>8. Finished(d, c)
    BY <1>2, <2>3, <2>5, <2>7 DEF FinishedNodes
  <2> QED
    BY <1>2, <1>3, <1>5, <2>1, <2>8, FinishedLater
<1> QED
  BY <1>4, <1>5 DEF Completes

\* When the queue is empty, everything that was called has run.
LEMMA NothingWaits ==
    ASSUME IInv, Queued, Deliveries, Completes(F), Single, OnceInv,
           NEW r \in Requests, AllHandled(r), pc[r] = "loop", queue[r] = <<>>
    PROVE  CompleteBut(F, executed[r], {})
<1> DEFINE d == executed[r]
<1>1. d \in Seq(Entry) /\ F \in Flow
  BY FlowType DEF IInv, TypeOK
<1>2. \A p \in DOMAIN d : d[p].status = "FINISHED" =>
          \A c \in Callees(F, d[p].node, d[p].taken) :
             Handled(r, p, c) /\ c \in F.nodes /\ c \in Node /\ d[p].node \in CallersIn(F, d, c)
  <2>1. \A p \in DOMAIN d : d[p].node \in Node
    <3>1. \A p \in DOMAIN d : d[p] \in Entry
      BY <1>1
    <3> QED
      BY <3>1 DEF Entry
  <2> QED
    BY <2>1, CalleesAreNodes DEF AllHandled, CallersIn
<1>3. \A n : ~Planned(r, n)
  BY DEF Planned, Queues
<1>4. SUFFICES ASSUME NEW p \in DOMAIN d, d[p].status = "FINISHED",
                      NEW c \in Callees(F, d[p].node, d[p].taken)
               PROVE  Later(d, p, c)
  BY DEF CompleteBut
<1>5. CASE OneAtATime(F)
  <2>1. NoneWait(r)
    BY <1>5 DEF Single, SingleAt
  <2> QED
    BY <1>2, <1>3, <1>4, <2>1 DEF Handled, NoneWait, IsChild
<1>6. CASE RunsOnce(F) /\ JoinsFill(F) /\ StopsAlone(F)
  <2>1. OnceAt(r) /\ Sound(F, d) /\ RunsOnceAt(r)
    BY <1>6 DEF OnceInv, OnceAt
  <2>2. /\ Course(d) \in Courses(F)
        /\ \A n : Callers(F, Course(d), n) = CallersIn(F, d, n)
        /\ RanIn(Course(d)) = FinishedNodes(d)
    BY <1>1, <2>1, SoundCourse
  <2>3. ASSUME NEW n \in CalledIn(F, Course(d)), Satisfied(F, n, Callers(F, Course(d), n)),
               ~Finished(d, n)
        PROVE  FALSE
    <3>1. n \in F.nodes /\ n \in Node /\ CallersIn(F, d, n) # {} /\ Satisfied(F, n, CallersIn(F, d, n))
      BY <1>1, <2>2, <2>3 DEF CalledIn, Flow
    <3>2. \A s \in CallersIn(F, d, n) : s \in waiting[r][n]
      <4>1. SUFFICES ASSUME NEW s \in CallersIn(F, d, n) PROVE s \in waiting[r][n]
        OBVIOUS
      <4>2. PICK q \in DOMAIN d : /\ d[q].status = "FINISHED" /\ d[q].node = s
                                  /\ n \in Callees(F, s, d[q].taken)
        BY DEF CallersIn
      <4>3. Handled(r, q, n)
        BY <1>2, <4>2
      <4>4. ~Later(d, q, n)
        BY <2>3 DEF Later, Finished
      <4> QED
        BY <1>3, <4>2, <4>3, <4>4 DEF Handled, IsChild
    <3>3. waiting[r][n] # {} /\ Satisfied(F, n, waiting[r][n])
      BY <3>1, <3>2, InputsSuffice DEF Satisfied
    <3> QED
      BY <3>1, <3>3 DEF Deliveries, DeliversAt
  <2>4. \A n \in CalledIn(F, Course(d)) :
           Satisfied(F, n, Callers(F, Course(d), n)) => n \in RanIn(Course(d))
    <3>1. \A n \in CalledIn(F, Course(d)) : n \in Node
      BY <1>1 DEF CalledIn, Flow
    <3> QED
      BY <2>2, <2>3, <3>1 DEF FinishedNodes
  <2>5. CalledIn(F, Course(d)) \subseteq RanIn(Course(d))
    BY <1>6, <2>2, <2>4 DEF JoinsFill
  <2>6. c \in CalledIn(F, Course(d))
    BY <1>2, <1>4, <2>2 DEF CalledIn
  <2>7. Finished(d, c)
    BY <2>2, <2>5, <2>6 DEF FinishedNodes
  <2> QED
    BY <1>2, <1>4, <1>6, <2>1, <2>7, FinishedLater
<1> QED
  BY <1>5, <1>6 DEF Completes

LEMMA CompleteButMore ==
    ASSUME NEW f, NEW d, NEW N, NEW M, CompleteBut(f, d, N), N \subseteq M
    PROVE  CompleteBut(f, d, M)
BY DEF CompleteBut

\* While the stop of an execution has not been answered, nothing else is planned.
LEMMA AnsweringAlone ==
    ASSUME IInv, Queued, NEW r \in Requests, OrderedAt(r), pc[r] \in {"loop", "running"},
           AllHandled(r), NEW i \in DOMAIN executed[r], executed[r][i].status = "STOPPED"
    PROVE  CompleteBut(F, executed[r], StopNodes(executed[r]))
<1> DEFINE d == executed[r]
           h == d[i].node
<1>1. d \in Seq(Entry) /\ QueuedAt(r)
  BY DEF IInv, TypeOK, Queued
<1>2. h \in Node /\ NoNode \notin Node
  <2>1. d[i] \in Entry
    BY <1>1
  <2> QED
    BY <2>1, FlowAssumption DEF Entry
<1>3. humanInput[r] = h /\ humanInput[r] # NoNode
  BY <1>2 DEF OrderedAt
<1>4. /\ NoneWait(r)
      /\ \/ pc[r] = "loop" /\ queue[r] = <<h>>
         \/ pc[r] = "running" /\ queue[r] = <<>> /\ current[r] = h
  BY <1>1, <1>3 DEF QueuedAt, Answering
<1>5. \A c : Planned(r, c) => c = h
  BY <1>4 DEF Planned, Queues
<1>6. h \in StopNodes(d)
  BY DEF StopNodes
<1>7. SUFFICES ASSUME NEW p \in DOMAIN d, d[p].status = "FINISHED",
                      NEW c \in Callees(F, d[p].node, d[p].taken)
               PROVE  Later(d, p, c) \/ c \in StopNodes(d)
  BY DEF CompleteBut
<1>8. c \in Node /\ Handled(r, p, c)
  BY <1>7, CalleesAreNodes DEF AllHandled
<1> QED
  BY <1>4, <1>5, <1>6, <1>8 DEF Handled, IsChild, NoneWait

\* The row of a failed request waits only when an error follows a stop.
LEMMA FailedRow ==
    ASSUME NEW f, NEW d \in Seq(Entry), NEW e \in Entry, e.status \in {"ERROR", "TERMINATED"},
           HasStatus(d, "STOPPED") => CompleteBut(f, d, StopNodes(d))
    PROVE  RowComplete(f, [state |-> Last(Append(d, e)).status, data |-> Append(d, e)])
<1> DEFINE s == Append(d, e)
           w == [state |-> Last(s).status, data |-> s]
<1>1. /\ s \in Seq(Entry) /\ Len(s) = Len(d) + 1 /\ Len(d) \in Nat /\ Last(s) = e
      /\ \A i \in DOMAIN d : s[i] = d[i]
  BY AppendedEntry
<1>2. w.state = e.status /\ w.data = s
  BY <1>1
<1>3. SubSeq(s, 1, Len(s) - 1) = d
  <2>1. SubSeq(s, 1, Len(d)) = d
    OBVIOUS
  <2>2. Len(s) - 1 = Len(d)
    BY <1>1
  <2> QED
    BY <2>1, <2>2
<1> HIDE DEF w, s
<1>4. ASSUME Resumable(w) PROVE CompleteBut(f, ResumeData(w), StopNodes(ResumeData(w)))
  <2>1. Retryable(w)
    BY <1>2, <1>4 DEF Resumable
  <2>2. ResumeData(w) = d
    BY <1>2, <1>3, <2>1 DEF ResumeData
  <2>3. Len(d) >= 1 /\ s[Len(d)].status = "STOPPED"
    <3>1. Len(s) >= 2 /\ s[Len(s) - 1].status = "STOPPED"
      BY <1>2, <2>1 DEF Retryable, EndsInRetry
    <3>2. Len(s) - 1 = Len(d)
      BY <1>1
    <3> QED
      BY <1>1, <3>1, <3>2
  <2>4. Len(d) \in DOMAIN d
    BY <1>1, <2>3
  <2>5. HasStatus(d, "STOPPED")
    BY <1>1, <2>3, <2>4 DEF HasStatus
  <2> QED
    BY <2>2, <2>5
<1>5. RowComplete(f, w)
  BY <1>2, <1>4 DEF RowComplete
<1> QED
  BY <1>5 DEF w, s

LEMMA FailedComplete ==
    ASSUME IInv, Queued, NEW r \in Requests, OrderedAt(r), CompleteAt(r),
           NEW e \in Entry, Failed(r, e), chatflow' = chatflow
    PROVE  CompleteAt(r)'
<1>1. /\ executed[r] \in Seq(Entry) /\ pc[r] \in {"loop", "running"} /\ pc'[r] = "failing"
      /\ executed'[r] = Append(executed[r], e) /\ e.status \in {"ERROR", "TERMINATED"}
      /\ F' = F
  BY FlowStays DEF IInv, TypeOK, Failed
<1>2. AllHandled(r)
  BY <1>1 DEF CompleteAt
<1>3. HasStatus(executed[r], "STOPPED") => CompleteBut(F, executed[r], StopNodes(executed[r]))
  BY <1>1, <1>2, AnsweringAlone DEF HasStatus
<1>4. RowComplete(F, [state |-> Last(Append(executed[r], e)).status, data |-> Append(executed[r], e)])
  BY <1>1, <1>3, FailedRow
<1> QED
  BY <1>1, <1>4 DEF CompleteAt

\* The entries that are kept keep their order, so a node that ran later still did; a node
\* that ran again did so later as well.
LEMMA RanKeepsLater ==
    ASSUME IInv, NEW r \in Requests, NEW x \in Entry, x.node = current[r],
           NEW p \in DOMAIN Kept(r), Kept(r)[p].status = "FINISHED"
    PROVE  LET s == Append(Kept(r), x)
           IN  /\ s[p] = Kept(r)[p] /\ p \in DOMAIN s
               /\ \E i \in DOMAIN executed[r] :
                     /\ executed[r][i] = Kept(r)[p]
                     /\ \A c : Later(executed[r], i, c) => c = current[r] \/ Later(s, p, c)
               /\ x.status = "FINISHED" => Later(s, p, current[r])
<1> DEFINE d == executed[r]
           kept == Kept(r)
           s == Append(kept, x)
           m == Len(kept) + 1
<1>1. d \in Seq(Entry) /\ kept \in Seq(Entry)
  BY KeptEntries DEF IInv, TypeOK
<1>2. PICK at \in [DOMAIN kept -> DOMAIN d] :
          /\ \A k \in DOMAIN kept : kept[k] = d[at[k]]
          /\ \A k, l \in DOMAIN kept : k < l => at[k] < at[l]
          /\ \A i \in DOMAIN d : \/ IsAnswered(r) /\ d[i].node = current[r]
                                 \/ \E k \in DOMAIN kept : at[k] = i
  BY KeptInOrder
<1>3. /\ DOMAIN s = DOMAIN kept \cup {m} /\ s[m] = x
      /\ \A k \in DOMAIN kept : s[k] = kept[k]
  BY <1>1, AppendedEntry
<1>4. DOMAIN kept \in SUBSET Nat /\ DOMAIN d \in SUBSET Nat /\ p < m
  BY <1>1
<1> HIDE DEF d, kept, s, m
<1>5. p \in DOMAIN kept /\ at[p] \in DOMAIN d
  BY <1>2 DEF kept
<1>6. ASSUME NEW c, Later(d, at[p], c) PROVE c = current[r] \/ Later(s, p, c)
  <2>1. PICK q \in DOMAIN d : at[p] < q /\ d[q].node = c /\ d[q].status = "FINISHED"
    BY <1>6 DEF Later
  <2>2. CASE d[q].node = current[r]
    BY <2>1, <2>2
  <2>3. CASE d[q].node # current[r]
    <3>1. PICK k \in DOMAIN kept : at[k] = q
      BY <1>2, <2>3
    <3>2. p < k
      BY <1>2, <1>4, <1>5, <2>1, <3>1
    <3>3. s[k] = d[q] /\ k \in DOMAIN s
      BY <1>2, <1>3, <3>1
    <3> QED
      BY <2>1, <3>2, <3>3 DEF Later
  <2> QED
    BY <2>2, <2>3
<1>7. x.status = "FINISHED" => Later(s, p, current[r])
  BY <1>3, <1>4 DEF Later
<1>8. d[at[p]] = kept[p] /\ s[p] = kept[p] /\ p \in DOMAIN s
  BY <1>2, <1>3, <1>5
<1> QED
  BY <1>5, <1>6, <1>7, <1>8 DEF d, kept, s

LEMMA StopNodeComplete ==
    ASSUME IInv, Queued, Completes(F), Single, OnceInv, NEW r \in Requests, CompleteAt(r),
           StopNode(r)
    PROVE  CompleteAt(r)'
<1> DEFINE x == [node |-> current[r], status |-> "STOPPED", taken |-> {}]
           s == Append(Kept(r), x)
<1>1. /\ executed \in [Requests -> Seq(Entry)] /\ pc[r] = "running" /\ current[r] \in Node
      /\ pc \in [Requests -> {"idle"} \cup Active \cup Ended]
      /\ Kept(r) \in Seq(Entry) /\ F.kind[current[r]] \in {"human", "agent"}
  BY KeptEntries DEF IInv, TypeOK, Placed, PlacedAt, StopNode
<1>2. x \in Entry /\ x.node = current[r] /\ x.status = "STOPPED"
  BY <1>1 DEF Entry, States
<1>3. executed'[r] = s /\ pc'[r] = "stopped" /\ chatflow' = chatflow /\ F' = F
  BY <1>1, FlowStays DEF StopNode
<1> HIDE DEF x
<1>4. DOMAIN s = DOMAIN Kept(r) \cup {Len(Kept(r)) + 1} /\ s[Len(Kept(r)) + 1] = x
  BY <1>1, <1>2, AppendedEntry
<1>5. current[r] \in StopNodes(s)
  BY <1>2, <1>4 DEF StopNodes
<1>6. CompleteBut(F, executed[r], {current[r]})
  BY <1>1, StopsLast DEF CompleteAt
<1>7. CompleteBut(F, s, StopNodes(s))
  <2>1. SUFFICES ASSUME NEW p \in DOMAIN s, s[p].status = "FINISHED",
                        NEW c \in Callees(F, s[p].node, s[p].taken), c # current[r]
                 PROVE  Later(s, p, c)
    BY <1>5 DEF CompleteBut
  <2>2. p \in DOMAIN Kept(r)
    BY <1>2, <1>4, <2>1
  <2>3. s[p] = Kept(r)[p]
    BY <1>1, <1>2, <2>2, AppendedEntry
  <2>4. PICK i \in DOMAIN executed[r] :
            /\ executed[r][i] = Kept(r)[p]
            /\ \A m : Later(executed[r], i, m) => m = current[r] \/ Later(s, p, m)
    BY <1>2, <2>1, <2>2, <2>3, RanKeepsLater
  <2>5. Later(executed[r], i, c)
    BY <1>6, <2>1, <2>3, <2>4 DEF CompleteBut
  <2> QED
    BY <2>1, <2>4, <2>5
<1> QED
  BY <1>3, <1>7 DEF CompleteAt

LEMMA FinishNodeComplete ==
    ASSUME IInv, Queued, NEW r \in Requests, DeliversAt(r), CompleteAt(r),
           NEW fulfilled \in Reports(r), FinishNode(r, fulfilled)
    PROVE  CompleteAt(r)'
<1> DEFINE n == current[r]
<1>1. /\ pc[r] = "running" /\ pc'[r] = "outputs" /\ chatflow' = chatflow /\ F' = F
      /\ queue' = queue /\ waiting' = waiting /\ AllHandled(r) /\ Kept(r) \in Seq(Entry)
  BY FlowStays, KeptEntries DEF IInv, TypeOK, FinishNode, CompleteAt
<1>2. PICK e \in Entry :
          /\ executed'[r] = Append(Kept(r), e)
          /\ e.node = n /\ e.status = "FINISHED" /\ e.taken \in Outcomes(F, n)
          /\ children'[r] = Fired(F, n, e.taken)
  BY FinishNodeDelivers
<1> DEFINE s == Append(Kept(r), e)
<1>3. /\ DOMAIN s = DOMAIN Kept(r) \cup {Len(Kept(r)) + 1} /\ s[Len(Kept(r)) + 1] = e
      /\ Len(s) = Len(Kept(r)) + 1
  BY <1>1, AppendedEntry
<1>4. SUFFICES ASSUME NEW p \in DOMAIN s, s[p].status = "FINISHED",
                      NEW c \in Callees(F, s[p].node, s[p].taken)
               PROVE  Handled(r, p, c)'
  <2> HIDE DEF s
  <2>1. AllHandled(r)' => CompleteAt(r)'
    BY <1>1 DEF CompleteAt
  <2>2. executed'[r] = s
    BY <1>2 DEF s
  <2> QED
    BY <1>1, <2>1, <2>2 DEF AllHandled
<1>5. CASE p = Len(s)
  <2>1. s[p] = e
    BY <1>3, <1>5
  <2>2. IsChild(r, c)'
    BY <1>1, <1>2, <1>4, <2>1 DEF IsChild, Callees
  <2> QED
    BY <1>2, <1>5, <2>2 DEF Handled
<1>6. CASE p # Len(s)
  <2>1. p \in DOMAIN Kept(r)
    BY <1>3, <1>6
  <2>2. s[p] = Kept(r)[p]
    BY <1>1, <2>1, AppendedEntry
  <2>3. PICK i \in DOMAIN executed[r] :
            /\ executed[r][i] = Kept(r)[p]
            /\ \A m : Later(executed[r], i, m) => m = n \/ Later(s, p, m)
    BY <1>2, <1>4, <2>1, <2>2, RanKeepsLater
  <2>4. Later(s, p, n)
    BY <1>2, <1>4, <2>1, <2>2, RanKeepsLater
  <2>5. Handled(r, i, c)
    BY <1>1, <1>4, <2>2, <2>3 DEF AllHandled
  <2>6. CASE c = n \/ Later(executed[r], i, c)
    BY <1>2, <2>3, <2>4, <2>6 DEF Handled
  <2>7. CASE Queues(r, c)
    BY <1>1, <2>7 DEF Handled, Planned, Queues
  <2>8. CASE executed[r][i].node \in waiting[r][c]
    BY <1>1, <1>2, <2>2, <2>3, <2>8 DEF Handled
  <2> QED
    BY <1>1, <2>5, <2>6, <2>7, <2>8 DEF Handled, Planned, IsChild
<1> QED
  BY <1>5, <1>6

LEMMA DeliverOutputComplete ==
    ASSUME IInv, Queued, NEW r \in Requests, DeliversAt(r), CompleteAt(r), DeliverOutput(r)
    PROVE  CompleteAt(r)'
<1> DEFINE d == executed[r]
<1>1. /\ pc[r] = "outputs" /\ pc'[r] = "outputs" /\ chatflow' = chatflow /\ F' = F
      /\ current' = current /\ executed' = executed /\ d \in Seq(Entry)
      /\ queue[r] \in Seq(Node) /\ children[r] \in Seq(Node)
      /\ AllHandled(r) /\ QueuedAt(r) /\ d # <<>>
  BY FlowStays DEF IInv, TypeOK, Placed, PlacedAt, DeliverOutput, CompleteAt, Queued
<1>2. PICK child, received : Delivered(r, child, received)
  BY DeliverOutputDelivers
<1>3. d[Len(d)].node = current[r]
  BY <1>1 DEF QueuedAt, Last
<1>4. \A c : IsChild(r, c) => c = child \/ IsChild(r, c)'
  <2>1. children[r] # <<>> /\ child = Head(children[r]) /\ children'[r] = Tail(children[r])
    BY <1>2 DEF Delivered
  <2>2. \A i \in DOMAIN children[r] : \/ children[r][i] = child
                                      \/ \E j \in DOMAIN children'[r] : children'[r][j] = children[r][i]
    <3>1. SUFFICES ASSUME NEW i \in DOMAIN children[r], i # 1
                   PROVE  \E j \in DOMAIN children'[r] : children'[r][j] = children[r][i]
      BY <1>1, <2>1
    <3>2. i - 1 \in DOMAIN Tail(children[r]) /\ Tail(children[r])[i - 1] = children[r][i]
      BY <1>1, <2>1, <3>1
    <3> QED
      BY <2>1, <3>2
  <2> QED
    BY <1>1, <2>2 DEF IsChild
<1>5. \A c : Queues(r, c) => Queues(r, c)'
  <2>1. \A i \in DOMAIN queue[r] : i \in DOMAIN queue'[r] /\ queue'[r][i] = queue[r][i]
    BY <1>1, <1>2, AppendedEntry DEF Delivered
  <2> QED
    BY <2>1 DEF Queues
<1>6. \/ Queues(r, child)'
      \/ waiting'[r][child] = waiting[r][child] \cup {current[r]}
  <2>1. CASE queue'[r] = Append(queue[r], child)
    <3>1. Len(queue[r]) + 1 \in DOMAIN queue'[r] /\ queue'[r][Len(queue[r]) + 1] = child
      BY <1>1, <1>2, <2>1, AppendedEntry DEF Delivered
    <3> QED
      BY <3>1 DEF Queues
  <2> QED
    BY <1>2, <2>1 DEF Delivered
<1>7. SUFFICES ASSUME NEW p \in DOMAIN d, d[p].status = "FINISHED",
                      NEW c \in Callees(F, d[p].node, d[p].taken)
               PROVE  Handled(r, p, c)'
  BY <1>1 DEF CompleteAt, AllHandled
<1>8. Handled(r, p, c) /\ c \in Node
  BY <1>1, <1>7, CalleesAreNodes DEF AllHandled
<1>9. CASE c = child
  <2>1. CASE Queues(r, child)'
    BY <1>9, <2>1 DEF Handled, Planned
  <2>2. CASE waiting'[r][child] = waiting[r][child] \cup {current[r]}
    BY <1>1, <1>3, <1>5, <1>8, <1>9, <2>2 DEF Handled, Planned
  <2> QED
    BY <1>6, <2>1, <2>2
<1>10. CASE c # child
  <2>1. waiting'[r][c] = waiting[r][c]
    BY <1>2, <1>8, <1>10 DEF Delivered
  <2> QED
    BY <1>1, <1>4, <1>5, <1>8, <1>10, <2>1 DEF Handled, Planned
<1> QED
  BY <1>9, <1>10

\* The steps between the runs.
LEMMA MoveComplete ==
    ASSUME IInv, Queued, NEW r \in Requests, OrderedAt(r), CompleteAt(r),
           DropErrorEntry(r) \/ Reopen(r) \/ BeginNode(r) \/ EndOutputs(r)
    PROVE  CompleteAt(r)'
<1> DEFINE d == executed[r]
<1>1. /\ pc \in [Requests -> {"idle"} \cup Active \cup Ended]
      /\ queue \in [Requests -> Seq(Node)] /\ queue[r] \in Seq(Node) /\ QueuedAt(r)
      /\ current \in [Requests -> Node \cup {NoNode}]
      /\ chatflow' = chatflow /\ F' = F
  BY FlowStays DEF IInv, TypeOK, Queued, DropErrorEntry, Reopen, BeginNode, EndOutputs
<1>2. ASSUME executed' = executed, waiting' = waiting, pc'[r] \in {"loop", "running"}, AllHandled(r),
             \A c : Planned(r, c) => Planned(r, c)',
             \A c : ~IsChild(r, c)
      PROVE  CompleteAt(r)'
  <2>1. \A p, c : Handled(r, p, c) => Handled(r, p, c)'
    BY <1>2 DEF Handled
  <2> QED
    BY <1>1, <1>2, <2>1 DEF CompleteAt, AllHandled
<1>3. CASE DropErrorEntry(r)
  <2>1. /\ pc[r] = "dropping" /\ pc'[r] = "resuming" /\ executed' = executed
        /\ humanInput' = humanInput
    BY <1>1, <1>3 DEF DropErrorEntry
  <2> QED
    BY <1>1, <2>1 DEF CompleteAt
<1>4. CASE Reopen(r)
  <2>1. /\ pc[r] = "resuming" /\ pc'[r] = "loop" /\ queue'[r] = <<humanInput[r]>>
        /\ executed' = executed
    BY <1>1, <1>4 DEF Reopen
  <2>2. \A c : c = humanInput[r] => Planned(r, c)'
    BY <2>1 DEF Planned, Queues
  <2>3. CompleteBut(F, d, {humanInput[r]})
    BY <2>1 DEF CompleteAt
  <2>4. ASSUME NEW p \in DOMAIN d, d[p].status = "FINISHED",
               NEW c \in Callees(F, d[p].node, d[p].taken)
        PROVE  Handled(r, p, c)'
    <3>1. Later(d, p, c) \/ c = humanInput[r]
      BY <2>3, <2>4 DEF CompleteBut
    <3>2. CASE Later(d, p, c)
      BY <2>1, <3>2 DEF Handled
    <3>3. CASE c = humanInput[r]
      BY <2>2, <3>3 DEF Handled
    <3> QED
      BY <3>1, <3>2, <3>3
  <2>5. AllHandled(r)'
    BY <1>1, <2>1, <2>4 DEF AllHandled
  <2> QED
    BY <2>1, <2>5 DEF CompleteAt
<1>5. CASE BeginNode(r) /\ pc'[r] = "running" /\ executed' = executed
  <2>1. /\ pc[r] = "loop" /\ queue[r] # <<>> /\ waiting' = waiting
        /\ queue'[r] = Tail(queue[r]) /\ current'[r] = Head(queue[r])
    BY <1>1, <1>5 DEF BeginNode
  <2>2. \A i \in DOMAIN queue[r] : \/ queue[r][i] = Head(queue[r])
                                   \/ \E j \in DOMAIN Tail(queue[r]) : Tail(queue[r])[j] = queue[r][i]
    <3>1. SUFFICES ASSUME NEW i \in DOMAIN queue[r], i # 1
                   PROVE  \E j \in DOMAIN Tail(queue[r]) : Tail(queue[r])[j] = queue[r][i]
      BY <1>1, <2>1
    <3>2. i - 1 \in DOMAIN Tail(queue[r]) /\ Tail(queue[r])[i - 1] = queue[r][i]
      BY <1>1, <2>1, <3>1
    <3> QED
      BY <3>2
  <2>3. \A c : Planned(r, c) => Planned(r, c)'
    BY <1>5, <2>1, <2>2 DEF Planned, Queues
  <2> QED
    BY <1>2, <1>5, <2>1, <2>3 DEF CompleteAt, IsChild
<1>6. ASSUME NEW e \in Entry, Failed(r, e) PROVE CompleteAt(r)'
  BY <1>1, <1>6, FailedComplete
<1>7. CASE EndOutputs(r)
  <2>1. /\ pc[r] = "outputs" /\ pc'[r] = "loop" /\ waiting' = waiting /\ executed' = executed
        /\ children[r] = <<>>
        /\ queue'[r] = queue[r] \/ queue'[r] = Append(queue[r], F.back[current[r]])
    BY <1>1, <1>7 DEF EndOutputs
  <2>2. \A i \in DOMAIN queue[r] : i \in DOMAIN queue'[r] /\ queue'[r][i] = queue[r][i]
    <3>1. current[r] \in Node /\ F \in Flow
      BY <2>1, FlowType DEF IInv, TypeOK, Placed, PlacedAt
    <3>2. F.back[current[r]] \in Node
      BY <3>1 DEF Flow
    <3> QED
      BY <1>1, <2>1, <3>2, AppendedEntry
  <2>3. \A c : Planned(r, c) => Planned(r, c)'
    BY <2>1, <2>2 DEF Planned, Queues
  <2> QED
    BY <1>2, <2>1, <2>3 DEF CompleteAt, IsChild
<1>8. BeginNode(r) => \/ pc'[r] = "running" /\ executed' = executed
                      \/ \E e \in Entry : Failed(r, e)
  BY BeginNodeExecuted
<1> QED
  BY <1>3, <1>4, <1>5, <1>6, <1>7, <1>8

\* The row of a request whose queue is empty or that has stopped.
LEMMA SettledRow ==
    ASSUME NEW f, NEW d \in Seq(Entry), Orderly(d, Len(d)), CompleteBut(f, d, StopNodes(d))
    PROVE  RowComplete(f, [state |-> FinalState(d), data |-> d])
<1> DEFINE w == [state |-> FinalState(d), data |-> d]
<1>1. \A i \in DOMAIN d : d[i].status \in {"FINISHED", "STOPPED"}
  <2>1. \A i \in DOMAIN d : i <= Len(d)
    OBVIOUS
  <2> QED
    BY <2>1 DEF Orderly
<1>2. FinalState(d) = IF HasStatus(d, "STOPPED") THEN "STOPPED" ELSE "FINISHED"
  BY <1>1 DEF FinalState, HasStatus
<1>3. w.state = FinalState(d) /\ w.data = d
  OBVIOUS
<1> HIDE DEF w
<1>4. ASSUME w.state = "FINISHED"
      PROVE  CompleteBut(f, d, {}) /\ \A i \in DOMAIN d : d[i].status = "FINISHED"
  <2>1. ~HasStatus(d, "STOPPED")
    BY <1>2, <1>3, <1>4
  <2>2. StopNodes(d) = {}
    BY <2>1 DEF StopNodes, HasStatus
  <2> QED
    BY <1>1, <2>1, <2>2 DEF HasStatus
<1>5. ResumeData(w) = d
  BY <1>2, <1>3 DEF ResumeData, Retryable
<1>6. RowComplete(f, w)
  BY <1>3, <1>4, <1>5 DEF RowComplete
<1> QED
  BY <1>6 DEF w

LEMMA SettleComplete ==
    ASSUME IInv, Queued, Deliveries, Completes(F), Single, OnceInv,
           NEW r \in Requests, OrderedAt(r), CompleteAt(r), Settle(r)
    PROVE  CompleteAt(r)' /\ RowComplete(F, executions'[row[r]])
<1> DEFINE d == executed[r]
           w == [state |-> FinalState(d), data |-> d]
<1>1. /\ d \in Seq(Entry) /\ row[r] \in DOMAIN executions
      /\ pc \in [Requests -> {"idle"} \cup Active \cup Ended]
      /\ pc[r] = "stopped" \/ (pc[r] = "loop" /\ queue[r] = <<>>)
      /\ executions' = [executions EXCEPT ![row[r]] = w]
  BY DEF IInv, TypeOK, Placed, PlacedAt, Settle, Active
<1>2. pc'[r] = "settled"
  BY <1>1 DEF Settle
<1>3. Orderly(d, Len(d))
  BY <1>1 DEF OrderedAt
<1>4. CompleteBut(F, d, StopNodes(d))
  <2>1. CASE pc[r] = "stopped"
    BY <2>1 DEF CompleteAt
  <2>2. CASE pc[r] = "loop" /\ queue[r] = <<>>
    <3>1. CompleteBut(F, d, {})
      BY <2>2, NothingWaits DEF CompleteAt
    <3> QED
      BY <3>1, CompleteButMore
  <2> QED
    BY <1>1, <2>1, <2>2
<1>5. RowComplete(F, w)
  BY <1>1, <1>3, <1>4, SettledRow
<1> HIDE DEF w
<1>6. executions'[row[r]] = w
  BY <1>1, WrittenRow
<1> QED
  BY <1>2, <1>5, <1>6 DEF CompleteAt

LEMMA SettleFailureComplete ==
    ASSUME IInv, NEW r \in Requests, CompleteAt(r), SettleFailure(r)
    PROVE  CompleteAt(r)' /\ RowComplete(F, executions'[row[r]])
<1> DEFINE w == [state |-> Last(executed[r]).status, data |-> executed[r]]
<1>1. /\ row[r] \in DOMAIN executions
      /\ pc \in [Requests -> {"idle"} \cup Active \cup Ended]
      /\ pc[r] = "failing" /\ executions' = [executions EXCEPT ![row[r]] = w]
  BY DEF IInv, TypeOK, Placed, PlacedAt, SettleFailure, Active
<1>2. pc'[r] = "failed"
  BY <1>1 DEF SettleFailure
<1>3. RowComplete(F, w)
  BY <1>1 DEF CompleteAt
<1> HIDE DEF w
<1>4. executions'[row[r]] = w
  BY <1>1, WrittenRow
<1> QED
  BY <1>2, <1>3, <1>4 DEF CompleteAt

LEMMA InProgressComplete ==
    ASSUME NEW f, NEW e, e.state = "INPROGRESS"
    PROVE  RowComplete(f, e)
BY DEF RowComplete, Resumable, Retryable

LEMMA ArriveComplete ==
    ASSUME ~StaleResume, IInv, RowsOrderly, RowsComplete, NEW r \in Requests, OrderedAt(r),
           Arrive(r)
    PROVE  CompleteAt(r)' /\ RowsComplete'
<1>1. /\ pc \in [Requests -> {"idle"} \cup Active \cup Ended]
      /\ executions \in Seq(Row)
      /\ executed \in [Requests -> Seq(Entry)]
      /\ humanInput \in [Requests -> Node \cup {NoNode}]
      /\ pc[r] = "idle" /\ executed[r] = <<>>
  BY ArriveArrives DEF IInv, TypeOK, MayArrive, OrderedAt
<1>2. CASE Ask(r)
  <2> DEFINE e == [state |-> "INPROGRESS", data |-> <<>>]
  <2>1. /\ pc'[r] = "loop" /\ chatflow' = chatflow /\ executed' = executed
        /\ executions' = Append(executions, e)
    BY <1>1, <1>2 DEF Ask
  <2>2. F' = F
    BY <2>1, FlowStays
  <2>3. e \in Row /\ e.state = "INPROGRESS"
    BY DEF Row, States
  <2> HIDE DEF e
  <2>4. /\ DOMAIN executions' = DOMAIN executions \cup {Len(executions) + 1}
        /\ executions'[Len(executions) + 1] = e
        /\ \A i \in DOMAIN executions : executions'[i] = executions[i]
    BY <1>1, <2>1, <2>3, AppendedEntry
  <2>5. RowComplete(F, e)
    BY <2>3, InProgressComplete
  <2>6. RowsComplete'
    BY <2>2, <2>4, <2>5 DEF RowsComplete
  <2>7. DOMAIN executed'[r] = {}
    BY <1>1, <2>1
  <2> QED
    BY <2>1, <2>6, <2>7 DEF CompleteAt, AllHandled
<1>3. CASE RefuseQuestion(r) \/ \E named \in NamedStops : RefuseHumanInput(r, named)
  <2>1. pc'[r] = "rejected" /\ executions' = executions /\ chatflow' = chatflow
    BY <1>1, <1>3 DEF RefuseQuestion, RefuseHumanInput, shared
  <2> QED
    BY <2>1, FlowStays DEF CompleteAt, RowsComplete
<1>4. ASSUME NEW named \in NamedStops, Resume(r, named)
      PROVE  CompleteAt(r)' /\ RowsComplete'
  <2> DEFINE d == ResumeData(Last(executions))
             n == ResumeNode(d, named)
  <2>1. /\ executions' = executions /\ chatflow' = chatflow /\ executed'[r] = d
        /\ humanInput'[r] = n
        /\ pc'[r] \in {"dropping", "resuming"} /\ CanResume(named)
    BY <1>1, <1>4 DEF Resume, shared
  <2>2. \A i \in DOMAIN d : d[i].status = "STOPPED" => n = d[i].node
    BY <1>4, <2>1, ResumeAnswersStop
  <2> HIDE DEF d, n
  <2>3. CompleteBut(F, d, StopNodes(d))
    <3>1. Len(executions) \in DOMAIN executions
      BY <1>1, <2>1 DEF CanResume
    <3> QED
      BY <2>1, <3>1 DEF RowsComplete, RowComplete, CanResume, Last, d
  <2>4. StopNodes(d) \subseteq {n}
    BY <2>2 DEF StopNodes
  <2>5. CompleteBut(F, d, {n})
    BY <2>3, <2>4, CompleteButMore
  <2>6. F' = F
    BY <2>1, FlowStays
  <2> QED
    BY <2>1, <2>5, <2>6 DEF CompleteAt, RowsComplete
<1> QED
  BY <1>2, <1>3, <1>4, Zenon DEF Arrive

LEMMA StepComplete ==
    ASSUME IInv, Queued, Deliveries, Completes(F), Single, OnceInv, RowsComplete,
           NEW r \in Requests, OrderedAt(r), CompleteAt(r), Step(r)
    PROVE  CompleteAt(r)' /\ RowsComplete'
<1>1. /\ pc \in [Requests -> {"idle"} \cup Active \cup Ended]
      /\ executed[r] \in Seq(Entry) /\ DeliversAt(r)
  BY DEF IInv, TypeOK, Deliveries
<1>2. chatflow' = chatflow /\ F' = F
  BY ServesOne, FlowStays DEF Unmoved
<1>3. ASSUME NEW e \in Entry, Failed(r, e) PROVE CompleteAt(r)'
  BY <1>2, <1>3, FailedComplete
<1>4. ASSUME \E status \in {"ERROR", "TERMINATED"} : FailNode(r, status) PROVE CompleteAt(r)'
  BY <1>3, <1>4, FailNodeFailed
<1>5. ASSUME DropErrorEntry(r) \/ Reopen(r) \/ BeginNode(r) \/ EndOutputs(r) PROVE CompleteAt(r)'
  BY <1>5, MoveComplete
<1>6. ASSUME StopNode(r) \/ DeliverOutput(r) \/ \E fulfilled \in Reports(r) : FinishNode(r, fulfilled)
      PROVE  CompleteAt(r)'
  BY <1>1, <1>6, StopNodeComplete, DeliverOutputComplete, FinishNodeComplete
<1>7. ASSUME Settle(r) \/ SettleFailure(r) PROVE CompleteAt(r)'
  BY <1>7, SettleComplete, SettleFailureComplete
<1>8. ASSUME Overrun(r) \/ ClearAction(r) \/ SaveMessages(r) \/ LoseAnswer(r) PROVE CompleteAt(r)'
  <2>1. pc'[r] \in {"overrun", "saving", "done", "unsaved"}
    BY <1>1, <1>8 DEF Overrun, ClearAction, SaveMessages, LoseAnswer
  <2> QED
    BY <2>1 DEF CompleteAt
<1>9. CompleteAt(r)'
  BY <1>4, <1>5, <1>6, <1>7, <1>8, Zenon DEF Step
<1>10. executions' = executions \/ RowComplete(F, executions'[row[r]])
  <2>1. CASE DropErrorEntry(r) \/ Reopen(r)
    BY <2>1, ReopenedRow, InProgressComplete
  <2>2. CASE Settle(r) \/ SettleFailure(r)
    BY <2>2, SettleComplete, SettleFailureComplete
  <2>3. \/ executions' = executions \/ DropErrorEntry(r) \/ Reopen(r)
        \/ Settle(r) \/ SettleFailure(r)
    BY DEF Step, BeginNode, Overrun, FinishNode, StopNode, FailNode, DeliverOutput, EndOutputs,
           ClearAction, SaveMessages, LoseAnswer, shared
  <2> QED
    BY <2>1, <2>2, <2>3
<1>11. \A i \in DOMAIN executions' :
         i = row[r] \/ (i \in DOMAIN executions /\ executions'[i] = executions[i])
  BY StepRows
<1>12. RowsComplete'
  BY <1>2, <1>10, <1>11 DEF RowsComplete
<1> QED
  BY <1>9, <1>12

LEMMA NextComplete ==
    ASSUME ~StaleResume, IInv, Queued, Ordered, Deliveries, OnceInv, Single, CompleteInv,
           [Next]_vars
    PROVE  CompleteInv'
<1>1. CASE Crash \/ (\E r \in Requests : Abort(r)) \/ UNCHANGED vars
  <2>1. /\ \A r \in Requests : pc'[r] = pc[r] \/ pc'[r] = "crashed"
        /\ executions' = executions /\ chatflow' = chatflow /\ F' = F
        /\ executed' = executed /\ queue' = queue /\ waiting' = waiting
        /\ current' = current /\ children' = children /\ humanInput' = humanInput
    BY <1>1 DEF Crash, Abort, vars, shared, control, local, F
  <2>2. ASSUME Completes(F), NEW r \in Requests PROVE CompleteAt(r)'
    <3>1. CASE pc'[r] = "crashed"
      BY <3>1 DEF CompleteAt
    <3>2. CASE pc'[r] = pc[r]
      <4>1. \A p, c : Handled(r, p, c)' <=> Handled(r, p, c)
        BY <2>1, <3>2 DEF Handled, Planned, Queues, IsChild
      <4>2. AllHandled(r)' <=> AllHandled(r)
        BY <2>1, <4>1 DEF AllHandled
      <4> QED
        BY <2>1, <2>2, <3>2, <4>2 DEF CompleteInv, CompleteAt
    <3> QED
      BY <2>1, <3>1, <3>2
  <2> QED
    BY <2>1, <2>2 DEF CompleteInv, RowsComplete
<1>2. ASSUME NEW r \in Requests, Arrive(r) \/ Step(r) PROVE CompleteInv'
  <2>1. Unmoved(r) /\ F' = F
    BY <1>2, ServesOne, FlowStays DEF Unmoved
  <2>2. SUFFICES ASSUME Completes(F) PROVE RowsComplete' /\ \A q \in Requests : CompleteAt(q)'
    BY <2>1 DEF CompleteInv
  <2>3. /\ RowsComplete /\ OrderedAt(r) /\ RowsOrderly
        /\ \A q \in Requests : CompleteAt(q)
    BY <2>2 DEF CompleteInv, Ordered
  <2>4. RowsComplete' /\ CompleteAt(r)'
    BY <1>2, <2>2, <2>3, ArriveComplete, StepComplete
  <2>5. ASSUME NEW q \in Requests, q # r PROVE CompleteAt(q)'
    <3>1. /\ pc'[q] = pc[q] /\ executed'[q] = executed[q] /\ queue'[q] = queue[q]
          /\ waiting'[q] = waiting[q] /\ current'[q] = current[q] /\ children'[q] = children[q]
          /\ humanInput'[q] = humanInput[q]
      BY <2>1, <2>5 DEF Unmoved
    <3>2. \A p, c : Handled(q, p, c)' <=> Handled(q, p, c)
      BY <3>1 DEF Handled, Planned, Queues, IsChild
    <3>3. AllHandled(q)' <=> AllHandled(q)
      BY <2>1, <3>1, <3>2 DEF AllHandled
    <3> QED
      BY <2>1, <2>3, <3>1, <3>3 DEF CompleteAt
  <2> QED
    BY <2>4, <2>5
<1> QED
  BY <1>1, <1>2, Zenon DEF Next

LEMMA InitComplete == Init => CompleteInv
<1> SUFFICES ASSUME Init PROVE CompleteInv
  OBVIOUS
<1>1. executions = <<>> /\ \A r \in Requests : pc[r] = "idle"
  BY DEF Init
<1> QED
  BY <1>1 DEF CompleteInv, RowsComplete, CompleteAt

\* Only an agentflow with one starting node is ever executed.
Opened == executions # <<>> => OneStart(F)

LEMMA NextOpened == ASSUME IInv, Opened, [Next]_vars PROVE Opened'
<1>1. CASE Crash \/ (\E r \in Requests : Abort(r)) \/ UNCHANGED vars
  <2>1. executions' = executions /\ F' = F
    BY <1>1 DEF Crash, Abort, vars, shared, F
  <2> QED
    BY <2>1 DEF Opened
<1>2. ASSUME NEW r \in Requests, Arrive(r) \/ Step(r) PROVE Opened'
  <2>1. F' = F
    BY <1>2, ServesOne, FlowStays DEF Unmoved
  <2>2. CASE Step(r)
    <3>1. executions # <<>>
      BY <2>2, StepRows
    <3> QED
      BY <2>1, <3>1 DEF Opened
  <2>3. CASE Ask(r)
    <3>1. PICK start \in StartingNodes(F) : StartingNodes(F) = {start}
      BY <2>3 DEF Ask
    <3>2. OneStart(F)
      BY <3>1 DEF OneStart, StartingNodes
    <3> QED
      BY <2>1, <3>2 DEF Opened
  <2>4. CASE \/ RefuseQuestion(r)
             \/ \E named \in NamedStops : Resume(r, named) \/ RefuseHumanInput(r, named)
    <3>1. executions' = executions
      BY <2>4 DEF RefuseQuestion, Resume, RefuseHumanInput, shared
    <3> QED
      BY <2>1, <3>1 DEF Opened
  <2> QED
    BY <1>2, <2>2, <2>3, <2>4, Zenon DEF Arrive
<1> QED
  BY <1>1, <1>2, Zenon DEF Next

LEMMA InitOpened == Init => Opened
BY DEF Init, Opened

\* When no two outputs of a decision lead to the same node, a node calls all it is meant to
\* reach: no target of a taken output is ignored with an output that was not taken.
LEMMA ReachedAreCalled ==
    ASSUME NEW f \in Flow, OneOutputEach(f), NEW n, NEW taken, NEW c \in Reaches(f, n, taken)
    PROVE  c \in Callees(f, n, taken)
<1> DEFINE ignored == IF IsDecision(f, n) THEN NodesToIgnore(f, n, taken) ELSE {}
           kept == {e \in EdgesFrom(f, n) : f.edges[e].tgt \notin ignored}
<1>1. Targets(f) \in Seq(Node) /\ DOMAIN Targets(f) = DOMAIN f.edges
  BY TargetsType
<1>2. DOMAIN f.edges \in SUBSET Nat
  BY DEF Flow
<1>3. PICK e \in EdgesFrom(f, n) : c = f.edges[e].tgt /\ (IsDecision(f, n) => f.edges[e].out \in taken)
  BY DEF Reaches
<1>4. ASSUME IsDecision(f, n), c \in NodesToIgnore(f, n, taken) PROVE FALSE
  <2> DEFINE edges(i) == {x \in EdgesFrom(f, n) : f.edges[x].out = i}
  <2>1. PICK o \in Outputs(f, n) \ taken : edges(o) # {} /\ c = f.edges[First(edges(o))].tgt
    BY <1>4 DEF NodesToIgnore
  <2>2. First(edges(o)) \in edges(o)
    <3>1. edges(o) \in SUBSET Nat /\ edges(o) # {}
      BY <1>2, <2>1 DEF EdgesFrom
    <3> HIDE DEF edges
    <3>2. \E m \in edges(o) : \A x \in edges(o) : m <= x
      BY <3>1, LeastNatural
    <3> QED
      BY <3>2 DEF First
  <2>3. PICK x \in EdgesFrom(f, n) : f.edges[x].out = o /\ f.edges[x].tgt = c
    BY <2>1, <2>2
  <2>4. /\ e \in DOMAIN f.edges /\ f.edges[e].src = n
        /\ x \in DOMAIN f.edges /\ f.edges[x].src = n
    BY DEF EdgesFrom
  <2>5. f.edges[e].out = f.edges[x].out
    BY <1>3, <1>4, <2>3, <2>4 DEF OneOutputEach
  <2> QED
    BY <1>3, <1>4, <2>1, <2>3, <2>5
<1>5. e \in kept /\ Targets(f)[e] = c
  BY <1>3, <1>4 DEF EdgesFrom, Targets
<1>6. Fired(f, n, taken) = Pick(Targets(f), kept)
  BY Zenon DEF Fired
<1>7. kept \in SUBSET (DOMAIN Targets(f))
  BY <1>1 DEF EdgesFrom
<1> HIDE DEF kept
<1>8. PICK k \in DOMAIN Pick(Targets(f), kept) : Pick(Targets(f), kept)[k] = Targets(f)[e]
  BY <1>1, <1>5, <1>7, PickKeeps, Zenon
<1> QED
  BY <1>5, <1>6, <1>8 DEF Callees

\* The agentflows that can be executed have complete executions.
ExecutedFlowsComplete ==
    \A id \in DOMAIN Agentflows : OneStart(Agentflows[id]) =>
        OneOutputEach(Agentflows[id]) /\ Completes(Agentflows[id])

\* When the client answers the stop it was shown, an execution reported as FINISHED is
\* complete, over stops, resumes, errors and any number of requests side by side, in every
\* agentflow without a node that two outputs of a decision lead to, and either without
\* parallel routes and joins that wait (loops and stops then may be anywhere), or with joins
\* whose inputs always come and stops with nothing beside them (processNodeOutputs,
\* executeAgentFlow). A decision with a node at two outputs loses that node, and a stop
\* beside a parallel route loses the route.
THEOREM FinishedExecutionsComplete ==
    ~StaleResume /\ ExecutedFlowsComplete => (Spec => []FinishedIsComplete)
<1> SUFFICES ASSUME ~StaleResume, ExecutedFlowsComplete PROVE Spec => []FinishedIsComplete
  OBVIOUS
<1> DEFINE Inv == /\ IInv /\ Queued /\ Ordered /\ Deliveries /\ OnceInv /\ Single
                  /\ CompleteInv /\ Opened
<1>1. ASSUME Inv PROVE FinishedIsComplete
  <2>1. SUFFICES ASSUME NEW i \in DOMAIN executions, executions[i].state = "FINISHED",
                        NEW p \in DOMAIN executions[i].data,
                        NEW c \in Reaches(F, executions[i].data[p].node, executions[i].data[p].taken)
                 PROVE  \E q \in p + 1 .. Len(executions[i].data) :
                           /\ executions[i].data[q].node = c
                           /\ executions[i].data[q].status = "FINISHED"
    BY DEF FinishedIsComplete
  <2> DEFINE d == executions[i].data
  <2>2. F \in Flow /\ d \in Seq(Entry) /\ chatflow \in DOMAIN Agentflows
    <3>1. executions \in Seq(Row) /\ F \in Flow /\ chatflow \in DOMAIN Agentflows
      BY <1>1, FlowType DEF IInv, TypeOK
    <3>2. executions[i] \in Row
      BY <2>1, <3>1
    <3> QED
      BY <3>1, <3>2 DEF Row
  <2>3. OneStart(F)
    BY <1>1 DEF Opened
  <2>4. OneOutputEach(F) /\ Completes(F)
    BY <2>2, <2>3 DEF ExecutedFlowsComplete, F
  <2>5. CompleteBut(F, d, {}) /\ d[p].status = "FINISHED"
    BY <1>1, <2>1, <2>4 DEF CompleteInv, RowsComplete, RowComplete
  <2>6. c \in Callees(F, d[p].node, d[p].taken)
    BY <2>2, <2>4, ReachedAreCalled
  <2>7. Later(d, p, c)
    BY <2>5, <2>6 DEF CompleteBut
  <2>8. PICK q \in DOMAIN d : p < q /\ d[q].node = c /\ d[q].status = "FINISHED"
    BY <2>7 DEF Later
  <2>9. q \in p + 1 .. Len(d)
    BY <2>2, <2>8
  <2> QED
    BY <2>8, <2>9
<1>2. Init => Inv
  BY InitIInv, InitQueued, InitOrdered, InitDeliveries, InitOnce, InitSingle, InitComplete,
     InitOpened
<1>3. Inv /\ [Next]_vars => Inv'
  BY NextIInv, NextQueued, NextOrdered, NextDeliveries, NextOnce, NextSingle, NextComplete,
     NextOpened
<1> QED
  BY <1>1, <1>2, <1>3, PTL DEF Spec
==============================================================================
