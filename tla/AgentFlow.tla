------------------------------ MODULE AgentFlow ------------------------------
(***************************************************************************)
(* The Agentflow V2 executor, executeAgentFlow of utils/buildAgentflow.ts: *)
(* the requests of one chat session, the Execution rows they write and the *)
(* actions (the proceed and reject buttons) of the chat messages.          *)
(*                                                                         *)
(* A request is either a question, which opens a new execution, or a human *)
(* input, which resumes the newest execution of the session. Each request  *)
(* works on its own copy of the executed data and writes it back at the    *)
(* end; between two awaits it runs alone, so an action is the code from    *)
(* one await to the next. The loop of processNodeOutputs over the children *)
(* of a node is one action per child: the data it changes is private to    *)
(* the request.                                                            *)
(*                                                                         *)
(* Environment: at most MaxActive requests of the session are served at a  *)
(* time, the user may abort any of them, a node may fail, and the server   *)
(* may crash MaxCrashes times.                                             *)
(***************************************************************************)
EXTENDS FlowGraph

CONSTANTS Agentflows,     \* the agentflows: a function from their ids to flows
          MaxRequests,    \* bound: how many requests the session receives
          MaxActive,      \* how many requests are served at the same time
          MaxCrashes,     \* bound: how often the server crashes
          MaxIterations,  \* MAX_ITERATIONS
          MaxLoopCount,   \* maxLoopCount of every loop node
          StaleResume     \* may a client answer a stop of an older execution?

ASSUME FlowAssumption ==
    /\ NoNode \notin Node
    /\ \A id \in DOMAIN Agentflows :
          LET f == Agentflows[id] IN
          /\ f \in Flow
          /\ \A i \in DOMAIN f.edges : {f.edges[i].src, f.edges[i].tgt} \subseteq f.nodes
          /\ \A n \in f.nodes : IsDecision(f, n) => f.outs[n] > 0

ASSUME BoundAssumption ==
    /\ {MaxRequests, MaxActive, MaxCrashes, MaxIterations, MaxLoopCount} \subseteq Nat
    /\ StaleResume \in BOOLEAN

VARIABLES
    chatflow,    \* the agentflow of the session; it is not edited meanwhile
    executions,  \* the Execution rows of the session, oldest first
    messages,    \* the answers in ChatMessage, as the node their action asks about
    aborted,     \* the requests whose AbortController was signalled
    crashes,     \* how often the server has crashed
    pc,          \* where each request is
    mode,        \* "question" or "humanInput"
    row,         \* the Execution row of a request (newExecution)
    humanInput,  \* currentHumanInput.startNodeId
    executed,    \* agentFlowExecutedData
    queue,       \* nodeExecutionQueue
    waiting,     \* waitingNodes: what each waiting node has received
    loopCounts,
    iterations,
    current,     \* currentNode
    children     \* the children of the current node not yet processed

shared  == <<executions, messages>>
control == <<row, mode>>
local   == <<queue, waiting, loopCounts, iterations, current, children>>
vars == <<chatflow, executions, messages, aborted, crashes, pc, mode, row, humanInput,
          executed, queue, waiting, loopCounts, iterations, current, children>>

Requests == 1 .. MaxRequests
Active   == {"dropping", "resuming", "loop", "running", "outputs", "stopped", "failing",
             "settled", "saving"}
Ended    == {"done", "rejected", "failed", "unsaved", "overrun", "crashed"}
States   == {"INPROGRESS", "FINISHED", "ERROR", "TERMINATED", "STOPPED"}

Entry == [node : Node, status : States \ {"INPROGRESS"}, taken : SUBSET Nat]
F     == Agentflows[chatflow]

Dependencies ==
    [id \in DOMAIN Agentflows |->
        [n \in Agentflows[id].nodes |-> NodeDependencies(Agentflows[id], n)]]

-----------------------------------------------------------------------------
(* The executed data *)

Last(s)      == s[Len(s)]
\* Mutant: the filter keeps what it should drop.
OnlyOf(d, n)  == Pick(d, {i \in DOMAIN d : d[i].node = n})
Without(d, n) == Pick(d, {i \in DOMAIN d : d[i].node # n})
HasStatus(d, status) == \E i \in DOMAIN d : d[i].status = status

\* The node of the most recent STOPPED entry.
LastStopped(d) ==
    LET stops == {i \in DOMAIN d : d[i].status = "STOPPED"}
    IN  IF stops = {} THEN NoNode
        ELSE d[CHOOSE i \in stops : \A j \in stops : j <= i].node

\* ERROR after STOPPED: the error entry is dropped and the stop can be answered again.
EndsInRetry(d) ==
    /\ Len(d) >= 2
    /\ d[Len(d)].status = "ERROR"
    /\ d[Len(d) - 1].status = "STOPPED"

Retryable(e)  == e.state = "ERROR" /\ EndsInRetry(e.data)
\* Mutant: an aborted execution may be resumed.
ResumableOnceAborted(e) == e.state \in {"STOPPED", "TERMINATED"} \/ Retryable(e)
Resumable(e)  == e.state = "STOPPED" \/ Retryable(e)
ResumeData(e) == IF Retryable(e) THEN SubSeq(e.data, 1, Len(e.data) - 1) ELSE e.data

\* The state of an execution whose queue is empty or that was stopped.
FinalState(d) ==
    IF HasStatus(d, "TERMINATED") THEN "TERMINATED"
    ELSE IF HasStatus(d, "ERROR") THEN "ERROR"
    ELSE IF HasStatus(d, "STOPPED") THEN "STOPPED"
    ELSE "FINISHED"

-----------------------------------------------------------------------------
Init ==
    /\ chatflow \in DOMAIN Agentflows
    /\ executions = <<>>
    /\ messages = <<>>
    /\ aborted = {}
    /\ crashes = 0
    /\ pc = [r \in Requests |-> "idle"]
    /\ mode = [r \in Requests |-> "question"]
    /\ row = [r \in Requests |-> 0]
    /\ humanInput = [r \in Requests |-> NoNode]
    /\ executed = [r \in Requests |-> <<>>]
    /\ queue = [r \in Requests |-> <<>>]
    /\ waiting = [r \in Requests |-> [n \in Node |-> {}]]
    /\ loopCounts = [r \in Requests |-> [n \in Node |-> 0]]
    /\ iterations = [r \in Requests |-> 0]
    /\ current = [r \in Requests |-> NoNode]
    /\ children = [r \in Requests |-> <<>>]

ActiveRequests == {r \in Requests : pc[r] \in Active}

\* Requests are numbered in the order they arrive.
MayArrive(r) ==
    /\ pc[r] = "idle"
    /\ \A q \in Requests : q < r => pc[q] # "idle"
    /\ Cardinality(ActiveRequests) < MaxActive

-----------------------------------------------------------------------------
(* The start of a request *)

\* A question: addExecution, and the one starting node is queued.
Ask(r) ==
    /\ MayArrive(r)
    /\ \E start \in StartingNodes(F) :
          /\ StartingNodes(F) = {start}
          /\ queue' = [queue EXCEPT ![r] = <<start>>]
    /\ executions' = Append(executions, [state |-> "INPROGRESS", data |-> <<>>])
    /\ row' = [row EXCEPT ![r] = Len(executions) + 1]
    /\ pc' = [pc EXCEPT ![r] = "loop"]
    /\ UNCHANGED <<chatflow, messages, aborted, crashes, mode, humanInput, executed, waiting,
                   loopCounts, iterations, current, children>>

\* checkForMultipleStartNodes throws before there is an execution.
RefuseQuestion(r) ==
    /\ MayArrive(r)
    /\ \E m, n \in StartingNodes(F) : m # n
    /\ pc' = [pc EXCEPT ![r] = "rejected"]
    /\ UNCHANGED <<chatflow, shared, aborted, crashes, control, humanInput, executed, local>>

\* The stops a client may name in humanInput.startNodeId, as the chat window and the view of the
\* executions do with the buttons of a stop; NoNode when it names none. The code itself takes
\* any node of the executed data.
NamedStops ==
    LET rows == IF StaleResume THEN DOMAIN executions ELSE {Len(executions)} \ {0}
    IN  {NoNode} \cup UNION {{executions[i].data[j].node :
                                j \in {k \in DOMAIN executions[i].data :
                                          executions[i].data[k].status = "STOPPED"}} : i \in rows}

ResumeNode(d, named) == IF named = NoNode THEN LastStopped(d) ELSE named

CanResume(named) ==
    /\ executions # <<>>
    /\ Resumable(Last(executions))
    /\ LET d == ResumeData(Last(executions))
       IN  \E i \in DOMAIN d : d[i].node = ResumeNode(d, named)

\* A human input: the newest execution is read and checked; nothing is written yet.
Resume(r, named) ==
    /\ MayArrive(r)
    /\ CanResume(named)
    /\ mode' = [mode EXCEPT ![r] = "humanInput"]
    /\ row' = [row EXCEPT ![r] = Len(executions)]
    /\ executed' = [executed EXCEPT ![r] = ResumeData(Last(executions))]
    /\ humanInput' = [humanInput EXCEPT ![r] = ResumeNode(ResumeData(Last(executions)), named)]
    /\ pc' = [pc EXCEPT ![r] = IF Retryable(Last(executions)) THEN "dropping" ELSE "resuming"]
    /\ UNCHANGED <<chatflow, shared, aborted, crashes, local>>

RefuseHumanInput(r, named) ==
    /\ MayArrive(r)
    /\ ~CanResume(named)
    /\ mode' = [mode EXCEPT ![r] = "humanInput"]
    /\ pc' = [pc EXCEPT ![r] = "rejected"]
    /\ UNCHANGED <<chatflow, shared, aborted, crashes, row, humanInput, executed, local>>

\* shouldUpdateExecution: the data without the error entry is written back.
DropErrorEntry(r) ==
    /\ pc[r] = "dropping"
    /\ executions' = [executions EXCEPT ![row[r]] =
                        [state |-> "INPROGRESS", data |-> executed[r]]]
    /\ pc' = [pc EXCEPT ![r] = "resuming"]
    /\ UNCHANGED <<chatflow, messages, aborted, crashes, control, humanInput, executed, local>>

\* The execution is put back to INPROGRESS, whatever its state is by now.
Reopen(r) ==
    /\ pc[r] = "resuming"
    /\ executions' = [executions EXCEPT ![row[r]].state = "INPROGRESS"]
    /\ queue' = [queue EXCEPT ![r] = <<humanInput[r]>>]
    /\ pc' = [pc EXCEPT ![r] = "loop"]
    /\ UNCHANGED <<chatflow, messages, aborted, crashes, control, humanInput, executed, waiting,
                   loopCounts, iterations, current, children>>

-----------------------------------------------------------------------------
(* The loop over the queue *)

\* The next node is taken off the queue; an abort is noticed here.
BeginNode(r) ==
    /\ pc[r] = "loop"
    /\ queue[r] # <<>>
    /\ iterations[r] <= MaxIterations
    /\ iterations' = [iterations EXCEPT ![r] = @ + 1]
    /\ queue' = [queue EXCEPT ![r] = Tail(@)]
    /\ current' = [current EXCEPT ![r] = Head(queue[r])]
    /\ IF r \in aborted
       THEN /\ executed' = [executed EXCEPT ![r] =
                    Append(@, [node |-> Head(queue[r]), status |-> "TERMINATED", taken |-> {}])]
            /\ pc' = [pc EXCEPT ![r] = "failing"]
       ELSE /\ pc' = [pc EXCEPT ![r] = "running"]
            /\ UNCHANGED executed
    /\ UNCHANGED <<chatflow, shared, aborted, crashes, control, humanInput, waiting,
                   loopCounts, children>>

\* `Maximum iteration limit reached' is thrown outside the try: nothing is written.
Overrun(r) ==
    /\ pc[r] = "loop"
    /\ queue[r] # <<>>
    /\ iterations[r] > MaxIterations
    /\ pc' = [pc EXCEPT ![r] = "overrun"]
    /\ UNCHANGED <<chatflow, shared, aborted, crashes, control, humanInput, executed, local>>

\* The node the human answered: its former entries are dropped and the answer is used up.
IsAnswered(r) == humanInput[r] = current[r]
Kept(r) == IF IsAnswered(r) THEN Without(executed[r], current[r]) ELSE executed[r]
UsedUp(r) == IF IsAnswered(r) THEN NoNode ELSE humanInput[r]

\* A decision reports at most one fulfilled output, any other node none.
Reports(r) ==
    IF pc[r] = "running" /\ IsDecision(F, current[r])
    THEN {{}} \cup {{o} : o \in Outputs(F, current[r])} ELSE {{}}

\* The run of the node returns and its outputs are to be processed.
FinishNode(r, fulfilled) ==
    LET n == current[r]
        taken == IF IsDecision(F, n) THEN Taken(F, n, fulfilled) ELSE {}
    IN  /\ pc[r] = "running"
        /\ F.kind[n] = "human" => humanInput[r] # NoNode
        /\ executed' = [executed EXCEPT ![r] =
                Append(Kept(r), [node |-> n, status |-> "FINISHED", taken |-> taken])]
        /\ humanInput' = [humanInput EXCEPT ![r] = UsedUp(r)]
        /\ children' = [children EXCEPT ![r] = Fired(F, n, taken)]
        /\ pc' = [pc EXCEPT ![r] = "outputs"]
        /\ UNCHANGED <<chatflow, shared, aborted, crashes, control, queue, waiting, loopCounts,
                       iterations, current>>

\* A human input node without an answer stops the execution, and so may an agent that
\* wants its tool approved.
StopNode(r) ==
    LET n == current[r]
    IN  /\ pc[r] = "running"
        /\ \/ F.kind[n] = "human" /\ humanInput[r] = NoNode
           \/ F.kind[n] = "agent"
        /\ executed' = [executed EXCEPT ![r] =
                Append(Kept(r), [node |-> n, status |-> "STOPPED", taken |-> {}])]
        /\ humanInput' = [humanInput EXCEPT ![r] = UsedUp(r)]
        /\ pc' = [pc EXCEPT ![r] = "stopped"]
        /\ UNCHANGED <<chatflow, shared, aborted, crashes, control, local>>

\* The run throws. It counts as TERMINATED when the message holds `Aborted', which the
\* signal of the user or the service the node called may have caused. The outer copy of
\* the data still holds the entries of an answered node.
FailNode(r, status) ==
    /\ pc[r] = "running"
    /\ executed' = [executed EXCEPT ![r] =
            Append(@, [node |-> current[r], status |-> status, taken |-> {}])]
    /\ pc' = [pc EXCEPT ![r] = "failing"]
    /\ UNCHANGED <<chatflow, shared, aborted, crashes, control, humanInput, local>>

-----------------------------------------------------------------------------
(* processNodeOutputs *)

\* Mutant: the first input is enough.
ReadyOnFirst(n, received) == received # {}
Ready(n, received) == HasRequiredInputs(Dependencies[chatflow][n], received)

\* One child receives the result: it is queued once it has its inputs, else it waits.
DeliverOutput(r) ==
    LET child == Head(children[r])
        received == waiting[r][child] \cup {current[r]}
    IN  /\ pc[r] = "outputs"
        /\ children[r] # <<>>
        /\ children' = [children EXCEPT ![r] = Tail(@)]
        /\ IF Ready(child, received)
           THEN /\ waiting' = [waiting EXCEPT ![r][child] = {}]
                /\ queue' = [queue EXCEPT ![r] = Append(@, child)]
           ELSE /\ waiting' = [waiting EXCEPT ![r][child] = received]
                /\ UNCHANGED queue
        /\ UNCHANGED <<chatflow, shared, aborted, crashes, pc, control, humanInput, executed,
                       loopCounts, iterations, current>>

\* Mutant: the count is not checked.
LoopsForever(r) == F.kind[current[r]] = "loop"

LoopsBack(r) ==
    /\ F.kind[current[r]] = "loop"
    /\ loopCounts[r][current[r]] + 1 < MaxLoopCount

\* After the children: a loop node queues its target again, until its count is used up.
EndOutputs(r) ==
    /\ pc[r] = "outputs"
    /\ children[r] = <<>>
    /\ IF LoopsBack(r)
       THEN /\ loopCounts' = [loopCounts EXCEPT ![r][current[r]] = @ + 1]
            /\ queue' = [queue EXCEPT ![r] = Append(@, F.back[current[r]])]
            /\ humanInput' = [humanInput EXCEPT ![r] = NoNode]
       ELSE UNCHANGED <<loopCounts, queue, humanInput>>
    /\ pc' = [pc EXCEPT ![r] = "loop"]
    /\ UNCHANGED <<chatflow, shared, aborted, crashes, control, executed, waiting, iterations,
                   current, children>>

-----------------------------------------------------------------------------
(* The end of a request *)

\* The queue is empty or the execution was stopped: data and state are written.
Settle(r) ==
    /\ pc[r] = "stopped" \/ (pc[r] = "loop" /\ queue[r] = <<>>)
    /\ executions' = [executions EXCEPT ![row[r]] =
                        [state |-> FinalState(executed[r]), data |-> executed[r]]]
    /\ pc' = [pc EXCEPT ![r] = "settled"]
    /\ UNCHANGED <<chatflow, messages, aborted, crashes, control, humanInput, executed, local>>

\* Mutants: the error is thrown without writing the row; the buttons go away with it.
FailSilently(r) ==
    /\ pc[r] = "failing"
    /\ pc' = [pc EXCEPT ![r] = "failed"]
    /\ UNCHANGED <<chatflow, shared, aborted, crashes, control, humanInput, executed, local>>

FailWithoutAction(r) ==
    /\ pc[r] = "failing"
    /\ executions' = [executions EXCEPT ![row[r]] =
                        [state |-> Last(executed[r]).status, data |-> executed[r]]]
    /\ messages' = [i \in DOMAIN messages |-> NoNode]
    /\ pc' = [pc EXCEPT ![r] = "failed"]
    /\ UNCHANGED <<chatflow, aborted, crashes, control, humanInput, executed, local>>

\* The catch block: data and state are written and the error is thrown again.
SettleFailure(r) ==
    /\ pc[r] = "failing"
    /\ executions' = [executions EXCEPT ![row[r]] =
                        [state |-> Last(executed[r]).status, data |-> executed[r]]]
    /\ pc' = [pc EXCEPT ![r] = "failed"]
    /\ UNCHANGED <<chatflow, messages, aborted, crashes, control, humanInput, executed, local>>

\* A human input takes the action off the newest message that has one.
ClearAction(r) ==
    LET asking == {i \in DOMAIN messages : messages[i] # NoNode}
    IN  /\ pc[r] = "settled"
        /\ mode[r] = "humanInput"
        /\ messages' = IF asking = {} THEN messages
                       ELSE [messages EXCEPT ![CHOOSE i \in asking :
                                                  \A j \in asking : j <= i] = NoNode]
        /\ pc' = [pc EXCEPT ![r] = "saving"]
        /\ UNCHANGED <<chatflow, executions, aborted, crashes, control, humanInput, executed,
                       local>>

\* The answer is saved; it carries an action when the last entry is a stop.
SaveMessages(r) ==
    /\ pc[r] = "saving" \/ (pc[r] = "settled" /\ mode[r] = "question")
    /\ messages' = Append(messages, IF Last(executed[r]).status = "STOPPED"
                                    THEN Last(executed[r]).node ELSE NoNode)
    /\ pc' = [pc EXCEPT ![r] = "done"]
    /\ UNCHANGED <<chatflow, executions, aborted, crashes, control, humanInput, executed, local>>

\* The follow-up prompts or the save itself may throw before the answer is saved, when
\* the row is already settled.
LoseAnswer(r) ==
    /\ pc[r] = "saving" \/ (pc[r] = "settled" /\ mode[r] = "question")
    /\ pc' = [pc EXCEPT ![r] = "unsaved"]
    /\ UNCHANGED <<chatflow, shared, aborted, crashes, control, humanInput, executed, local>>

-----------------------------------------------------------------------------
(* The environment *)

\* The user aborts a request that is being served.
Abort(r) ==
    /\ pc[r] \in Active
    /\ aborted' = aborted \cup {r}
    /\ UNCHANGED <<chatflow, shared, crashes, pc, control, humanInput, executed, local>>

\* The server goes down: the requests are lost, the rows stay.
Crash ==
    /\ crashes < MaxCrashes
    /\ ActiveRequests # {}
    /\ crashes' = crashes + 1
    /\ pc' = [r \in Requests |-> IF pc[r] \in Active THEN "crashed" ELSE pc[r]]
    /\ UNCHANGED <<chatflow, shared, aborted, control, humanInput, executed, local>>

Arrive(r) ==
    \/ Ask(r)
    \/ RefuseQuestion(r)
    \/ \E named \in NamedStops : Resume(r, named) \/ RefuseHumanInput(r, named)

Step(r) ==
    \/ DropErrorEntry(r)
    \/ Reopen(r)
    \/ BeginNode(r)
    \/ Overrun(r)
    \/ \E fulfilled \in Reports(r) : FinishNode(r, fulfilled)
    \/ StopNode(r)
    \/ \E status \in {"ERROR", "TERMINATED"} : FailNode(r, status)
    \/ DeliverOutput(r)
    \/ EndOutputs(r)
    \/ Settle(r)
    \/ SettleFailure(r)
    \/ ClearAction(r)
    \/ SaveMessages(r)
    \/ LoseAnswer(r)

Next == Crash \/ \E r \in Requests : Arrive(r) \/ Step(r) \/ Abort(r)

Spec == Init /\ [][Next]_vars

\* The event loop goes on with every request and the run of a node returns or throws.
FairSpec == Spec /\ \A r \in Requests : WF_vars(Step(r))
-----------------------------------------------------------------------------
(* Properties *)

Row == [state : States, data : Seq(Entry)]

TypeOK ==
    /\ chatflow \in DOMAIN Agentflows
    /\ executions \in Seq(Row)
    /\ messages \in Seq(Node \cup {NoNode})
    /\ aborted \subseteq Requests
    /\ crashes \in 0 .. MaxCrashes
    /\ pc \in [Requests -> {"idle"} \cup Active \cup Ended]
    /\ mode \in [Requests -> {"question", "humanInput"}]
    /\ row \in [Requests -> 0 .. Len(executions)]
    /\ humanInput \in [Requests -> Node \cup {NoNode}]
    /\ executed \in [Requests -> Seq(Entry)]
    /\ queue \in [Requests -> Seq(Node)]
    /\ waiting \in [Requests -> [Node -> SUBSET Node]]
    /\ loopCounts \in [Requests -> [Node -> 0 .. MaxLoopCount]]
    /\ iterations \in [Requests -> 0 .. MaxIterations + 1]
    /\ current \in [Requests -> Node \cup {NoNode}]
    /\ children \in [Requests -> Seq(Node)]

Finished(d, n) == \E i \in DOMAIN d : d[i].node = n /\ d[i].status = "FINISHED"

\* Whether the executed data d reach the node n: a finished node took an edge to it.
Reached(d, n) ==
    \E i \in DOMAIN d : d[i].status = "FINISHED" /\ n \in Reaches(F, d[i].node, d[i].taken)

LoopedBackTo(d, n) ==
    \E i \in DOMAIN d : F.kind[d[i].node] = "loop" /\ F.back[d[i].node] = n

\* A node that runs is the start of the flow, the node the human answered, the target of
\* a loop, or a child on a branch that was taken: determineNodesToIgnore keeps the
\* branches of unfulfilled conditions from running, over joins, loops and resumes.
OnlyTakenBranchesRun ==
    \A r \in Requests : pc[r] = "running" =>
        \/ current[r] \in StartingNodes(F) \cup {humanInput[r]}
        \/ LoopedBackTo(executed[r], current[r])
        \/ Reached(executed[r], current[r])

\* A node that runs has the results of all the inputs it requires and of one of each
\* conditional group, also when the request resumed an execution and the waiting nodes
\* of the request before it are gone (processNodeOutputs, hasReceivedRequiredInputs).
RunsAfterItsInputs ==
    \A r \in Requests : pc[r] = "running" =>
        \/ current[r] = humanInput[r]
        \/ LoopedBackTo(executed[r], current[r])
        \/ HasRequiredInputs(NodeDependencies(F, current[r]),
                             {n \in Node : Finished(executed[r], n)})

\* An execution reported as FINISHED is complete: every child on a taken branch of every
\* node that finished ran after it, across all the stops and resumes of the execution.
FinishedIsComplete ==
    \A i \in DOMAIN executions : executions[i].state = "FINISHED" =>
        LET d == executions[i].data IN
        \A p \in DOMAIN d : \A c \in Reaches(F, d[p].node, d[p].taken) :
            \E q \in p + 1 .. Len(d) : d[q].node = c /\ d[q].status = "FINISHED"

\* Without a loop node no node finishes twice in one execution: a join runs once for all
\* its inputs and a resume does not repeat what was done before the stop.
EachNodeFinishesOnce ==
    (\A n \in F.nodes : F.kind[n] # "loop") =>
        \A i \in DOMAIN executions : \A p, q \in DOMAIN executions[i].data :
            /\ executions[i].data[p].node = executions[i].data[q].node
            /\ executions[i].data[p].status = "FINISHED"
            /\ executions[i].data[q].status = "FINISHED"
            => p = q

\* No execution is left INPROGRESS by a request that has answered, with a result or
\* with an error: the request that has it in hand is still served, or was lost in a
\* crash or at the iteration limit (both leave the row as it is).
InProgressIsServed ==
    \A i \in DOMAIN executions : executions[i].state = "INPROGRESS" =>
        \E r \in Requests : row[r] = i /\ pc[r] \in Active \cup {"crashed", "overrun"}

\* While the session is quiet, an execution that can be resumed has its buttons, unless
\* one of its answers was lost: some answer carries the action of the node a resume would
\* start from, also after a resume that failed and after several stops.
ResumableHasAction ==
    /\ ActiveRequests = {}
    /\ executions # <<>>
    /\ Resumable(Last(executions))
    /\ \A r \in Requests : row[r] = Len(executions) => pc[r] \notin {"unsaved", "crashed"}
    => \E i \in DOMAIN messages :
            /\ messages[i] # NoNode
            /\ messages[i] = LastStopped(Last(executions).data)

\* A finished step stays in its execution row: an update only ever drops the entries of
\* the node the human was asked about, whose run is repeated.
FinishedWorkIsKept ==
    [][\A i \in DOMAIN executions : \A p \in DOMAIN executions[i].data :
          LET e == executions[i].data[p] IN
          e.status = "FINISHED" /\ F.kind[e.node] \notin {"human", "agent"}
          => Finished(executions'[i].data, e.node)]_executions

\* When the client waits for each answer, the executor implements the lifecycle of
\* executions: what is FINISHED, TERMINATED or failed elsewhere is never run again, and
\* an older execution is never taken up after a newer one was opened.
LifecycleState(e) == IF Retryable(e) THEN "RETRY" ELSE e.state

Lifecycle == INSTANCE ExecutionLifecycle
                WITH states <- [i \in DOMAIN executions |-> LifecycleState(executions[i])]

ImplementsLifecycle == Lifecycle!LifecycleSpec

\* Does not hold: a node that both outputs of a decision lead to is ignored with the
\* output that was not taken.
\* A decision lets at least one branch execute ("mark the last condition as fulfilled so
\* at least one branch executes"): when edges leave the output it took, a child of it runs
\* after it in every execution that finishes.
SomeBranchRuns ==
    \A i \in DOMAIN executions : executions[i].state = "FINISHED" =>
        LET d == executions[i].data IN
        \A p \in DOMAIN d :
            IsDecision(F, d[p].node) /\ Reaches(F, d[p].node, d[p].taken) # {}
            => \E q \in p + 1 .. Len(d) : d[q].node \in Reaches(F, d[p].node, d[p].taken)

\* A human input resumes an execution that waits ("Only executions in 'STOPPED' state (or
\* 'ERROR' after 'STOPPED') can be resumed"): one that is FINISHED or TERMINATED never
\* becomes INPROGRESS again.
FinishedIsNotReopened ==
    [][\A i \in DOMAIN executions :
          executions[i].state \in {"FINISHED", "TERMINATED"}
          => executions'[i].state # "INPROGRESS"]_executions

\* Every request that was accepted ends with an answer or an error, or in a crash, and not
\* at the iteration limit: loops run out of their own count and joins do not hold up the
\* queue.
EveryRequestEnds ==
    \A r \in Requests : pc[r] \in Active ~> pc[r] \in Ended \ {"overrun"}
==============================================================================
