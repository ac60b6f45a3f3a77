---------------------------- MODULE Predictions ----------------------------
(***************************************************************************)
(* Prediction requests, from the HTTP handler to the end of its event      *)
(* stream: utilBuildChatflow (utils/buildChatflow.ts) and its handler      *)
(* (controllers/internal-predictions), the abort controllers               *)
(* (AbortControllerPool.ts, services/chat-messages), the event streams     *)
(* (utils/SSEStreamer.ts, queue/RedisEventSubscriber.ts), the prediction   *)
(* queue with its workers (queue/PredictionQueue.ts, commands/worker.ts)   *)
(* and the counter of predictions (utils/quotaUsage.ts).                   *)
(*                                                                         *)
(* All requests are streamed requests of one flow of one organization, so  *)
(* a chat stands for the key of its abort controller (flow and chat) and   *)
(* for the key of its stream (the chat).  A request names its chat, as the *)
(* chat window always does and the handler of outside requests sees to     *)
(* (controllers/predictions); an internal one that does not would stream   *)
(* under the key `undefined', line 34, and have its controller under a new *)
(* one, buildChatflow.ts:1005, which is left out.                          *)
(* What a flow does is FlowGraph and AgentFlow; here it emits events and   *)
(* ends.                                                                   *)
(***************************************************************************)
EXTENDS Integers, Sequences, FiniteSets

CONSTANTS
  Requests,     \* HTTP requests for a prediction
  Chats,        \* chats of the flow
  ChatOf,       \* the chat of a request
  Workers,      \* worker processes of the prediction queue (queue mode)
  Server,       \* the server process
  None,
  Limit,        \* predictions of the subscription in a period, -1: no limit
  MaxEvents,    \* bound: events on their way from the workers to the server
  MaxIncidents  \* bound: aborts asked, workers that crash, counters that expire

ASSUME RequestsAssumption == IsFiniteSet(Requests) /\ None \notin Requests
ASSUME ChatOfAssumption   == ChatOf \in [Requests -> Chats]
ASSUME ServerAssumption   == Server \notin Workers /\ None \notin Workers \cup {Server}
ASSUME LimitAssumption    == Limit \in Nat \cup {-1}
ASSUME BoundsAssumption   == MaxEvents \in Nat /\ MaxIncidents \in Nat

VARIABLES
  mode,      \* MODE of the process environment: "main" or "queue"
  stage,     \* where the handler of a request, or its job, stands
  at,        \* the process that executes the flow of a request, or None
  stalls,    \* jobs that were taken back from a crashed worker
  pool,      \* AbortControllerPool of each process: the request a chat's controller is of
  aborted,   \* requests in execution whose controller has aborted
  orders,    \* abort events of the queue that a worker has not handled
  clients,   \* SSEStreamer.clients: the request whose response a chat streams to
  channel,   \* events published in Redis and not received by the server
  usage,     \* the cached counter of predictions, 0 when there is none
  seen,      \* the counter as a request has read it
  incidents, \* aborts, crashes and renewals so far
  got,       \* history: the requests whose events were written to a response
  ended,     \* history: the responses that were ended
  counted,   \* history: requests counted in this period
  shared,    \* history: requests open together with another one of their chat
  crowded,   \* history: two requests were open together in this period
  raced      \* history: a counter was read while another request was to write it

reqVars   == <<stage, at, stalls>>
abortVars == <<pool, aborted, orders>>
sseVars   == <<clients, channel, got, ended>>
quotaVars == <<usage, seen, counted, raced>>
openVars  == <<shared, crowded>>
vars == <<mode, reqVars, abortVars, sseVars, quotaVars, openVars, incidents>>

Processes == Workers \cup {Server}

Stages == {"new", "checking", "checked", "queued", "running", "returned", "broken",
           "counting", "writing", "done", "failed"}

\* A request is open from its handler's start to the end of the handler.
Open(r) == stage[r] \notin {"new", "done", "failed"}
OpenWith(r) == {q \in Requests \ {r} : Open(q) /\ ChatOf[q] = ChatOf[r]}

TypeOK ==
  /\ mode \in {"main", "queue"}
  /\ stage \in [Requests -> Stages]
  /\ at \in [Requests -> Processes \cup {None}]
  /\ stalls \in [Requests -> {0, 1}]
  /\ pool \in [Processes -> [Chats -> Requests \cup {None}]]
  /\ aborted \subseteq Requests
  /\ orders \in [Workers -> SUBSET Chats]
  /\ clients \in [Chats -> Requests \cup {None}]
  /\ channel \in Seq(Requests)
  /\ usage \in Int
  /\ seen \in [Requests -> Int]
  /\ incidents \in 0 .. MaxIncidents
  /\ got \in [Requests -> SUBSET Requests]
  /\ ended \subseteq Requests
  /\ counted \subseteq Requests
  /\ shared \subseteq Requests
  /\ crowded \in BOOLEAN
  /\ raced \in BOOLEAN

Init ==
  /\ mode \in {"main", "queue"}
  /\ stage = [r \in Requests |-> "new"]
  /\ at = [r \in Requests |-> None]
  /\ stalls = [r \in Requests |-> 0]
  /\ pool = [p \in Processes |-> [c \in Chats |-> None]]
  /\ aborted = {}
  /\ orders = [w \in Workers |-> {}]
  /\ clients = [c \in Chats |-> None]
  /\ channel = <<>>
  /\ usage = 0
  /\ seen = [r \in Requests |-> 0]
  /\ incidents = 0
  /\ got = [r \in Requests |-> {}]
  /\ ended = {}
  /\ counted = {}
  /\ shared = {}
  /\ crowded = FALSE
  /\ raced = FALSE

Goto(r, s) == stage' = [stage EXCEPT ![r] = s]

-----------------------------------------------------------------------------
(* The pool of abort controllers and the streams. *)

\* Mutant: a controller that is in the pool is kept.
AddOnce(p, r) == pool' = [pool EXCEPT ![p][ChatOf[r]] = IF @ = None THEN r ELSE @]

Add(p, r)    == pool' = [pool EXCEPT ![p][ChatOf[r]] = r]
Remove(p, c) == pool' = [pool EXCEPT ![p][c] = None]

\* AbortControllerPool.abort: a chat without a controller is passed over.
AbortIn(p, c) ==
  /\ aborted' = aborted \cup ({pool[p][c]} \ {None})
  /\ Remove(p, c)

\* An event of r is written to the response its chat streams to, if there is one.
WriteEvent(r) ==
  LET to == clients[ChatOf[r]] IN
  got' = IF to = None THEN got ELSE [got EXCEPT ![to] = @ \cup {r}]

\* SSEStreamer.removeClient: the response that the chat streams to is ended.
RemoveClient(c) ==
  /\ ended' = ended \cup ({clients[c]} \ {None})
  /\ clients' = [clients EXCEPT ![c] = None]

\* The end of the handler: the result or the error is written to the stream of the
\* chat, and the finally clause ends the response.
Respond(r) == WriteEvent(r) /\ RemoveClient(ChatOf[r])

-----------------------------------------------------------------------------
(* The handler of a request in the server. *)

\* createAndStreamInternalPrediction: the response becomes the client of the chat.
Ask(r) ==
  /\ stage[r] = "new"
  /\ Goto(r, "checking")
  /\ clients' = [clients EXCEPT ![ChatOf[r]] = r]
  /\ shared' = IF OpenWith(r) = {} THEN shared ELSE shared \cup OpenWith(r) \cup {r}
  /\ crowded' = (crowded \/ \E q \in Requests : Open(q))
  /\ UNCHANGED <<mode, at, stalls, abortVars, channel, got, ended, quotaVars, incidents>>

\* checkPredictions reads the counter, then awaits the quotas.
ReadUsage(r) ==
  /\ stage[r] = "checking"
  /\ Goto(r, "checked")
  /\ seen' = [seen EXCEPT ![r] = usage]
  /\ UNCHANGED <<mode, at, stalls, abortVars, sseVars, usage, counted, raced, openVars, incidents>>

\* What the request has read is a local variable, reset here when it is of no more use.
Forget(r) == seen' = [seen EXCEPT ![r] = 0]

\* Mutant: the comparison of checkUsageLimit.
RefusedAbove(r) == Limit # -1 /\ seen[r] > Limit

Refused(r) == Limit # -1 /\ seen[r] >= Limit

\* The request is within its limit.  In main mode the flow starts here, with a
\* controller in the pool; in queue mode a job is added.
Proceed(r) ==
  /\ stage[r] = "checked"
  /\ ~Refused(r)
  /\ IF mode = "queue"
       THEN Goto(r, "queued") /\ UNCHANGED <<at, pool>>
       ELSE Goto(r, "running") /\ at' = [at EXCEPT ![r] = Server] /\ Add(Server, r)
  /\ Forget(r)
  /\ UNCHANGED <<mode, stalls, aborted, orders, sseVars, usage, counted, raced, openVars, incidents>>

\* Mutant: the response is not ended in a finally clause.
GiveUpOpen(r) ==
  /\ Goto(r, "failed")
  /\ at' = [at EXCEPT ![r] = None]
  /\ Remove(Server, ChatOf[r])
  /\ WriteEvent(r)
  /\ aborted' = aborted \ {r}
  /\ Forget(r)
  /\ UNCHANGED <<mode, stalls, orders, clients, ended, channel, usage, counted, raced, openVars, incidents>>

\* The catch clauses of utilBuildChatflow and of the handler: the controller is
\* removed (not when the flow was not found, which is outside of the try), the error
\* is written and the response ended.
GiveUp(r) ==
  /\ Goto(r, "failed")
  /\ at' = [at EXCEPT ![r] = None]
  /\ Remove(Server, ChatOf[r]) \/ (stage[r] = "checking" /\ UNCHANGED pool)
  /\ Respond(r)
  /\ aborted' = aborted \ {r}
  /\ Forget(r)
  /\ UNCHANGED <<mode, stalls, orders, channel, usage, counted, raced, openVars, incidents>>

\* A request fails when it is not valid, over its limit, when the flow or the job
\* ends with an error, and when the quotas, the counter or the queue cannot be reached.
Fail(r) ==
  /\ \/ stage[r] \in {"checking", "checked", "broken", "counting", "writing"}
     \/ stage[r] = "running" /\ mode = "main"
  /\ GiveUp(r)

\* The flow has ended (main mode) or its result has come (queue mode): its
\* controller is removed from the pool of the server.
Return(r) ==
  /\ \/ stage[r] = "running" /\ mode = "main"
     \/ stage[r] = "returned"
  /\ Goto(r, "counting")
  /\ at' = [at EXCEPT ![r] = None]
  /\ aborted' = aborted \ {r}
  /\ Remove(Server, ChatOf[r])
  /\ UNCHANGED <<mode, stalls, orders, sseVars, quotaVars, openVars, incidents>>

\* updatePredictionsUsage reads the counter, then awaits its time to live.
ReadCount(r) ==
  /\ stage[r] = "counting"
  /\ Goto(r, "writing")
  /\ seen' = [seen EXCEPT ![r] = usage]
  /\ raced' = (raced \/ \E q \in Requests : stage[q] = "writing")
  /\ UNCHANGED <<mode, at, stalls, abortVars, sseVars, usage, counted, openVars, incidents>>

\* The counter after one more prediction; it stays at the limit.
Counted(n) == IF n = 0 THEN 1 ELSE IF n + 1 > Limit THEN Limit ELSE n + 1

\* The counter is written, and the handler responds.  The code does not wait for the
\* write: in memory or over the one connection to Redis it comes before later reads.
Answer(r) ==
  /\ stage[r] = "writing"
  /\ Goto(r, "done")
  /\ usage' = Counted(seen[r])
  /\ counted' = counted \cup {r}
  /\ Respond(r)
  /\ Forget(r)
  /\ UNCHANGED <<mode, at, stalls, abortVars, channel, raced, openVars, incidents>>

-----------------------------------------------------------------------------
(* The flow, in the server or in a worker. *)

\* Mutant: what a node of a failed flow has left running still streams.
EmitStray(r) ==
  /\ stage[r] \in {"running", "failed"}
  /\ mode = "main"
  /\ WriteEvent(r)
  /\ UNCHANGED <<mode, reqVars, abortVars, clients, channel, ended, quotaVars, openVars, incidents>>

\* An event of the flow: written by the server, or published by the worker.
Emit(r) ==
  /\ stage[r] = "running"
  /\ IF mode = "main"
       THEN WriteEvent(r) /\ UNCHANGED channel
       ELSE /\ Len(channel) < MaxEvents
            /\ channel' = Append(channel, r)
            /\ UNCHANGED got
  /\ UNCHANGED <<mode, reqVars, abortVars, clients, ended, quotaVars, openVars, incidents>>

\* RedisEventSubscriber.handleEvent, in the server.
Deliver ==
  /\ channel # <<>>
  /\ WriteEvent(Head(channel))
  /\ channel' = Tail(channel)
  /\ UNCHANGED <<mode, reqVars, abortVars, clients, ended, quotaVars, openVars, incidents>>

\* processJob: the worker adds a controller to its pool, and never removes it.
Take(w, r) ==
  /\ stage[r] = "queued"
  /\ Goto(r, "running")
  /\ at' = [at EXCEPT ![r] = w]
  /\ Add(w, r)
  /\ UNCHANGED <<mode, stalls, aborted, orders, sseVars, quotaVars, openVars, incidents>>

\* The job completes with the flow's result, or fails with its error.
EndJob(r) ==
  /\ mode = "queue"
  /\ stage[r] = "running"
  /\ \E s \in {"returned", "broken"} : Goto(r, s)
  /\ at' = [at EXCEPT ![r] = None]
  /\ aborted' = aborted \ {r}
  /\ UNCHANGED <<mode, stalls, pool, orders, sseVars, quotaVars, openVars, incidents>>

-----------------------------------------------------------------------------
(* Aborts, crashes and the end of a period. *)

Incident == incidents < MaxIncidents /\ incidents' = incidents + 1

\* abortChatMessage: at once in main mode, an event to every worker in queue mode.
Abort(c) ==
  /\ Incident
  /\ IF mode = "main"
       THEN AbortIn(Server, c) /\ UNCHANGED orders
       ELSE orders' = [w \in Workers |-> orders[w] \cup {c}] /\ UNCHANGED <<pool, aborted>>
  /\ UNCHANGED <<mode, reqVars, sseVars, quotaVars, openVars>>

\* A worker's listener for the abort event.
ObeyAbort(w, c) ==
  /\ c \in orders[w]
  /\ orders' = [orders EXCEPT ![w] = @ \ {c}]
  /\ AbortIn(w, c)
  /\ UNCHANGED <<mode, reqVars, sseVars, quotaVars, openVars, incidents>>

\* A worker process dies and starts again with nothing in memory.  The queue gives
\* a stalled job to a worker once more and fails it the second time.
Crash(w) ==
  /\ mode = "queue"
  /\ Incident
  /\ LET stalled == {r \in Requests : at[r] = w} IN
       /\ stage' = [r \in Requests |-> IF r \notin stalled THEN stage[r]
                                       ELSE IF stalls[r] = 0 THEN "queued" ELSE "broken"]
       /\ stalls' = [r \in Requests |-> IF r \in stalled THEN 1 ELSE stalls[r]]
       /\ at' = [r \in Requests |-> IF r \in stalled THEN None ELSE at[r]]
       /\ aborted' = aborted \ stalled
  /\ pool' = [pool EXCEPT ![w] = [c \in Chats |-> None]]
  /\ orders' = [orders EXCEPT ![w] = {}]
  /\ UNCHANGED <<mode, sseVars, quotaVars, openVars>>

\* The counter expires: a new period begins.
Renew ==
  /\ usage # 0
  /\ Incident
  /\ usage' = 0
  /\ counted' = {}
  /\ raced' = (\E r \in Requests : stage[r] = "writing")
  /\ crowded' = (\E r, q \in Requests : r # q /\ Open(r) /\ Open(q))
  /\ UNCHANGED <<mode, reqVars, abortVars, sseVars, seen, shared>>

Handle(r) == ReadUsage(r) \/ Proceed(r) \/ Fail(r) \/ Return(r) \/ ReadCount(r) \/ Answer(r)

Next ==
  \/ \E r \in Requests : \/ Ask(r) \/ ReadUsage(r) \/ Proceed(r) \/ Fail(r) \/ Return(r)
                         \/ ReadCount(r) \/ Answer(r) \/ Emit(r) \/ EndJob(r)
                         \/ \E w \in Workers : Take(w, r)
  \/ Deliver
  \/ \E c \in Chats : Abort(c) \/ \E w \in Workers : ObeyAbort(w, c)
  \/ \E w \in Workers : Crash(w)
  \/ Renew

\* The handlers go on while their promises settle, a flow ends, a queue with a
\* worker gives it the jobs, and Redis delivers.
Fairness ==
  /\ \A r \in Requests : /\ WF_vars(Handle(r))
                         /\ WF_vars(EndJob(r))
                         /\ WF_vars(\E w \in Workers : Take(w, r))
  /\ WF_vars(Deliver)
  /\ \A w \in Workers, c \in Chats : WF_vars(ObeyAbort(w, c))

Spec == Init /\ [][Next]_vars
LiveSpec == Spec /\ Fairness

-----------------------------------------------------------------------------
(* Properties. *)

\* A flow in execution can be stopped: unless two requests of its chat were open
\* together, its controller is in the pool of the process that executes it, or has
\* aborted already.  A controller that a failed request, a late result or a crash
\* takes away would leave a flow that no abort reaches.
Stoppable ==
  \A r \in Requests \ shared :
    stage[r] = "running" => at[r] \in Processes /\ (pool[at[r]][ChatOf[r]] = r \/ r \in aborted)

\* A response receives the events of its own chat only; in main mode, and unless two
\* requests of the chat were open together, only those of its own flow.  In queue
\* mode the events of a flow may come after its result.
OwnStream ==
  \A r \in Requests : \A q \in got[r] :
    /\ ChatOf[q] = ChatOf[r]
    /\ mode = "main" /\ r \notin shared => q = r

\* The counter of predictions is right unless two updates overlapped, and the limit
\* holds unless two requests were open together.
QuotaHolds ==
  Limit # -1 =>
    /\ ~raced => usage = IF Cardinality(counted) < Limit THEN Cardinality(counted) ELSE Limit
    /\ ~crowded => Cardinality(counted) <= Limit

\* Every request is answered, with its result or an error, and its response ended,
\* through failed flows and crashed workers, unless another request of its chat took
\* the stream of the chat from it.
Answered == \A r \in Requests : stage[r] = "checking" ~> r \in ended \cup shared

=============================================================================
