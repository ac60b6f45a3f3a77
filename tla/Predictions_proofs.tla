------------------------- MODULE Predictions_proofs -------------------------
(***************************************************************************)
(* Theorems about Predictions, for any requests, chats and workers and any *)
(* limit: type correctness, that a flow in execution can be stopped, that  *)
(* a response receives only the events that are its own, and that the      *)
(* quota holds.                                                            *)
(***************************************************************************)
EXTENDS Predictions, FiniteSetTheorems, TLAPS

-----------------------------------------------------------------------------
(* Type correctness. *)

USE DEF Stages, Processes

LEMMA TypeInit == Init => TypeOK
<1> SUFFICES ASSUME Init PROVE TypeOK
  OBVIOUS
<1> USE BoundsAssumption DEF Init
<1>1. /\ mode \in {"main", "queue"}
      /\ stage \in [Requests -> Stages]
      /\ at \in [Requests -> Processes \cup {None}]
      /\ stalls \in [Requests -> {0, 1}]
  OBVIOUS
<1>2. pool \in [Processes -> [Chats -> Requests \cup {None}]]
  <2>1. [c \in Chats |-> None] \in [Chats -> Requests \cup {None}]
    OBVIOUS
  <2>2. QED
    BY <2>1
<1>3. /\ aborted \subseteq Requests
      /\ orders \in [Workers -> SUBSET Chats]
      /\ clients \in [Chats -> Requests \cup {None}]
      /\ channel \in Seq(Requests)
  OBVIOUS
<1>4. /\ usage \in Int
      /\ seen \in [Requests -> Int]
      /\ incidents \in 0 .. MaxIncidents
      /\ got \in [Requests -> SUBSET Requests]
  OBVIOUS
<1>5. /\ ended \subseteq Requests
      /\ counted \subseteq Requests
      /\ shared \subseteq Requests
      /\ crowded \in BOOLEAN
      /\ raced \in BOOLEAN
  OBVIOUS
<1>6. QED
  BY <1>1, <1>2, <1>3, <1>4, <1>5 DEF TypeOK

\* The types of what the helpers change.
PoolType == pool \in [Processes -> [Chats -> Requests \cup {None}]]

LEMMA RemoveKeepsType ==
  ASSUME PoolType, NEW p, NEW c, Remove(p, c)
  PROVE  PoolType'
  BY DEF PoolType, Remove

LEMMA AddKeepsType ==
  ASSUME PoolType, NEW p, NEW r \in Requests, Add(p, r)
  PROVE  PoolType'
  BY DEF PoolType, Add

LEMMA WriteKeepsType ==
  ASSUME TypeOK, NEW r \in Requests, WriteEvent(r)
  PROVE  got' \in [Requests -> SUBSET Requests]
  BY DEF TypeOK, WriteEvent

LEMMA RemoveClientKeepsType ==
  ASSUME TypeOK, NEW c \in Chats, RemoveClient(c)
  PROVE  /\ clients' \in [Chats -> Requests \cup {None}]
         /\ ended' \subseteq Requests
  BY DEF TypeOK, RemoveClient

LEMMA AbortInKeepsType ==
  ASSUME TypeOK, NEW p \in Processes, NEW c \in Chats, AbortIn(p, c)
  PROVE  PoolType' /\ aborted' \subseteq Requests
<1>1. pool[p][c] \in Requests \cup {None}
  BY DEF TypeOK
<1>2. QED
  BY <1>1, RemoveKeepsType DEF TypeOK, AbortIn, PoolType

LEMMA TypeHandler ==
  ASSUME TypeOK, NEW r \in Requests,
         Ask(r) \/ ReadUsage(r) \/ Proceed(r) \/ Fail(r) \/ Return(r) \/ ReadCount(r) \/ Answer(r)
  PROVE  TypeOK'
<1> USE ChatOfAssumption, RequestsAssumption, ServerAssumption
<1>1. CASE Ask(r)
  BY <1>1 DEF TypeOK, Ask, Goto, OpenWith, abortVars, quotaVars
<1>2. CASE ReadUsage(r)
  BY <1>2 DEF TypeOK, ReadUsage, Goto, abortVars, sseVars, openVars
<1>3. CASE Proceed(r)
  <2>1. PoolType'
    BY <1>3, AddKeepsType DEF TypeOK, PoolType, Proceed
  <2>2. /\ stage' \in [Requests -> Stages]
        /\ at' \in [Requests -> Processes \cup {None}]
        /\ seen' \in [Requests -> Int]
    <3>1. seen' \in [Requests -> Int]
      BY <1>3 DEF TypeOK, Proceed, Forget
    <3>2. CASE mode = "queue"
      BY <1>3, <3>1, <3>2 DEF TypeOK, Proceed, Goto
    <3>3. CASE mode # "queue"
      BY <1>3, <3>1, <3>3 DEF TypeOK, Proceed, Goto
    <3>4. QED
      BY <3>2, <3>3
  <2>3. QED
    BY <1>3, <2>1, <2>2 DEF TypeOK, PoolType, Proceed, sseVars, openVars
<1>4. CASE Fail(r)
  <2>1. /\ PoolType'
        /\ clients' \in [Chats -> Requests \cup {None}] /\ ended' \subseteq Requests
        /\ got' \in [Requests -> SUBSET Requests]
    BY <1>4, RemoveKeepsType, RemoveClientKeepsType, WriteKeepsType DEF TypeOK, PoolType, Fail, GiveUp, Respond
  <2>2. /\ stage' \in [Requests -> Stages]
        /\ at' \in [Requests -> Processes \cup {None}]
        /\ aborted' \subseteq Requests
        /\ seen' \in [Requests -> Int]
    BY <1>4 DEF TypeOK, Fail, GiveUp, Respond, Goto, Forget
  <2>3. QED
    BY <1>4, <2>1, <2>2 DEF TypeOK, PoolType, Fail, GiveUp, Respond, openVars
<1>5. CASE Return(r)
  BY <1>5 DEF TypeOK, Return, Goto, Remove, sseVars, quotaVars, openVars
<1>6. CASE ReadCount(r)
  BY <1>6 DEF TypeOK, ReadCount, Goto, abortVars, sseVars, openVars
<1>7. CASE Answer(r)
  BY <1>7, LimitAssumption, WriteKeepsType, RemoveClientKeepsType
  DEF TypeOK, Answer, Respond, Goto, Counted, Forget, abortVars, openVars
<1>8. QED
  BY <1>1, <1>2, <1>3, <1>4, <1>5, <1>6, <1>7

LEMMA TypeFlow ==
  ASSUME TypeOK, NEW r \in Requests,
         Emit(r) \/ EndJob(r) \/ Deliver \/ \E w \in Workers : Take(w, r)
  PROVE  TypeOK'
<1> USE ChatOfAssumption, RequestsAssumption
<1>1. CASE Emit(r)
  <2>1. got' \in [Requests -> SUBSET Requests] /\ channel' \in Seq(Requests)
    <3>1. CASE mode = "main"
      BY <1>1, <3>1, WriteKeepsType DEF TypeOK, Emit
    <3>2. CASE mode # "main"
      <4>1. channel \in Seq(Requests) /\ got \in [Requests -> SUBSET Requests]
        BY DEF TypeOK
      <4>2. channel' = Append(channel, r) /\ got' = got
        BY <1>1, <3>2 DEF Emit
      <4>3. Append(channel, r) \in Seq(Requests)
        BY <4>1
      <4>4. QED
        BY <4>1, <4>2, <4>3
    <3>3. QED
      BY <3>1, <3>2
  <2>2. QED
    BY <1>1, <2>1 DEF TypeOK, Emit, reqVars, abortVars, quotaVars, openVars
<1>2. CASE EndJob(r)
  BY <1>2 DEF TypeOK, EndJob, Goto, sseVars, quotaVars, openVars
<1>3. CASE Deliver
  <2>1. Head(channel) \in Requests /\ Tail(channel) \in Seq(Requests)
    BY <1>3 DEF TypeOK, Deliver
  <2>2. QED
    BY <1>3, <2>1, WriteKeepsType DEF TypeOK, Deliver, reqVars, abortVars, quotaVars, openVars
<1>4. ASSUME NEW w \in Workers, Take(w, r) PROVE TypeOK'
  <2>1. PoolType'
    BY <1>4, AddKeepsType DEF TypeOK, PoolType, Take
  <2>2. QED
    BY <1>4, <2>1 DEF TypeOK, PoolType, Take, Goto, sseVars, quotaVars, openVars
<1>5. QED
  BY <1>1, <1>2, <1>3, <1>4

LEMMA TypeIncident ==
  ASSUME TypeOK,
         \/ \E c \in Chats : Abort(c) \/ \E w \in Workers : ObeyAbort(w, c)
         \/ \E w \in Workers : Crash(w)
         \/ Renew
  PROVE  TypeOK'
<1> USE RequestsAssumption, BoundsAssumption
<1>1. ASSUME NEW c \in Chats, Abort(c) PROVE TypeOK'
  <2>1. PoolType' /\ aborted' \subseteq Requests
    BY <1>1, AbortInKeepsType DEF TypeOK, PoolType, Abort
  <2>2. orders' \in [Workers -> SUBSET Chats] /\ incidents' \in 0 .. MaxIncidents
    BY <1>1 DEF TypeOK, Abort, Incident
  <2>3. QED
    BY <1>1, <2>1, <2>2 DEF TypeOK, PoolType, Abort, reqVars, sseVars, quotaVars, openVars
<1>2. ASSUME NEW c \in Chats, NEW w \in Workers, ObeyAbort(w, c) PROVE TypeOK'
  BY <1>2, AbortInKeepsType DEF TypeOK, PoolType, ObeyAbort, reqVars, sseVars, quotaVars, openVars
<1>3. ASSUME NEW w \in Workers, Crash(w) PROVE TypeOK'
  BY <1>3 DEF TypeOK, Crash, Incident, sseVars, quotaVars, openVars
<1>4. CASE Renew
  BY <1>4 DEF TypeOK, Renew, Incident, reqVars, abortVars, sseVars
<1>5. QED
  BY <1>1, <1>2, <1>3, <1>4

\* Types are kept by every step, whatever the limit and the bounds.
THEOREM PredictionsTyped == Spec => []TypeOK
<1>1. TypeOK /\ [Next]_vars => TypeOK'
  <2> SUFFICES ASSUME TypeOK, [Next]_vars PROVE TypeOK'
    OBVIOUS
  <2>1. CASE UNCHANGED vars
    BY <2>1 DEF TypeOK, vars, reqVars, abortVars, sseVars, quotaVars, openVars
  <2>2. ASSUME NEW r \in Requests,
               \/ Ask(r) \/ ReadUsage(r) \/ Proceed(r) \/ Fail(r) \/ Return(r)
               \/ ReadCount(r) \/ Answer(r)
        PROVE  TypeOK'
    BY <2>2, TypeHandler
  <2>3. ASSUME NEW r \in Requests, Emit(r) \/ EndJob(r) \/ \E w \in Workers : Take(w, r)
        PROVE  TypeOK'
    BY <2>3, TypeFlow
  <2>4. CASE Deliver
    <3>1. Head(channel) \in Requests
      BY <2>4 DEF TypeOK, Deliver
    <3>2. QED
      BY <2>4, <3>1, TypeFlow
  <2>5. QED
    BY <2>1, <2>2, <2>3, <2>4, TypeIncident DEF Next
<1>2. QED
  BY <1>1, TypeInit, PTL DEF Spec

-----------------------------------------------------------------------------
(* A flow in execution can be stopped, and streams are not mixed up. *)

\* A flow is executed by one process: the server in main mode, a worker in queue mode.
Placed ==
  \A r \in Requests :
    /\ stage[r] = "running" <=> at[r] # None
    /\ at[r] # None => at[r] = Server <=> mode = "main"
    /\ mode = "main" => stage[r] \notin {"queued", "returned", "broken"}

\* Two open requests of a chat are known to share it.
SharedTold ==
  \A r, q \in Requests :
    r # q /\ Open(r) /\ Open(q) /\ ChatOf[r] = ChatOf[q] => r \in shared

\* A chat streams to the response of an open request of its own.
StreamsOpen ==
  \A c \in Chats : clients[c] # None => Open(clients[c]) /\ ChatOf[clients[c]] = c

\* Events go through Redis in queue mode only.
ChannelUsed == mode = "main" => channel = <<>>

\* What the two properties rest on.
IndInv == TypeOK /\ Placed /\ SharedTold /\ StreamsOpen /\ ChannelUsed

LEMMA IndInit == Init => IndInv /\ Stoppable /\ OwnStream
  BY TypeInit, ServerAssumption
  DEF Init, IndInv, Placed, SharedTold, StreamsOpen, ChannelUsed, Stoppable, OwnStream, Open

\* The steps that leave the requests, their places and the streams alone.
LEMMA IndIdle ==
  ASSUME IndInv, TypeOK', ChannelUsed', UNCHANGED <<mode, stage, at, clients, shared>>
  PROVE  IndInv'
  BY DEF IndInv, Placed, SharedTold, StreamsOpen, Open

LEMMA IndHandler ==
  ASSUME IndInv, TypeOK', NEW r \in Requests,
         Ask(r) \/ ReadUsage(r) \/ Proceed(r) \/ Fail(r) \/ Return(r) \/ ReadCount(r) \/ Answer(r)
  PROVE  IndInv'
<1> USE ChatOfAssumption, RequestsAssumption, ServerAssumption DEF IndInv
<1>0. ChannelUsed'
  BY DEF ChannelUsed, Ask, ReadUsage, Proceed, Fail, GiveUp, Respond, Return, ReadCount, Answer, sseVars
<1>1. CASE Ask(r)
  <2>1. Placed'
    BY <1>1 DEF TypeOK, Placed, Ask, Goto
  <2>2. SharedTold'
    <3> SUFFICES ASSUME NEW x \in Requests, NEW y \in Requests,
                        x # y, Open(x)', Open(y)', ChatOf[x] = ChatOf[y]
                 PROVE  x \in shared'
      BY DEF SharedTold
    <3>1. shared' = IF OpenWith(r) = {} THEN shared ELSE shared \cup OpenWith(r) \cup {r}
      BY <1>1 DEF Ask
    <3>2. (x # r => Open(x)) /\ (y # r => Open(y))
      BY <1>1 DEF TypeOK, Open, Ask, Goto
    <3>3. CASE x = r
      <4>1. y \in OpenWith(r)
        BY <3>2, <3>3 DEF OpenWith
      <4>2. QED
        BY <3>1, <3>3, <4>1
    <3>4. CASE y = r
      <4>1. x \in OpenWith(r)
        BY <3>2, <3>4 DEF OpenWith
      <4>2. QED
        BY <3>1, <4>1
    <3>5. CASE x # r /\ y # r
      BY <3>1, <3>2, <3>5 DEF SharedTold
    <3>6. QED
      BY <3>3, <3>4, <3>5
  <2>3. StreamsOpen'
    BY <1>1 DEF TypeOK, StreamsOpen, Open, Ask, Goto
  <2>4. QED
    BY <1>0, <2>1, <2>2, <2>3
<1>2. CASE ReadUsage(r)
  BY <1>0, <1>2 DEF TypeOK, ReadUsage, Goto, sseVars, openVars, Placed, SharedTold, StreamsOpen, Open
<1>3. CASE Proceed(r)
  <2>1. Placed'
    BY <1>3 DEF TypeOK, Placed, Proceed, Goto
  <2>2. SharedTold'
    <3>1. \A q \in Requests : Open(q)' <=> Open(q)
      BY <1>3 DEF TypeOK, Open, Proceed, Goto
    <3>2. QED
      BY <1>3, <3>1 DEF SharedTold, Proceed, openVars
  <2>3. StreamsOpen'
    BY <1>3 DEF TypeOK, StreamsOpen, Open, Proceed, Goto, sseVars
  <2>4. QED
    BY <1>0, <2>1, <2>2, <2>3
<1>4. CASE Fail(r)
  <2>1. Placed'
    BY <1>4 DEF TypeOK, Placed, Fail, GiveUp, Respond, Goto
  <2>2. SharedTold'
    BY <1>4 DEF TypeOK, SharedTold, Open, Fail, GiveUp, Respond, Goto, openVars
  <2>3. StreamsOpen'
    BY <1>4 DEF TypeOK, StreamsOpen, Open, Fail, GiveUp, Respond, Goto, RemoveClient
  <2>4. QED
    BY <1>0, <2>1, <2>2, <2>3
<1>5. CASE Return(r)
  <2>1. Placed'
    BY <1>5 DEF TypeOK, Placed, Return, Goto
  <2>2. SharedTold' /\ StreamsOpen'
    BY <1>5 DEF TypeOK, SharedTold, StreamsOpen, Open, Return, Goto, sseVars, openVars
  <2>3. QED
    BY <1>0, <2>1, <2>2
<1>6. CASE ReadCount(r)
  BY <1>0, <1>6 DEF TypeOK, ReadCount, Goto, sseVars, openVars, Placed, SharedTold, StreamsOpen, Open
<1>7. CASE Answer(r)
  <2>1. Placed' /\ SharedTold'
    BY <1>7 DEF TypeOK, Placed, SharedTold, Open, Answer, Respond, Goto, openVars
  <2>2. StreamsOpen'
    BY <1>7 DEF TypeOK, StreamsOpen, Open, Answer, Respond, Goto, RemoveClient
  <2>3. QED
    BY <1>0, <2>1, <2>2
<1>8. QED
  BY <1>1, <1>2, <1>3, <1>4, <1>5, <1>6, <1>7

LEMMA IndFlow ==
  ASSUME IndInv, TypeOK', NEW r \in Requests,
         Emit(r) \/ EndJob(r) \/ Deliver \/ \E w \in Workers : Take(w, r)
  PROVE  IndInv'
<1> USE ServerAssumption
<1>0. ChannelUsed'
  BY DEF IndInv, ChannelUsed, Emit, EndJob, Deliver, Take, sseVars
<1>1. CASE Emit(r) \/ Deliver
  BY <1>0, <1>1, IndIdle DEF Emit, Deliver, reqVars, openVars
<1>2. CASE EndJob(r)
  <2>1. Placed'
    BY <1>2 DEF IndInv, TypeOK, Placed, EndJob, Goto
  <2>2. SharedTold' /\ StreamsOpen'
    BY <1>2 DEF IndInv, TypeOK, SharedTold, StreamsOpen, Open, EndJob, Goto, sseVars, openVars
  <2>3. QED
    BY <1>0, <2>1, <2>2 DEF IndInv
<1>3. ASSUME NEW w \in Workers, Take(w, r) PROVE IndInv'
  <2>1. Placed'
    BY <1>3 DEF IndInv, TypeOK, Placed, Take, Goto
  <2>2. SharedTold' /\ StreamsOpen'
    BY <1>3 DEF IndInv, TypeOK, SharedTold, StreamsOpen, Open, Take, Goto, sseVars, openVars
  <2>3. QED
    BY <1>0, <2>1, <2>2 DEF IndInv
<1>4. QED
  BY <1>1, <1>2, <1>3

LEMMA IndIncident ==
  ASSUME IndInv, TypeOK',
         \/ \E c \in Chats : Abort(c) \/ \E w \in Workers : ObeyAbort(w, c)
         \/ \E w \in Workers : Crash(w)
         \/ Renew
  PROVE  IndInv'
<1>0. ChannelUsed'
  BY DEF IndInv, ChannelUsed, Abort, ObeyAbort, Crash, Renew, sseVars
<1>1. ASSUME NEW c \in Chats, Abort(c) \/ \E w \in Workers : ObeyAbort(w, c) PROVE IndInv'
  BY <1>0, <1>1, IndIdle DEF Abort, ObeyAbort, reqVars, sseVars, openVars
<1>2. CASE Renew
  BY <1>0, <1>2, IndIdle DEF Renew, reqVars, sseVars
<1>3. ASSUME NEW w \in Workers, Crash(w) PROVE IndInv'
  <2>1. Placed'
    BY <1>3, ServerAssumption DEF IndInv, TypeOK, Placed, Crash
  <2>2. \A q \in Requests : Open(q)' <=> Open(q)
    <3> SUFFICES ASSUME NEW q \in Requests PROVE Open(q)' <=> Open(q)
      OBVIOUS
    <3>1. CASE at[q] = w
      <4>1. stage[q] = "running"
        BY <3>1, ServerAssumption DEF IndInv, Placed
      <4>2. stage'[q] \in {"queued", "broken"}
        BY <1>3, <3>1 DEF Crash
      <4>3. QED
        BY <4>1, <4>2 DEF Open
    <3>2. CASE at[q] # w
      <4>1. stage'[q] = stage[q]
        BY <1>3, <3>2 DEF Crash
      <4>2. QED
        BY <4>1 DEF Open
    <3>3. QED
      BY <3>1, <3>2
  <2>3. SharedTold' /\ StreamsOpen'
    BY <1>3, <2>2 DEF IndInv, TypeOK, SharedTold, StreamsOpen, Crash, sseVars, openVars
  <2>4. QED
    BY <1>0, <2>1, <2>3 DEF IndInv
<1>4. QED
  BY <1>1, <1>2, <1>3

LEMMA IndStep == IndInv /\ TypeOK' /\ [Next]_vars => IndInv'
<1> SUFFICES ASSUME IndInv, TypeOK', [Next]_vars PROVE IndInv'
  OBVIOUS
<1>1. CASE UNCHANGED vars
  BY <1>1, IndIdle DEF IndInv, ChannelUsed, vars, reqVars, sseVars, openVars
<1>2. ASSUME NEW r \in Requests,
             \/ Ask(r) \/ ReadUsage(r) \/ Proceed(r) \/ Fail(r) \/ Return(r)
             \/ ReadCount(r) \/ Answer(r)
      PROVE  IndInv'
  BY <1>2, IndHandler
<1>3. ASSUME NEW r \in Requests, Emit(r) \/ EndJob(r) \/ \E w \in Workers : Take(w, r)
      PROVE  IndInv'
  BY <1>3, IndFlow
<1>4. CASE Deliver
  BY <1>4, IndIdle DEF IndInv, ChannelUsed, Deliver, reqVars, openVars
<1>5. QED
  BY <1>1, <1>2, <1>3, <1>4, IndIncident DEF Next



\* A controller is replaced or removed for a chat by the requests of that chat only,
\* so the flow of an unshared request keeps the controller it was started with.
LEMMA StoppableStep == IndInv /\ IndInv' /\ Stoppable /\ [Next]_vars => Stoppable'
<1> SUFFICES ASSUME IndInv, IndInv', Stoppable, [Next]_vars,
                    NEW q \in Requests \ shared', (stage[q] = "running")'
             PROVE  at'[q] \in Processes /\ (pool'[at'[q]][ChatOf[q]] = q \/ q \in aborted')
  BY DEF Stoppable
<1> USE ChatOfAssumption, RequestsAssumption, ServerAssumption
<1> DEFINE Reached == at[q] \in Processes /\ (pool[at[q]][ChatOf[q]] = q \/ q \in aborted)
           Goal == at'[q] \in Processes /\ (pool'[at'[q]][ChatOf[q]] = q \/ q \in aborted')
<1>a. q \notin shared
  BY DEF Next, vars, Ask, ReadUsage, Proceed, Fail, GiveUp, Respond, Return, ReadCount, Answer, Emit, EndJob, Take,
         Deliver, Abort, ObeyAbort, Crash, Renew, openVars
<1>b. stage[q] = "running" => Reached
  BY <1>a DEF Stoppable
<1>c. q \in Requests /\ ChatOf[q] \in Chats /\ at'[q] \in Processes
  BY DEF IndInv, TypeOK, Placed
<1>1. CASE UNCHANGED <<stage, at, pool, aborted>>
  BY <1>1, <1>b
<1>2. ASSUME NEW r \in Requests, Ask(r) \/ ReadUsage(r) \/ ReadCount(r) PROVE Goal
  BY <1>2, <1>b DEF Ask, ReadUsage, ReadCount, Goto, abortVars, IndInv, TypeOK
<1>3. ASSUME NEW r \in Requests, r # q, Open(r), ChatOf[r] = ChatOf[q], stage[q] = "running" PROVE FALSE
  BY <1>3, <1>a DEF IndInv, SharedTold, Open
<1>4. ASSUME NEW r \in Requests, Proceed(r) PROVE Goal
  <2>1. CASE r = q
    BY <1>4, <2>1 DEF Proceed, Goto, Add, IndInv, TypeOK
  <2>2. CASE r # q
    <3>1. stage[q] = "running" /\ Open(r)
      BY <1>4, <2>2 DEF Proceed, Goto, IndInv, TypeOK, Open
    <3>2. ChatOf[r] # ChatOf[q]
      BY <3>1, <2>2, <1>3
    <3>3. at'[q] = at[q] /\ pool'[at[q]][ChatOf[q]] = pool[at[q]][ChatOf[q]] /\ aborted' = aborted
      BY <1>4, <2>2, <3>2, <1>c DEF Proceed, Add, IndInv, TypeOK
    <3>4. QED
      BY <3>1, <3>3, <1>b
  <2>3. QED
    BY <2>1, <2>2
<1>5. ASSUME NEW r \in Requests, Fail(r) \/ Return(r) PROVE Goal
  <2>1. r # q
    BY <1>5 DEF Fail, GiveUp, Respond, Return, Goto, IndInv, TypeOK
  <2>2. stage[q] = "running" /\ Open(r)
    BY <1>5, <2>1 DEF Fail, GiveUp, Respond, Return, Goto, IndInv, TypeOK, Open
  <2>3. ChatOf[r] # ChatOf[q]
    BY <2>1, <2>2, <1>3
  <2>4. at'[q] = at[q] /\ pool'[at[q]][ChatOf[q]] = pool[at[q]][ChatOf[q]] /\ aborted' = aborted \ {r}
    BY <1>5, <2>1, <2>3, <1>c DEF Fail, GiveUp, Respond, Return, Remove, IndInv, TypeOK
  <2>5. QED
    BY <2>1, <2>2, <2>4, <1>b
<1>6. ASSUME NEW r \in Requests, Answer(r) \/ Emit(r) PROVE Goal
  BY <1>6, <1>b DEF Answer, Respond, Emit, Goto, reqVars, abortVars, IndInv, TypeOK
<1>7. ASSUME NEW r \in Requests, EndJob(r) PROVE Goal
  <2>1. r # q
    BY <1>7 DEF EndJob, Goto, IndInv, TypeOK
  <2>2. stage[q] = "running" /\ at'[q] = at[q] /\ pool' = pool /\ aborted' = aborted \ {r}
    BY <1>7, <2>1 DEF EndJob, Goto, IndInv, TypeOK
  <2>3. QED
    BY <2>1, <2>2, <1>b
<1>8. ASSUME NEW r \in Requests, NEW w \in Workers, Take(w, r) PROVE Goal
  <2>1. CASE r = q
    BY <1>8, <2>1 DEF Take, Goto, Add, IndInv, TypeOK
  <2>2. CASE r # q
    <3>1. stage[q] = "running" /\ Open(r)
      BY <1>8, <2>2 DEF Take, Goto, IndInv, TypeOK, Open
    <3>2. ChatOf[r] # ChatOf[q]
      BY <3>1, <2>2, <1>3
    <3>3. at'[q] = at[q] /\ pool'[at[q]][ChatOf[q]] = pool[at[q]][ChatOf[q]] /\ aborted' = aborted
      BY <1>8, <2>2, <3>2, <1>c DEF Take, Add, IndInv, TypeOK
    <3>4. QED
      BY <3>1, <3>3, <1>b
  <2>3. QED
    BY <2>1, <2>2
<1>9. ASSUME NEW p \in Processes, NEW c \in Chats, AbortIn(p, c), UNCHANGED <<stage, at>> PROVE Goal
  <2>1. CASE at[q] = p /\ ChatOf[q] = c
    BY <1>9, <2>1, <1>b DEF AbortIn, IndInv, TypeOK
  <2>2. CASE ~(at[q] = p /\ ChatOf[q] = c)
    <3>1. pool'[at[q]][ChatOf[q]] = pool[at[q]][ChatOf[q]]
      BY <1>9, <2>2, <1>c DEF AbortIn, Remove, IndInv, TypeOK
    <3>2. QED
      BY <1>9, <3>1, <1>b DEF AbortIn
  <2>3. QED
    BY <2>1, <2>2
<1>10. ASSUME NEW c \in Chats, Abort(c) \/ \E w \in Workers : ObeyAbort(w, c) PROVE Goal
  BY <1>10, <1>9, <1>1 DEF Abort, ObeyAbort, reqVars
<1>11. ASSUME NEW w \in Workers, Crash(w) PROVE Goal
  <2>1. at[q] # w /\ stage[q] = "running" /\ at'[q] = at[q]
    BY <1>11 DEF Crash, IndInv, TypeOK
  <2>2. pool'[at[q]] = pool[at[q]] /\ (q \in aborted => q \in aborted')
    BY <1>11, <2>1, <1>c DEF Crash, IndInv, TypeOK
  <2>3. QED
    BY <2>1, <2>2, <1>b
<1>12. QED
  <2>1. CASE UNCHANGED vars
    BY <2>1, <1>1 DEF vars, reqVars, abortVars
  <2>2. CASE Deliver \/ Renew
    BY <2>2, <1>1 DEF Deliver, Renew, reqVars, abortVars
  <2>3. QED
    BY <2>1, <2>2, <1>2, <1>4, <1>5, <1>6, <1>7, <1>8, <1>10, <1>11 DEF Next

\* An event is written for an open request; its chat streams to an open request too.
LEMMA OwnStreamStep == IndInv /\ OwnStream /\ [Next]_vars => OwnStream'
<1> SUFFICES ASSUME IndInv, OwnStream, [Next]_vars PROVE OwnStream'
  OBVIOUS
<1> USE ChatOfAssumption, RequestsAssumption
<1>1. shared \subseteq shared' /\ mode' = mode
  BY DEF Next, vars, Ask, ReadUsage, Proceed, Fail, GiveUp, Respond, Return, ReadCount, Answer, Emit, EndJob, Take,
         Deliver, Abort, ObeyAbort, Crash, Renew, openVars
<1>2. CASE got' = got
  BY <1>1, <1>2 DEF OwnStream
<1>3. ASSUME NEW r \in Requests, WriteEvent(r), mode = "main" => Open(r) PROVE OwnStream'
  <2>1. CASE clients[ChatOf[r]] = None
    BY <1>2, <1>3, <2>1 DEF WriteEvent
  <2>2. CASE clients[ChatOf[r]] # None
    <3> DEFINE to == clients[ChatOf[r]]
    <3>1. to \in Requests /\ Open(to) /\ ChatOf[to] = ChatOf[r]
      BY <2>2 DEF IndInv, TypeOK, StreamsOpen
    <3>2. mode = "main" /\ to \notin shared => to = r
      BY <1>3, <3>1 DEF IndInv, SharedTold
    <3>3. got' = [got EXCEPT ![to] = @ \cup {r}]
      BY <1>3, <2>2 DEF WriteEvent
    <3>4. ASSUME NEW p \in Requests, NEW q \in got'[p]
          PROVE  q \in got[p] \/ (p = to /\ q = r)
      BY <3>1, <3>3, <3>4 DEF IndInv, TypeOK
    <3>5. QED
      BY <1>1, <3>1, <3>2, <3>4 DEF OwnStream
  <2>3. QED
    BY <2>1, <2>2
<1>4. ASSUME NEW r \in Requests, Emit(r) \/ Answer(r) \/ Fail(r) PROVE OwnStream'
  BY <1>2, <1>3, <1>4 DEF Emit, Answer, Fail, GiveUp, Respond, Open
<1>5. CASE Deliver
  <2>1. Head(channel) \in Requests
    BY <1>5 DEF Deliver, IndInv, TypeOK
  <2>2. QED
    BY <1>3, <1>5, <2>1 DEF Deliver, IndInv, ChannelUsed
<1>6. QED
  BY <1>2, <1>4, <1>5
  DEF Next, vars, Ask, ReadUsage, Proceed, Return, ReadCount, EndJob, Take,
      Abort, ObeyAbort, Crash, Renew, sseVars

\* The flow of a request that shares its chat with no other open request is reached by
\* an abort of the chat in the process that executes it, for any number of requests.
THEOREM FlowsStoppable == Spec => []Stoppable
<1>1. Spec => []IndInv
  BY PredictionsTyped, IndInit, IndStep, PTL DEF Spec
<1>2. QED
  BY <1>1, IndInit, StoppableStep, PTL DEF Spec

\* A response receives events of its own chat, and in main mode of its own flow.
THEOREM StreamsApart == Spec => []OwnStream
<1>1. Spec => []IndInv
  BY PredictionsTyped, IndInit, IndStep, PTL DEF Spec
<1>2. QED
  BY <1>1, IndInit, OwnStreamStep, PTL DEF Spec

-----------------------------------------------------------------------------
(* The quota.  Where the updates of the counter do not overlap it is the       *)
(* number of predictions, up to the limit (Apart).  Where no two requests are  *)
(* open together it is at least that, also when the counter expires between    *)
(* the two halves of an update, and a request on its way has room (Alone).     *)

AtMost(n) == IF n < Limit THEN n ELSE Limit

Counts == Cardinality(counted)

\* The stages between the check of the quota and the end.
Admitted == {"queued", "running", "returned", "broken", "counting", "writing"}

Settled == \A r \in counted : stage[r] = "done"

Numbers == usage \in Nat /\ \A r \in Requests : seen[r] \in Nat

Positive == \A r \in Requests : stage[r] \in Admitted \cup {"done"} => Limit > 0

Apart ==
  ~raced =>
    /\ usage = AtMost(Counts)
    /\ \A r, q \in Requests : stage[r] = "writing" /\ stage[q] = "writing" => r = q
    /\ \A r \in Requests : stage[r] = "writing" => seen[r] = usage

Alone ==
  ~crowded =>
    /\ \A r, q \in Requests : Open(r) /\ Open(q) => r = q
    /\ Counts <= Limit
    /\ AtMost(Counts) <= usage
    /\ \A r \in Requests :
         /\ stage[r] = "checked" /\ seen[r] < Limit => Counts < Limit
         /\ stage[r] \in Admitted => Counts < Limit
         /\ stage[r] = "writing" => AtMost(Counts) <= seen[r]

QInv == Settled /\ Numbers /\ Positive /\ Apart /\ Alone

\* With a limit, the numbers that are compared.
LEMMA QuotaTypes ==
  ASSUME TypeOK, Limit # -1
  PROVE  Limit \in Nat /\ Counts \in Nat /\ AtMost(Counts) \in Nat
<1>1. IsFiniteSet(counted)
  BY RequestsAssumption, FS_Subset DEF TypeOK
<1>2. QED
  BY <1>1, FS_CardinalityType, LimitAssumption DEF Counts, AtMost

\* A step at which admitted requests go on and nothing is counted or read.
LEMMA QuotaAside ==
  ASSUME TypeOK, QInv, UNCHANGED <<usage, seen, counted, raced, crowded>>,
         \A r \in Requests : \/ stage'[r] = stage[r]
                             \/ stage[r] \in Admitted /\ stage'[r] \in Admitted \ {"writing"}
  PROVE  QInv'
<1>1. Settled'
  BY DEF QInv, Settled, TypeOK, Admitted
<1>2. Numbers' /\ Positive'
  BY DEF QInv, Numbers, Positive
<1>3. Apart'
  BY DEF QInv, Apart, Counts, AtMost
<1>4. Alone'
  <2>1. \A r \in Requests : Open(r)' <=> Open(r)
    BY DEF Open, Admitted
  <2>2. Counts' = Counts
    BY DEF Counts
  <2>3. \A r \in Requests : /\ stage'[r] = "checked" => stage[r] = "checked"
                            /\ stage'[r] \in Admitted => stage[r] \in Admitted
                            /\ stage'[r] = "writing" => stage[r] = "writing"
    BY DEF Admitted
  <2>4. QED
    BY <2>1, <2>2, <2>3 DEF QInv, Alone, AtMost
<1>5. QED
  BY <1>1, <1>2, <1>3, <1>4 DEF QInv

LEMMA AskQuota == ASSUME TypeOK, QInv, NEW r \in Requests, Ask(r) PROVE QInv'
<1>1. /\ UNCHANGED <<usage, seen, counted, raced>>
      /\ stage[r] = "new" /\ stage' = [stage EXCEPT ![r] = "checking"]
      /\ crowded' = (crowded \/ \E q \in Requests : Open(q))
  BY DEF Ask, Goto, quotaVars
<1>2. /\ stage'[r] = "checking"
      /\ \A q \in Requests \ {r} : stage'[q] = stage[q]
  BY <1>1 DEF TypeOK
<1>3. Settled' /\ Numbers' /\ Positive'
  BY <1>1, <1>2 DEF QInv, TypeOK, Settled, Numbers, Positive, Admitted
<1>4. Apart'
  BY <1>1, <1>2 DEF QInv, Apart, Counts, AtMost
<1>5. Alone'
  BY <1>1, <1>2 DEF QInv, Alone, Counts, AtMost, Open, Admitted
<1>6. QED
  BY <1>3, <1>4, <1>5 DEF QInv

LEMMA CheckQuota ==
  ASSUME TypeOK, QInv, Limit # -1, NEW r \in Requests, ReadUsage(r) \/ Proceed(r) \/ Fail(r)
  PROVE  QInv'
<1> DEFINE s == stage'[r]
           n == seen'[r]
<1>1. /\ UNCHANGED <<usage, counted, raced, crowded>>
      /\ stage' = [stage EXCEPT ![r] = s] /\ seen' = [seen EXCEPT ![r] = n]
      /\ stage[r] \notin {"new", "done", "failed"}
      /\ \/ stage[r] = "checking" /\ s = "checked" /\ n = usage
         \/ stage[r] = "checked" /\ s \in {"queued", "running"} /\ n = 0 /\ seen[r] < Limit
         \/ s = "failed" /\ n = 0
  <2>1. CASE ReadUsage(r)
    BY <2>1 DEF ReadUsage, Goto, TypeOK, openVars
  <2>2. CASE Proceed(r)
    BY <2>2, QuotaTypes DEF Proceed, Goto, Forget, Refused, TypeOK, QInv, Numbers, openVars
  <2>3. CASE Fail(r)
    BY <2>3 DEF Fail, GiveUp, Respond, Goto, Forget, TypeOK, openVars
  <2>4. QED
    BY <2>1, <2>2, <2>3
<1>2. \A q \in Requests \ {r} : stage'[q] = stage[q] /\ seen'[q] = seen[q]
  BY <1>1 DEF TypeOK
<1> HIDE DEF s, n
<1>3. s = stage'[r] /\ n = seen'[r] /\ s # "writing"
  BY <1>1 DEF s, n
<1>4. Limit \in Nat /\ Counts \in Nat /\ Counts' = Counts /\ AtMost(Counts)' = AtMost(Counts)
  BY <1>1, QuotaTypes DEF Counts, AtMost
<1>5. Settled' /\ Numbers'
  BY <1>1, <1>2, <1>3 DEF QInv, TypeOK, Settled, Numbers
<1>6. Positive'
  <2>1. s \in {"queued", "running"} => Limit > 0
    BY <1>1, <1>4 DEF QInv, Numbers
  <2>2. s \in {"queued", "running", "checked", "failed"}
    BY <1>1
  <2>3. QED
    BY <1>2, <1>3, <2>1, <2>2 DEF QInv, Positive, Admitted
<1>7. Apart'
  BY <1>1, <1>2, <1>3, <1>4 DEF QInv, Apart
<1>8. Alone'
  <2> SUFFICES ASSUME ~crowded PROVE Alone'
    BY <1>1 DEF Alone
  <2>1. \A q \in Requests : Open(q)' => Open(q)
    BY <1>1, <1>2 DEF Open
  <2>2. n < Limit /\ s = "checked" => Counts < Limit
    BY <1>1, <1>4 DEF QInv, Numbers, Alone, AtMost
  <2>3. s \in Admitted => Counts < Limit
    BY <1>1 DEF QInv, Alone, Admitted
  <2>4. QED
    BY <1>1, <1>2, <1>3, <1>4, <2>1, <2>2, <2>3 DEF QInv, Alone
<1>9. QED
  BY <1>5, <1>6, <1>7, <1>8 DEF QInv

LEMMA ReadCountQuota ==
  ASSUME TypeOK, QInv, Limit # -1, NEW r \in Requests, ReadCount(r)
  PROVE  QInv'
<1>1. /\ UNCHANGED <<usage, counted, crowded>>
      /\ stage[r] = "counting" /\ stage' = [stage EXCEPT ![r] = "writing"]
      /\ seen' = [seen EXCEPT ![r] = usage]
      /\ raced' = (raced \/ \E q \in Requests : stage[q] = "writing")
  BY DEF ReadCount, Goto, openVars
<1>2. /\ stage'[r] = "writing" /\ seen'[r] = usage
      /\ \A q \in Requests \ {r} : stage'[q] = stage[q] /\ seen'[q] = seen[q]
  BY <1>1 DEF TypeOK
<1>3. Settled' /\ Numbers'
  BY <1>1, <1>2 DEF QInv, TypeOK, Settled, Numbers
<1>4. Positive'
  BY <1>1, <1>2 DEF QInv, Positive, Admitted
<1>5. Apart'
  BY <1>1, <1>2 DEF QInv, Apart, Counts, AtMost
<1>6. Alone'
  BY <1>1, <1>2 DEF QInv, Alone, Counts, AtMost, Open, Admitted
<1>7. QED
  BY <1>3, <1>4, <1>5, <1>6 DEF QInv

\* The prediction is counted.
LEMMA AnswerQuota ==
  ASSUME TypeOK, QInv, Limit # -1, NEW r \in Requests, Answer(r)
  PROVE  QInv'
<1>1. /\ UNCHANGED <<raced, crowded>>
      /\ stage[r] = "writing" /\ stage' = [stage EXCEPT ![r] = "done"]
      /\ seen' = [seen EXCEPT ![r] = 0]
      /\ usage' = Counted(seen[r]) /\ counted' = counted \cup {r}
  BY DEF Answer, Respond, Goto, Forget, openVars
<1>2. /\ stage'[r] = "done" /\ seen'[r] = 0
      /\ \A q \in Requests \ {r} : stage'[q] = stage[q] /\ seen'[q] = seen[q]
  BY <1>1 DEF TypeOK
<1>3. Limit \in Nat /\ Limit > 0 /\ Counts \in Nat /\ seen[r] \in Nat
  BY <1>1, QuotaTypes DEF QInv, Positive, Numbers, Admitted
<1>4. Counts' = Counts + 1
  <2>1. r \notin counted
    BY <1>1 DEF QInv, Settled
  <2>2. IsFiniteSet(counted)
    BY RequestsAssumption, FS_Subset DEF TypeOK
  <2>3. QED
    BY <1>1, <2>1, <2>2, FS_AddElement DEF Counts
<1>5. Settled'
  BY <1>1, <1>2 DEF QInv, TypeOK, Settled
<1>6. Numbers' /\ Positive'
  <2>1. usage' \in Nat
    BY <1>1, <1>3 DEF Counted
  <2>2. QED
    BY <1>2, <1>3, <2>1 DEF QInv, Numbers, Positive
<1>7. Apart'
  <2> SUFFICES ASSUME ~raced PROVE Apart'
    BY <1>1 DEF Apart
  <2>1. seen[r] = AtMost(Counts)
    BY <1>1 DEF QInv, Apart
  <2>2. usage' = AtMost(Counts + 1)
    BY <1>1, <1>3, <2>1 DEF Counted, AtMost
  <2>3. \A q \in Requests : stage'[q] # "writing"
    BY <1>1, <1>2 DEF QInv, Apart
  <2>4. QED
    BY <1>4, <2>2, <2>3 DEF Apart, AtMost
<1>8. Alone'
  <2> SUFFICES ASSUME ~crowded PROVE Alone'
    BY <1>1 DEF Alone
  <2>1. Counts < Limit /\ AtMost(Counts) <= seen[r]
    BY <1>1 DEF QInv, Alone, Admitted
  <2>2. AtMost(Counts + 1) <= usage'
    BY <1>1, <1>3, <2>1 DEF Counted, AtMost
  <2>3. \A q \in Requests : ~Open(q)' /\ stage'[q] \notin Admitted \cup {"checked"}
    <3>1. \A q \in Requests \ {r} : ~Open(q)
      BY <1>1 DEF QInv, Alone, Open
    <3>2. QED
      BY <1>2, <3>1 DEF Open, Admitted
  <2>4. Counts + 1 <= Limit
    BY <1>3, <2>1
  <2>5. QED
    BY <1>4, <2>2, <2>3, <2>4 DEF Alone, AtMost, Admitted
<1>9. QED
  BY <1>5, <1>6, <1>7, <1>8 DEF QInv

\* The counter expires, perhaps between the two halves of an update.
LEMMA RenewQuota == ASSUME TypeOK, QInv, Limit # -1, Renew PROVE QInv'
<1>1. /\ UNCHANGED <<stage, seen>>
      /\ usage' = 0 /\ counted' = {}
      /\ raced' = (\E r \in Requests : stage[r] = "writing")
      /\ crowded' = (\E r, q \in Requests : r # q /\ Open(r) /\ Open(q))
  BY DEF Renew, reqVars
<1>2. Counts' = 0 /\ Limit \in Nat /\ AtMost(Counts)' = 0
  BY <1>1, FS_EmptySet, QuotaTypes DEF Counts, AtMost
<1>3. Settled' /\ Numbers' /\ Positive'
  BY <1>1 DEF QInv, Settled, Numbers, Positive
<1>4. Apart'
  BY <1>1, <1>2 DEF Apart
<1>5. Alone'
  <2>1. \A r \in Requests : seen[r] \in Nat /\ (stage[r] \in Admitted => Limit > 0)
    BY DEF QInv, Numbers, Positive
  <2>2. \A r, q \in Requests : crowded' \/ (Open(r)' /\ Open(q)' => r = q)
    BY <1>1 DEF Open
  <2>3. QED
    BY <1>1, <1>2, <2>1, <2>2 DEF Alone
<1>6. QED
  BY <1>3, <1>4, <1>5 DEF QInv

LEMMA QuotaStep == Limit # -1 /\ IndInv /\ QInv /\ [Next]_vars => QInv'
<1> SUFFICES ASSUME Limit # -1, IndInv, QInv, [Next]_vars PROVE QInv'
  OBVIOUS
<1>0. TypeOK
  BY DEF IndInv
<1>1. ASSUME NEW r \in Requests, Emit(r) \/ EndJob(r) \/ Return(r) \/ \E w \in Workers : Take(w, r)
      PROVE  QInv'
  <2>1. /\ UNCHANGED <<usage, seen, counted, raced, crowded>>
        /\ \A q \in Requests : \/ stage'[q] = stage[q]
                               \/ stage[q] \in Admitted /\ stage'[q] \in Admitted \ {"writing"}
    BY <1>0, <1>1 DEF TypeOK, Emit, EndJob, Return, Take, Goto, reqVars, quotaVars, openVars, Admitted
  <2>2. QED
    BY <1>0, <2>1, QuotaAside
<1>2. ASSUME NEW w \in Workers, Crash(w) PROVE QInv'
  <2>1. ASSUME NEW q \in Requests
        PROVE  \/ stage'[q] = stage[q]
               \/ stage[q] \in Admitted /\ stage'[q] \in Admitted \ {"writing"}
    <3>1. at[q] = w => stage[q] = "running"
      BY ServerAssumption DEF IndInv, Placed
    <3>2. QED
      BY <1>2, <3>1 DEF Crash, Admitted
  <2>2. UNCHANGED <<usage, seen, counted, raced, crowded>>
    BY <1>2 DEF Crash, quotaVars, openVars
  <2>3. QED
    BY <1>0, <2>1, <2>2, QuotaAside
<1>3. CASE Deliver \/ (\E c \in Chats : Abort(c) \/ \E w \in Workers : ObeyAbort(w, c)) \/ UNCHANGED vars
  <2>1. UNCHANGED <<stage, usage, seen, counted, raced, crowded>>
    BY <1>3 DEF Deliver, Abort, ObeyAbort, vars, reqVars, quotaVars, openVars
  <2>2. QED
    BY <1>0, <2>1, QuotaAside
<1>4. QED
  BY <1>0, <1>1, <1>2, <1>3, AskQuota, CheckQuota, ReadCountQuota, AnswerQuota, RenewQuota DEF Next

LEMMA QuotaInit == Limit # -1 /\ Init => QInv
<1> SUFFICES ASSUME Limit # -1, Init PROVE QInv
  OBVIOUS
<1>1. Counts = 0 /\ Limit \in Nat /\ AtMost(Counts) = 0
  BY TypeInit, QuotaTypes, FS_EmptySet DEF Init, Counts, AtMost
<1>2. QED
  BY <1>1 DEF Init, QInv, Settled, Numbers, Positive, Apart, Alone, Open, Admitted

\* The counter is the number of predictions, up to the limit, unless two updates of it
\* overlapped; and no more predictions are made than the limit unless two requests were
\* open together (checkPredictions and updatePredictionsUsage, for any limit and requests).
THEOREM QuotaKept == Spec => []QuotaHolds
<1>1. CASE Limit = -1
  <2>1. QuotaHolds
    BY <1>1 DEF QuotaHolds
  <2>2. QED
    BY <2>1, PTL
<1>2. CASE Limit # -1
  <2>1. ASSUME TypeOK, QInv PROVE QuotaHolds
    BY <2>1, QuotaTypes, <1>2 DEF QuotaHolds, QInv, Apart, Alone, Counts, AtMost
  <2>2. Init => QInv
    BY <1>2, QuotaInit
  <2>3. IndInv /\ QInv /\ [Next]_vars => QInv'
    BY <1>2, QuotaStep
  <2>4. IndInv => TypeOK
    BY DEF IndInv
  <2>5. Spec => []IndInv
    BY PredictionsTyped, IndInit, IndStep, PTL DEF Spec
  <2>6. QED
    BY <2>1, <2>2, <2>3, <2>4, <2>5, PTL DEF Spec
<1>3. QED
  BY <1>1, <1>2
=============================================================================
