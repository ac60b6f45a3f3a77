# TLA+ specifications of Flowise

This directory holds specifications of the parts of the server whose behaviour is hard to
test: the executor of Agentflow V2, the builder of the older flows, prediction requests with
their queue, streams, aborts and quota, indexing with a record manager, and WhatsApp campaigns,
sessions and inbox. They are written from the code, checked with TLC on small instances, and
what matters most is proved with TLAPS for every value of the constants. `PROJECT.json` lists
the components, the runs, the map from definitions to source lines, the hazards and the
theorems.

Paths below are relative to `src/packages/`.

## Inventory

The server (`server/src`) is a Node.js process: one thread, so code between two `await`s runs
alone and everything else interleaves at the `await`s. State that must survive is in rows of a
relational database (TypeORM). In queue mode the work of a request moves to worker processes
over BullMQ and Redis. `components` holds the nodes that flows are built from, `ui` and
`agentflow` are React applications.

| Component | State it keeps | Operations | Interacts with | What is hard, and what makes it correct |
|---|---|---|---|---|
| Agentflow executor (`server/src/utils/buildAgentflow.ts`) | per request: executed data, queue, waiting nodes, loop counts; shared: `Execution` rows, `ChatMessage` rows with their `action` | start an execution, resume one, run a node, process its outputs, stop for a human, fail, abort | prediction requests, SSE, node library | joins, untaken branches, stops that drop the local state, answers side by side, crashes: the right nodes run once, after their inputs, and the row of an execution tells the truth |
| Prediction requests (`utils/buildChatflow.ts`, `AbortControllerPool.ts`, `controllers/internal-predictions`) | abort controllers by flow and chat | predict, abort | executors, queues, streams, quotas | controllers are removed by key, by whoever ends: a flow that runs can be stopped |
| Queues and workers (`queue/`, `commands/worker.ts`) | BullMQ jobs, controllers in each worker | add, run, abort by event, crash of a worker | Redis | abort events that come early or late, jobs that run twice: every request is answered |
| Event streaming (`utils/SSEStreamer.ts`, `queue/RedisEvent*.ts`) | clients by chat | add, stream, remove | every executor | a stream closed or written by another request; events that come after the result |
| Quotas (`utils/quotaUsage.ts`, `UsageCacheManager.ts`) | cached counters that expire | check, add | requests | check and update are a whole flow apart |
| Document store (`services/documentstore`) | loaders in the row of the store, chunk rows, statuses | add, process, refresh, upsert, delete | indexing | a stale copy of the row is saved after minutes; half of the chunks are written |
| Indexing (`components/src/indexing.ts`, the record managers, `delete` of the vector stores) | keys of the record manager, documents of the vector store | index with a clean-up mode, delete a loader | both stores | failures between the two stores, batches, deletions nobody waits for: a key stands for a document |
| Rate limiters (`utils/rateLimit.ts`) | limiter by flow | update, apply | Redis events | an event that does not say that the limit went away |
| WhatsApp sessions (`utils/WhatsAppSessionManager.ts`, `controllers/whatsapp`) | sockets, credentials, reconnection timers, device rows | initialise, connect, reconnect, log out, delete | Baileys, file system | events of an old socket, timers that outlive a session |
| WhatsApp inbox and chatbot (same file) | chats, messages and aliases in memory, saved with a delay | receive, answer, away message, follow up, pause, delete | sessions, prediction requests | two ids of one contact that become one; what was looked up before a human took over |
| WhatsApp campaigns (`utils/WhatsAppCampaignManager.ts`, `controllers/whatsapp`) | rows of campaigns and recipients; cooldowns and device rotation in memory | create, start, pause, delete, the queue loop | sessions | one loop and many requests save copies of the same rows; crashes between a message and its row |
| Legacy executors (`utils/index.ts`, `upsertVector.ts`, `buildAgentGraph.ts`) | per build: queue, depths, explored and ignored nodes | build a flow, execute its end or upsert | prediction requests, LangChain, LangGraph | depths merged over several ends, branches not taken: everything is built after its inputs |
| Executions, chat messages, leads, feedback, statistics (`services/`) | rows | read, delete | user interface | single statements |
| Evaluations (`services/evaluations`) | evaluation rows | run, score | predictions | one batch at a time |
| Identity and access (`IdentityManager.ts`, `enterprise/`) | users, roles, workspaces | sign on, authorise | every request | no protocol between processes; left out |
| Flow editing, marketplace, assistants, node library, storage, telemetry, user interface | rows, files | create, read, update, delete | | no state of their own that a model would add to |

`PROJECT.json` names the sources of each of them and says why those without a module have
none. Its `hazards` list what can go wrong at which line; a `note` says where a property stops
short of the hazard.

## Modules

| Module | What it is |
|---|---|
| `Subsequence` | `Pick(s, keep)`, the elements of a sequence at kept positions: the filters of the code |
| `FlowGraph` | the pure functions of the executor on the graph of a flow: starting nodes, `setupNodeDependencies`, `findConditionParent`, `hasReceivedRequiredInputs`, `determineNodesToIgnore`, the children `processNodeOutputs` goes through |
| `AgentFlow` | the executor: the requests of one chat session, the `Execution` rows and the actions of the chat messages |
| `ExecutionLifecycle` | the abstract specification of an execution: opened, closed, taken up again |
| `FlowShapes` | the shapes of agentflows that two theorems assume: what a run of a flow can call, in which courses |
| `MCAgentFlow`, `MCFlowShapes` | the flows it is checked on, and their shapes |
| `Subsequence_proofs`, `AgentFlow_proofs` | theorems |
| `WhatsAppCampaign` | the queue loop, the requests beside it, and the two tables |
| `MCWhatsAppCampaign` | its instances |
| `WhatsAppCampaign_proofs` | theorems |
| `WhatsAppSession` | the session of one device: `initSession`, the events of its sockets, reconnection, logout, deletion |
| `MCWhatsAppSession` | its instances |
| `WhatsAppSession_proofs` | theorems |
| `IndexedStore` | the abstract specification of a vector store that calls answer for, each for a scope of documents |
| `Indexing` | `index()`, the record manager, the vector store, the deletion of a loader |
| `MCIndexing`, `Indexing_proofs` | its jobs for TLC; theorems |
| `Predictions` | prediction requests from handler to response: queue, workers, controllers, streams, counter |
| `MCPredictions`, `Predictions_proofs` | its instance; theorems |
| `WhatsAppInbox` | the store of the chats, the chatbot, the follow-up check and the requests of the inbox |
| `MCWhatsAppInbox`, `WhatsAppInbox_proofs` | its instance; theorems |
| `BuildOrder` | the abstract specification of a build: what is needed first, what is wanted at the end |
| `FlowBuild` | `buildFlow`, with the graph functions it rests on |
| `MCFlowBuild`, `FlowBuild_proofs` | the flows it is checked on; theorems |

### AgentFlow and the code

A request is one call of `executeAgentFlow`. `pc[r]` says at which `await` it is, the
variables `executed`, `queue`, `waiting`, `loopCounts`, `iterations`, `humanInput` and
`current` are its locals, `executions` and `messages` the rows it shares with the other
requests of its session. The actions in the order of the code:

- `Ask` (a question: `addExecution`) or `Resume` (a human input: the newest execution of the
  session is read and checked), `RefuseQuestion`, `RefuseHumanInput`; then `DropErrorEntry`
  and `Reopen`, which write the row two `await`s after it was checked.
- `BeginNode` takes a node off the queue and sees an abort; `FinishNode`, `StopNode` and
  `FailNode` are the outcomes of `executeNode`; `DeliverOutput` is one turn of the loop of
  `processNodeOutputs` and `EndOutputs` what follows that loop; `Overrun` the iteration limit.
- `Settle` and `SettleFailure` write state and data of the row; `ClearAction`,
  `SaveMessages` and `LoseAnswer` are what `executeAgentFlow` does to the chat messages.
- The environment: `Abort` (the stop button), `Crash`.

A human input names a stop of the session or no node (`NamedStops`), as the buttons of the chat
window and of the executions view do. The code accepts any node of the executed data (line
1738); an input made by hand that names another one is not in the model.

What a node computes is its outcome: a result, a stop or an exception, and for a decision
which output it reports. Agents that ask for the approval of a tool are nodes of kind
`agent`, which may stop or finish. `FinalState`, `Retryable` and `Resumable` are the rules
for the state of a row, in the order the code tests them.

Left out: the sub-flows of an iteration node, which call `executeAgentFlow` recursively; the
runtime state (form, state, chat history), which no property here depends on; streaming.

### WhatsAppCampaign and the code

`campaigns` and `recipients` are the two tables. The loop of `processQueue` is the program
counter `pc` with the locals `batch`, `copies` (all running campaigns are read in one query),
`current`, `active`, `attempts`, `selected`; `pointers` and `cooling` are its maps
`campaignDevicePointers` and `campaignNextSendTimes`. Requests are `CreateCampaign` and
`SaveChunk`, `ReadCampaign` followed by `SaveStatus` (start, pause) or by `DeleteRecipients`
and `DeleteCampaign`. The loop is `LoadScheduled`, `AutoStart`, `LoadRunning`, `Skip`,
`PickRecipient`, `CheckDevices`, `TryDevice`, `Send`, `SaveSent`, `SaveFailed`, `CountSent`,
`CountFailed`, `Complete`, `Pause` and `EndRound`, each from one `await` to the next. The one
exception is `CheckDevices`: the code awaits the row of each device in turn (lines 161-166), the
model reads them at once. What changes between two of these reads can as well change between
the check and the send, where a device may go offline.

`save()` of TypeORM writes the whole copy over the row as it is by then and inserts it when
the row is gone; it is taken as one atomic step, although it reads before it writes. Times
are kept only as far as the code compares them: a cooldown is over or not, a scheduled date
has arrived or not, the day of a message is a number. `sends` and `sentToday` are history
variables: what really went out.

Assumed: there is one server process (the maps and the loop are not shared); a `sendMessage`
that throws or returns nothing has not sent; recipients of one chunk are taken in any order,
because their `createdDate` may be equal.

Left out: the `FAILED` branches for a device list that is no JSON array or is empty, which
`createCampaign` never stores; the text and the typing delay; access control.

### WhatsAppSession and the code

One device, because every map of `WhatsAppSessionManager` is keyed by device: `clients`,
`initializing` and `explicitlyClosed` are three of those maps, `row` its row and `auth` its
credentials on disk. A call of `initSession` and the socket it makes are one member of
`Sockets`; `stage` says where it is, `copy` is the row as the call read it, which the handlers
of that socket save for as long as it lives, and `creds` the credentials it was made with.

- `InitSession` is the code up to the first `await` (the two early returns and the lock), then
  `ReadDevice`, `LoadCreds` and `MakeSocket`. It is called by `AddDevice`, `PollInit` (the poll
  for the QR code, which read the row in `PollRead`), `TimerFires` and `Boot`
  (`initializeAllSessions`).
- The handler of `connection.update`: `OfferQR` and `SaveQR`; `Open` and, after the save,
  `Opened`; `Close`, which is `Reconnect` or `LogOut` and, after the save, `Leave`.
- `CloseSession`, `CloseDevice`, `RemoveFiles` and `DeleteDevice` are the request that deletes
  a device, from `await` to `await`.
- The environment: `Link` (the user scans the code), `Unlink` (the device is removed on the
  phone), `Lose`, `Revoked` and `EndEvent` (why Baileys closes a socket), `Crash`.
- Errors: any call of the database or of the files may throw, before or after it took effect.
  `CallThrows` is `initSession`, which keeps the lock and sets no timer (its callers only log);
  `OpenFails` and `LogOutFails` are the handlers that end at their save, `LeaveFails` the one that
  ends at the files, `SaveQRFails` the one that logs and goes on; `AddDeviceFails`,
  `PollInitFails`, `DeletionFails` and `BootFails` are the requests and the start.

`save()` leaves out the fields that are `undefined`: `Saved` keeps the column of the row then.
Times are counted in links, which is what `connectedAt` is compared for. Left out: the length
of the backoff, a credential file that `creds.update` could not write, the messages.

`ComesBack` and `StatusIsTrue` except what these errors do by the code as it is. An error in
`initSession` (`WhatsAppSessionManager.ts:823-844`) leaves the lock behind and no timer, one in
`initializeAllSessions` (785-805) restores nobody: `givenUp` says that one of them has happened
since the last start. An `open` that could not be saved (909) leaves an open socket that is not
`CONNECTED` and keeps the lock (`Unsaved`); a logout that could not be saved (947) leaves a dead
client and the old status (`Stranded`). What the two properties say is that nothing else does:
no other failed call, caller, timer or old socket.

### Indexing and the code

A call of `index()`, or of the `delete` of a vector store node, is one member of `Calls`; `pc`
names the `await` it is at and the actions follow the code: `Begin` (the time is read), then for
each batch `Exists`, `ReadTime` and `WriteKey` (the touch, and later the record, key by key),
`Add`, `Recorded`; then clean-up: `List`, `Delete`, `Forget`, in the loop of full clean-up until
nothing is listed; `Finish`. `Fail` throws at any of these awaits, `Arrive` is a deletion that
reaches the store after the node went on (`awaits` is FALSE for the nodes that do not wait),
`Tick` is the clock of the record manager, which counts in seconds. Hashing makes a document its
own key; `forceUpdate`, which no caller sets, is left out.

`IndexedStore` says what a caller may count on: a call adds only what it was given, takes away
only in its scope, and leaves in its scope exactly what it was given. `Indexing` implements it
under `Careful`, which spells out what `index()` relies on and does not see to: calls that
overlap answer for different documents, keys are a second old when they are cleaned up, earlier
deletions have arrived, and an incremental source comes in one batch where deletions are not
waited for.

### Predictions and the code

A request is the handler of a streamed prediction; `stage` is the `await` it is at. `Ask` adds
the client of its chat, `ReadUsage` is the check of the quota, `Proceed` adds the abort
controller and executes the flow, or adds the job in queue mode; `Return` and `Fail` are the end
of the flow, `ReadCount` and `Answer` the counter and the end of the response, `GiveUp` the error
path. `Emit` is an event of the flow, which in queue mode goes over Redis and comes with
`Deliver`. `Take`, `EndJob` and `ObeyAbort` are the worker, `Abort` the stop button, `Crash` a
worker that dies (the job is given away once more), `Renew` the expiry of the counter.

Pools, clients and the counter are keyed as in the code: by chat, and the counter for the whole
organisation. A request names its chat: the chat window always sends one, and the handler of
requests from outside makes one up (`controllers/predictions/index.ts:63`). The handler of the
page does not: a request without a `chatId` would stream under the key `undefined` (line 34)
and have its controller under the session or a new id (`buildChatflow.ts:1005`). The model has
no such request. The model has streamed requests of one flow and one organisation. An aborted flow
is one that ends, with a result or an error. A subscription to Redis is taken as effective at
once. Left out: what the flow does (`AgentFlow`, `FlowBuild`), the storage counter, API keys.

The history variables say where the keys do not keep requests apart. `shared` are requests that
were open together with another of their chat: the second replaces controller and client of the
first, so the first cannot be stopped and its response is never ended. `crowded` is two requests
open at once, which pass the check of the quota together; `raced` is an update of the counter
that overlapped another.

### WhatsAppInbox and the code

`store` is the `SimpleStore` of the one connected device: chats in the order of the Map, the log
of the messages, the contacts whose two ids (hidden id and phone number) are known to be one. An
operator with a parameter `s` is a method of the store. A message in the works is a member of
`Handlers`: `CustomerWrites`, `Resolve` (the hidden id is looked up), `Choose` (the chatbot is
loaded and the business hours are checked), then `Answer`, `SendAway` or `GiveUp`. A follow-up
check is a member of `Checks`: `StartCheck`, then for each chat that is `Due` a judgement, which
is `FollowUp`, `LetBe` or `Leave`. `HumanWrites`, `ToggleChatAI` and `DeleteChat` are requests;
`PhoneDeletes`, `TellMapping` and `Reconnect` come from WhatsApp; `HoursPass` and `DelayPasses`
are the clock. A deletion takes a record out of the Map under the hands of those that hold it
over an `await` (`Lose`).

Left out: groups and media, the rate limiter (its answer is open: `GiveUp`), the filter of
messages from before the link, the second in which a crash loses what was not saved yet, and
messages written on the phone itself while the server is disconnected, which do not pause.

### FlowBuild and the code

A flow and the request to build it is the record `flow`. `EndingNodes`, `DepthFrom`
(`getStartingNodes`), `Connected` (`getAllConnectedNodes`) and the graphs are operators on it.
`Visit(n)` is one turn of the loop of `buildFlow`: the node is initialised, an `ifElseFunction`
has the branch it did not take ignored (`Ignored`), and `PushNext` queues what is next: the
neighbours and all nodes of the next depth (`Neighbours`, which the code writes back into
`graph`), those that are `Due`. `Upsert` is the turn of the vector store, `Fail` an exception.
`Executed` is the node `initEndingNode` takes; of the order of `flowNodes` only the last place is
kept, in `last`.

The order in which an object lists its keys, and that of the edges, are left open. Flows are
acyclic, as `getStartingNodes` assumes (`utils/index.ts:233`: on a cycle `walkGraph` would not
return; the canvas of chatflows does not refuse one). Left out: what is done with the data of the
nodes (inputs, overrides, variables), `buildAgentGraph`.

## Runs

Every cfg names its bounds. The longest runs take one to three minutes.

| Run | Instance | Shows |
|---|---|---|
| `session` | seven shapes of flow (fork and join, join of a conditional and a plain route, approval, approval of joined routes, loop, ask again on reject, two starting nodes), two requests one after the other, a crash, iteration limit 12, weak fairness of each step of a request | `TypeOK`; only nodes on taken branches run, after their inputs and once; `FINISHED` means complete; every request ends, and not at the limit |
| `approval` | the two flows that stop, four requests | no finished step is lost over failed and repeated resumes, what can be resumed shows its buttons, and the executor implements `ExecutionLifecycle` |
| `concurrent` | the same flows, three requests, two at a time, stale answers, a crash, iteration limit 2 | no row is left `INPROGRESS` by a request that has answered; the flows of the runs have the shapes the theorems assume |
| `double_answer` | the flows that stop, three requests, two at a time | a statement of the code that does not hold, see below |
| `campaign_requests` | two campaigns on one device, one of them scheduled, two requests, a bad number, sending hours, a device that goes offline | the rows are true, whatever is started, paused and deleted |
| `campaign_faults` | one campaign on two devices in rotation, limit 1, one crash, one fault, one midnight, a start | `TypeOK`; how often a message can repeat; the counters never run ahead of the rows; the daily limit |
| `campaign_ends` | two campaigns, a fault, a loss, a request, fair loop | a scheduled campaign starts, a running one ends or pauses |
| `whatsapp_session` | two sockets, one client that polls, a link, its removal on the phone, a lost connection, a crash, a failed call of the database or the files, the deletion | `TypeOK`; one socket at a time; a status that tells the truth; a linked device comes online again, unless an error ended the call that was to see to it |
| `indexing` | three documents of two sources, six jobs in the four modes, two calls at a time and three in all, one failure at any await, deletions waited for or not | `TypeOK`; a key stands for a document; a call made again heals; wanted documents stay; the promise of `IndexedStore`; every call ends |
| `predictions` | two requests of one chat, one worker, both modes, limit 1, one event on its way, two incidents | a flow that runs can be stopped; streams are not mixed up; the counter is right; every request is answered |
| `inbox` | one contact with two ids, two messages, two handlers and two checks at a time, one incident | a takeover holds under both ids; one away message; one follow-up; a chat that waits is judged |
| `flow_builds` | every acyclic flow over five nodes with up to five edges, plain for predictions and upserts, or with a decision and a loader; any order of neighbours | the build implements `BuildOrder`; nothing is built three times, nor twice for an upsert; what is executed was built |

Why the bounds are enough: the shapes of flow cover every case of `setupNodeDependencies`
(required input, conditional group, both), every kind of node and a loop; two requests make
an execution and its resume, three with two at a time an answer that races another, four a
stop, a failed resume, a second resume and its successor. Three recipients in two chunks give
a creation in the middle, a failed number and one more message; one crash is
the least that can repeat a message. Two faults can, too; `campaign_faults` holds with two in
about four times the time, and `MessageOnce` covers any number of them. The poll, the
timers, the start and the creation of the device meet at the lock of `initSession`, and two
sockets are the least that could be connected together; a third could only be added to two that
are already wrong. `ConnectedOnce` and `StatusTells` cover any number of polls, sockets and errors
(with two polls the invariants also hold in three million states, where liveness takes too long to
be run each time). Three documents give a source that comes in two batches and another
that is left alone; a failed call, its repetition and a third beside it are the three calls.
Two requests of one chat are all that share a key, and two incidents an abort that meets a crash;
requests of other chats meet only in the counter. That no response receives events of another
chat, the first half of `OwnStream`, is therefore not exercised by the run and rests on
`StreamsApart` (the invariants also hold with a third request, of another chat, in ten million
states, too many for a run that also checks liveness). Two messages in
the works, two checks and one incident are the least for each race of the inbox (a larger inbox, with a
million states, passes as well). Five nodes and five edges
give a node that two ways of different length lead to, several ends, and a decision whose branches
are apart or meet, both without and with a node that may not end a flow. `indexing` with larger bounds (2.6 million states) passes as well; it takes
too long to be run each time.

`TypeOK` of `Predictions`, `WhatsAppInbox` and `FlowBuild` is proved and left out of their runs.

Deadlock is checked for the campaigns only, whose loop never stops. Everywhere else the system
may be done: all requests have ended, a device has no events left, a build is over.

### Fairness

`AgentFlow!FairSpec` has weak fairness of the steps of each request that was accepted: a
promise of Node.js that is resolved is continued, and models, tools and the database answer
or fail in the end (they have time limits of their own). Arrivals, aborts and crashes are not
fair. `WhatsAppCampaign!FairSpec` has weak fairness of the loop, which `startQueueLoop`
repeats forever and which catches every error, and of the end of each cooldown, which is the
passing of time. Requests, devices, dates and faults are not fair. `WhatsAppSession!FairSpec`
has weak fairness of the calls of `initSession` and of the handlers, of the timers, of a poll
that has read the row and of the start of the server, which are all continued by Node.js, and
of what Baileys does on its own: connecting a socket with valid credentials, closing one with
revoked ones, sending the close event of an ended one. Users, losses, crashes and errors are not
fair: nothing has to fail.
`Indexing!Fairness` has the steps of each call, which Node.js continues, and the arrival of
deletions that were sent; `Predictions!Fairness`
the handlers, the flow (which ends, if only with an error or a time limit), the delivery of
events and the workers, which take and end jobs: BullMQ gives a job away as long as there is a
worker, and a worker that dies is started again. `WhatsAppInbox!Fairness` has the start of the
check, which `setInterval` repeats every minute, and the end of a judgement; it is not needed of
the handlers.

### What does not hold

`double_answer` is the run that refutes a statement of the code: two answers to one stop both
pass the check, and the second reopens an execution that the first has finished.

Four more statements are written down in the modules as properties that do not hold, each with
the reason; TLC finds the behaviour when the property is given to a run of the named instance.

- `AgentFlow!SomeBranchRuns` (flows `MCSameTarget`): when both outputs of a condition lead to one
  node, it is skipped with the output that was not taken, and no branch runs, although "at least
  one branch executes" (`buildAgentflow.ts:779`).
- `WhatsAppCampaign!CompletedHasNoPending` (one scheduled campaign): a campaign whose date has
  arrived is completed before its recipients are saved ("No more pending recipients",
  `WhatsAppCampaignManager.ts:132`).
- `WhatsAppCampaign!PauseHolds` (one campaign, two requests): a pause or a deletion during a step
  is undone by the save of the copy the step works on ("Pause Campaign" in the page).
- `WhatsAppSession!LinkIsFresh` (`MaxLinks = 2`): `connectedAt` is set to `undefined` on logout,
  which `save()` leaves out; the next link keeps the time of the first ("Reset connectedAt on
  logout so next link starts fresh", `WhatsAppSessionManager.ts:945`).

The assumptions of the runs are the other limits of what holds; each was checked to be needed.

- `AgentFlow`: a join of two routes below one branch of a condition runs once for each of them,
  because one input of a conditional group is enough (`buildAgentflow.ts:740`); a stop beside another
  route and a join below two decisions leave `FINISHED` executions incomplete. `MCFlowShapes` names
  the smallest flows.
- `Indexing` with `Careful = FALSE`: calls whose scopes meet, keys of the same second or
  deletions that are still on their way break the promise of `IndexedStore`.
- `WhatsAppInbox` with `MayRace = TRUE`: a chat that is deleted while its chatbot is looked up is
  set anew with the away message, and a human who took over meanwhile loses the pause.
- `WhatsAppInbox!FollowUpOnce` excepts a contact whose pause is lifted while a check stands between
  its two chats and awaits the judgement of another contact: the check skips the paused chat without
  a mark that the contact was processed (`WhatsAppSessionManager.ts:1245`), judges and marks only
  the second chat, and the next check follows up the first one again ("Skip to avoid duplicate
  spam!"). Met while proving; it takes two contacts and two incidents, so the run of the inbox does
  not meet it.
- `WhatsAppSession` with `MayStall = TRUE`: a save of `open` that outlasts a lost connection and
  the ten seconds to the next call lets the old handler release the lock of the new call.
  `OneSocket`, `StatusIsTrue` and `ComesBack` speak of the time before a deletion is asked for;
  afterwards they do not hold (see the hazards of `closeSession`).
- `WhatsAppSession`, without the exceptions for errors: after an error in `initSession` a linked
  device stays offline until the next start, with a row that may still say `CONNECTED`, because
  the lock is kept (`WhatsAppSessionManager.ts:823-844`) and the catch of the timer (938) only logs.
- `Predictions`: requests of one chat that are open together lose a controller and a stream, and
  requests side by side pass the quota check together. An abort that comes before the worker has
  taken the job is lost; events and aborts that come late reach the next request of the chat.
- `FlowBuild`: that a prediction builds each node once does not hold. With the edges n1-n2, n1-n5,
  n3-n4, n4-n5 the end n5 is due at two depths while it waits in the queue, and its `init()` is
  called twice; the code takes such a node for a cycle (`utils/index.ts:728`). An
  `ifElseFunction` whose branches share a node ignores the branch it took as well, and then the
  decision, or an end that was not built, is executed (`BranchesApart`); one that is built twice
  can take both branches. An end is moved to the end of `flowNodes` when nothing of the next depth
  is left beside its turn, and what is there may belong to another end: with the edges n1-n2, n2-n4,
  n4-n6, n3-n5, n3-n6, where n3 is an `ifElseFunction` that takes n5, n3 is a start of the end n5
  and has depth 2 by the end n6, so the turn of n5 finds n3 beside it, n5 is not moved, and n6,
  which was ignored, is executed (`utils/index.ts:746`). `ExecutedIsBuilt` therefore speaks of ends that
  agree on the depths of the nodes they share (`DepthsAgree`). Met while proving: it takes six
  nodes, one more than the run has; with the condition it also held in a run of the flows of six
  nodes whose third one decides, and in one of five nodes with two decisions.

Met on the way and listed as hazards only: of an output that was not taken only the first edge
is looked at, so the other nodes on it run; a stop ends the whole loop, also the routes beside
it; deleting a campaign takes what it sent today out of the daily count; for an unlimited plan
the counter of predictions takes over the limit -1, which nothing reads.

## Proofs

All theorems are checked by TLAPS 1.4.5 with Z3, Zenon and LS4. They assume what the modules
assume by name, which TLC evaluates in every run: `FlowAssumption` and `BoundAssumption` (edges
join nodes of their flow, a decision has an output, the bounds are numbers), `CampaignAssumption`
(each recipient is in one chunk of one campaign, every campaign has a device) and `RowAssumption`,
`SessionAssumption` and `NoRowAssumption` (no row is not a row), `IndexingAssumption`,
`RequestsAssumption` and its neighbours, `InboxAssumption`, `FlowBuildAssumption` (the flows are
over the given nodes, each listed) and `AcyclicAssumption` (no edges form a cycle; only the theorems
about the order of a build rest on it). Each file of proofs starts with types, which several of the
other invariants rest on; a step is proved action by action.

Some theorems have a hypothesis. Each is a condition under which the code is used, which at least
one run meets, and without which the property fails:

| Hypothesis | Theorems | Why |
|---|---|---|
| `MaxActive = 1` | `LifecycleImplemented`, `WorkIsKept` | the user interface waits for an answer; two resumes of one stop each write their own copy of the row (`double_answer`) |
| `OneByOne` | `StopsHaveButtons` | in addition the client answers a stop it was shown last (`~StaleResume`), as the buttons of the page do |
| `SingleBranches` | `TakenBranchesRun` | `determineNodesToIgnore` looks at one edge of an output that was not taken, and the nodes at its other edges run |
| `~StaleResume`, `LoopFreeRunOnce` | `NodesFinishOnce` | the client answers the stop it was shown; two routes below one branch of a condition each start their join (flow `ForkBelow`) |
| `~StaleResume`, `ExecutedFlowsComplete` | `FinishedExecutionsComplete` | a stop forgets the routes beside it (`SideStop`), a join below two decisions may wait for ever (`Crossed`), a node at two outputs of a decision is lost (`SameTarget`) |
| `Careful` | `KeysTell`, `RetryPutsRight`, `WantedIsFound`, `IndexingImplementsStore` | calls whose scopes meet delete what the other one gives |
| `NoDeletions` | `LimitHolds`, `ProgressTells` | a deletion takes the rows of the campaign out of the count of the day and from under the counters |
| `~MayStall` | `ConnectedOnce`, `StatusTells` | a save that outlasts the next events writes an old status and releases another call's lock |
| `MayRace = FALSE` | `TakeoverKept`, `FollowUpComesOnce` | a chat that is deleted while its chatbot is looked up is set anew from a copy |
| `BranchesApart`, `DepthsAgree`, each decision built once | `ExecutedHasBeenBuilt` (in `ExecutedIsBuilt` itself); the first is enough with one end (`LoneEndIsExecuted`) | a decision may take along where it leads; with depths from another end, nothing is left beside an end that is not the last (see above) |

The executor of agentflows (`AgentFlow_proofs`):

- `TypeCorrect` (`TypeOK`), with the bounds on loops and iterations. The code reads the last entry
  of the executed data, the current node and its row without looking whether they are there.
  `TypeOK` alone is not inductive; `Placed` adds at which points of a request each of them is in
  place.
- `InProgressServed` (`InProgressIsServed`): no execution stays `INPROGRESS` by a request that has
  answered, however many run side by side. The property allows a settled request to be the one
  that serves a row, and so it is not inductive. `Held` names a request at a point where the write
  of its row is still before it, or that was lost without it; the proof sorts the actions into
  those that let nobody go and those that write a row.
- `LifecycleImplemented` (`ImplementsLifecycle`), the refinement of `ExecutionLifecycle`. `InHand`
  says that a request that is served has the last row in hand, and in which state: the row was read
  when the request arrived, several writes ago.
- `WorkIsKept` (`FinishedWorkIsKept`, an action property): `Work` says that the copy of a request
  carries every finished step of its row, and `Stops` that only nodes that wait for a human are
  stopped, so that the filter that drops the old stop before the row is written takes nothing else.
- `TakenBranchesRun` and `InputsComeFirst` (`OnlyTakenBranchesRun`, `RunsAfterItsInputs`), for flows
  of any shape. `Queued` says of everything in the queue that it was called for: by a taken branch
  and complete inputs, by a loop or by the human, and that the inputs a waiting node has counted
  are finished. An answer starts with an empty waiting list (`Answering`).
- `StopsHaveButtons` (`ResumableHasAction`): an execution has one stop, at the end of its data
  (`Orderly`); `AnswersAt` follows it through the copy of the request that resumes it, and until it
  is answered some message has its buttons (`HaveButtons`, `QuietHasButtons`).
- `NodesFinishOnce` (`EachNodeFinishesOnce`): for loop-free flows and any requests side by side. A
  node that is planned, waits for its answer or has finished was started by inputs that are enough
  and that are no longer counted as waiting (`Used`); the steps of an execution are a course of the
  flow (`Sound`, `SoundCourse`), in a course at most one input of a conditional group comes, so
  those inputs are all that will ever call the node (`OneSupply`) and nothing can start it again. It
  rests on `Deliveries`: what is left of the children is what the last node calls and has not
  called yet, and no waiting node has all it needs.
- `FinishedExecutionsComplete` (`FinishedIsComplete`): all that a finished node calls has run after
  it, is planned, waits with its result or is about to be called (`Handled`). Three steps forget
  what is planned and what waits: a stop, an error after a stop, and the end of the queue. At a stop
  nothing else is called (`StopsLast`), while a stop is being answered nothing else is planned
  (`AnsweringAlone`), and when the queue is empty nothing waits (`NothingWaits`). In flows without
  parallel routes that is because one node at most is queued or called (`Single`), with loops and
  stops anywhere; in the others because of the courses of the flow.

`FlowShapes` states the shapes as formulas about the graph alone, over the sets of steps a run can
take (`Courses`), not over the executor: `RunsOnce`, and `Completes`, which is `OneAtATime` or
`RunsOnce`, `JoinsFill` and `StopsAlone`. `MCFlowShapes` has TLC evaluate them: every flow of the
runs that can be executed has them, in one way (`Loop`, `AskAgain`, `Approval`) or in the other (`Fork`,
`Mixed`, `JoinHuman`), and `ForkBelow`, `SideStop`, `Crossed` and `SameTarget` each lack one. Given one of
these four flows, the instance of `session` violates the property.

Campaigns (`WhatsAppCampaign_proofs`):

- `CampaignsTyped` (`TypeOK`): `Held` says at which points of a step its recipient, its campaign
  and its device are in place.
- `MessageOnce` (`NoMessageTwice`): a message goes out once, and again at most once
  for each crash and each pair of faults. The inductive invariant is an account: a message
  costs two points, a crash pays two and a fault one, and `Credit(r)` says how far the account
  of a recipient may be overdrawn by what its row and the loop know of it (two when the row is
  not `PENDING` any more or the loop is about to write it, one after the first failed save).
  It needs that a recipient is put into the table once (`Untouched`) and that the loop counts
  only what it has written (`Written`).
- `RowsTell` (`RowsAreTrue`): without crashes and faults a row that exists says
  whether its message went out, from the account and `Truth`, through every interleaving of
  pauses, starts and deletions with a step.
- `LimitHolds` (`DailyLimitHolds`): `Told(d)` is the number of messages of a device that is
  accounted for, by the rows of today, by the row about to be written, by crashes and by faults, and
  no message goes out that is not (`AllTold`). The check reads the rows of the day the step began
  on, so the step has to know that its own row was `PENDING` then (`PendingStep`) and that
  midnight only makes room.
- `ProgressTells` (`ProgressIsTrue`): whoever saves a campaign writes a copy that it read before,
  whole. `Versions(c)` are all the copies that are about; none of them may be ahead of the rows,
  but for the count in progress (`Behind`), and while nobody interferes all are equal to them
  (`Exact`).

Sessions (`WhatsAppSession_proofs`):

- `ConnectedOnce` (`~MayStall => OneSocket`): a device is never connected twice
  before its deletion. `OneSocket` says nothing of the calls that have not made their socket
  yet; `Apart` adds that at most one call or socket is under way, that a call holds the lock
  (`Locked`), that a socket is the client (`IsClient`), and that the handler of `open` releases
  the lock while its own socket is still open (`OpeningIsOpen`), which is where `MayStall` is
  needed.
- `StatusTells` (`~MayStall => StatusIsTrue`): every socket saves its own copy of the row, so the
  invariant says who may still save: between a crash and the start nobody (`Asleep`), a QR code is
  encoded only for a socket nobody has linked (`EncodingIsNew`), a request for one goes on only
  while the device is not connected (`PollingIsClosed`), and who finds the lock or a client finds
  somebody who will connect, or what an error has left behind (`LockHasOwner`). A socket that is
  not open yet has the lock (`LockIsKept`), and a device whose socket comes online is not shown as
  disconnected (`InUseIsShown`), so that nobody asks for its code.
- `SessionTyped` (`TypeOK`), with a database as slow as it likes.

All three hold for any number of failed calls.

Indexing (`Indexing_proofs`):

- `IndexingTyped` (`TypeOK`), by `Busy`: a call has a job exactly while it is not idle.
- `KeysTell` (`KeysHaveDocuments`): a key in the record manager stands for
  a document in the store, unless its deletion is under way or was cut in two by a failure. A
  call writes a key it found some awaits earlier; `KInv` says what it may count on until
  then, which is that no other call deletes in its scope and no deletion sent earlier arrives.
- `RetryPutsRight`, `WantedIsFound` and `IndexingImplementsStore` (`RetryHeals`, `WantedStays`, and
  `Promise`, the refinement of `IndexedStore`) share the invariant `PInv`, which adds how far a call
  has got (`Progress`): what it has given bears its stamp (`Stamped`) and nothing else in its scope
  does (`Fresh`), what it is about to delete is stale (`Listed`), and when it ends nothing stale is
  left (`Counted`, `Swept`). `Blamed` and `Unkeyed` hold a failed job responsible for each document
  whose deletion was cut in two and for each that got no key.

Predictions (`Predictions_proofs`):

- `FlowsStoppable` and `StreamsApart` (`Stoppable`, `OwnStream`): the
  invariant says where the flow of a request is placed (`Placed`), that two open requests of a
  chat are both known to be shared (`SharedTold`), that a chat streams to an open request of its
  own (`StreamsOpen`) and that only workers use the channel (`ChannelUsed`). `PredictionsTyped`
  is the type.
- `QuotaKept` (`QuotaHolds`): while no two updates overlap, the counter is the number of
  predictions, cut at the limit, and an update has read it as it is (`Apart`). While no two requests
  are open together the counter is no less than that, also when it expires between the two
  halves of an update, and a request that passed the check has room (`Alone`).

The inbox (`WhatsAppInbox_proofs`):

- `InboxTyped` is the type, with the loop of the check over the live Map.
- `TakeoverKept` (`TakeoverHolds`): the invariant says that a takeover
  is on the records of both ids as soon as the store knows they are one, whoever tells it, and
  that nothing in the works holds a record it would put in the place of a paused one.
- `AwayComesOnce` (`AwayOnce`, an action property): the mark of the day is on every record under
  which the contact may come in (`Told`), also after the ids have been joined.
- `FollowUpComesOnce` (`FollowUpOnce`, an action property): the marks are on the chat of the contact
  that came first (`Followed`), and it is that chat a check judges (`Foremost`), although it reads
  the store anew after each judgement: what it has passed it has taken for done (`Passed`), or it
  was paused, and a pause is on both chats (`Together`).

Building a flow (`FlowBuild_proofs`):

- `BuiltTwiceAtMost` (`TwiceAtMost`): for any flow and any order of its keys, no node is
  initialised three times and the limit of loops is never reached. The queue is sorted and holds
  at most two depths (`Layers`), a node once for each (`OncePerDepth`); while a node is not
  initialised it waits at the depth it was last seen at (`SeenInOrder`, `Loops`), and once it is,
  at most one entry of it is left (`Counted`). `BuildTyped` is the type.
- `BuildOrderImplemented` (`ImplementsBuildOrder`), the refinement of `BuildOrder`: a turn prepares a
  node whose inputs are ready, and the build is done when nothing wanted is left. The first is an
  invariant of the queue (`Fed`). The second (`BuildIsComplete`) is about an empty queue: take the
  last end that a node which is left out leads to. None of what leads there is ignored, because
  what a decision takes along is connected, so it would be all of it (`Whole`,
  `ConnectedIsClosed`); so all that is left out there has its depth from this end. The least deep
  of it has its inputs initialised. If there are any, the last of them called it (`Called`). If
  not, its depth has come up (`Brought`), because on a longest way to the end a node is
  initialised at the depth before, which is not initialised before as many turns (`Climbed`).
  Depths are lengths of ways, built by recursive functions; `Recursion`, `Ranks` (acyclic
  flows have ranks) and `DepthsDescend` say what they do for flows of any size, by induction with
  the least number of a set.
- `UpsertIsOnce` (`UpsertBuildsOnce`): an upsert goes through the reversed graph, of which a turn
  has only nodes that are initialised, so all it takes is brought by its depth (`AtItsDepth`).
- `LoneEndIsExecuted`, what `ExecutedIsBuilt` says of a flow with one end, without its conditions
  on depths and repeated decisions: from the branch a decision took, edges that do not leave the
  decision lead to the end, so what it takes along has not got the end (`EndIsKept`), and what is
  not ignored is built when the build is done.
- `ExecutedHasBeenBuilt` (`ExecutedIsBuilt`), with any number of ends, of which `Executed` is the one
  moved last. The invariant (`LastInv`) says that the node at the end of the list is initialised,
  or something is left to build (`LeftToBuild`); when the build is done nothing is left
  (`BuildIsComplete`), so it is the former. A turn that does not move its node (`LeftTurn`) found a
  neighbour that is not ignored. What a node leads to is not initialised before it (`Fed`), and
  not ignored when the node is not (`Whole`, `TakenIsKept`), so it is left to build. That leaves
  the turn of an end, and of a decision ignored while it was in the queue, which lead to nothing
  of the kind. Their neighbour is then a node of the next depth (`Untouched`). It leads to an end
  that is not ignored (`Leads`) and is as deep (`DepthsRise`, `DeeperEnd`), and an end is not
  initialised before its depth comes up (`Climbed`, `EndsAreDeep`), so that end is left to build.

`Subsequence_proofs` proves what `Pick`, the filter of sequences, returns and keeps; the filters of
the executor and of the campaigns rest on it.

Every safety property that a passing run checks is stated by a theorem. Only model-checked is
liveness, which TLAPS does not reach.

## Not modelled

The repository has about 250,000 lines of code, most of them the user interface, the library of
several hundred nodes and routes that create, read, update and delete single rows. A model of
those would restate them: what they keep is in one row, and each request is one statement. The
share of lines that the map covers is small for that reason; the components with a protocol of
their own are the ones above.

- Document store: every request saves the whole row of the store that it read before minutes of
  work. Little holds of it beyond single statements, which its hazard says; its upsert into the
  vector store is `Indexing`.
- Rate limiters, caches and pools: maps that are replaced entry by entry.
- `buildAgentGraph`: the order of execution is decided in LangGraph.
- Iteration sub-flows of agentflows, and what nodes compute.
- Identity, evaluations, flow editing, assistants, node library, storage, telemetry, user
  interface: no state of their own that a model would add to.

## Plan

Done, in this order: `FlowGraph`, `AgentFlow` and `ExecutionLifecycle`; `WhatsAppCampaign`;
`WhatsAppSession`; `Indexing` under `IndexedStore`; `WhatsAppInbox`; `Predictions`; `FlowBuild`
under `BuildOrder`; each with its first theorems.

Left:

1. Iteration sub-flows in `AgentFlow`, and joins below nested conditions.
2. The composition of `WhatsAppInbox` with `WhatsAppSession`: a reply that is sent while the
   device reconnects.
