--------------------------- MODULE WhatsAppCampaign ---------------------------
(***************************************************************************)
(* WhatsApp campaigns: the one queue loop of WhatsAppCampaignManager and   *)
(* the requests that create, start, pause and delete campaigns beside it.  *)
(*                                                                         *)
(* The rows of the tables whatsapp_campaign and                            *)
(* whatsapp_campaign_recipient are the shared state. Everybody works on    *)
(* copies: save() of the object mapper writes the copy over the row as it  *)
(* is by then, and puts a row that was deleted back. An action is the code *)
(* from one await to the next.                                             *)
(*                                                                         *)
(* Environment: devices go online and offline, midnight passes, a database *)
(* call may fail and the server may crash. A send that throws did not go   *)
(* out.                                                                    *)
(***************************************************************************)
EXTENDS Subsequence

CONSTANTS Campaigns,
          Recipients,
          Devices,
          NoRow,        \* what a table holds for a row that does not exist
          Chunks,       \* per campaign, its recipients in the chunks they are saved in
          BadNumbers,   \* the recipients whose phone number has no digit
          Scheduled,    \* the campaigns created with a scheduledDate
          Windowed,     \* the campaigns with allowed sending hours
          DeviceIds,    \* per campaign, the sequence of its devices
          DailyLimit,   \* dailyLimit of every campaign
          Requests,     \* bound: the requests there may be beside the creations ...
          Operations,   \* ... and what they ask for: "start", "pause", "delete"
          MaxCrashes, MaxFaults, MaxDays, MaxLosses  \* bounds on the environment

RecipientsOf(c) == UNION {Chunks[c][i] : i \in DOMAIN Chunks[c]}

ASSUME CampaignAssumption ==
    /\ Chunks \in [Campaigns -> Seq(SUBSET Recipients)]
    /\ \A c, d \in Campaigns : c # d => RecipientsOf(c) \cap RecipientsOf(d) = {}
    /\ \A c \in Campaigns : \A i, j \in DOMAIN Chunks[c] :
          i # j => Chunks[c][i] \cap Chunks[c][j] = {}
    /\ BadNumbers \subseteq Recipients
    /\ Scheduled \subseteq Campaigns
    /\ Windowed \subseteq Campaigns
    /\ DeviceIds \in [Campaigns -> Seq(Devices)]
    /\ \A c \in Campaigns : DeviceIds[c] # <<>>
    /\ Operations \subseteq {"start", "pause", "delete"}
    /\ {DailyLimit, MaxCrashes, MaxFaults, MaxDays, MaxLosses} \subseteq Nat

VARIABLES
    campaigns,   \* the rows of whatsapp_campaign
    recipients,  \* the rows of whatsapp_campaign_recipient
    created,     \* per campaign, what its creation has saved: 0, or 1 + chunks
    request,     \* the requests: where each is, and the copy it works on
    pc,          \* where the queue loop is
    batch,       \* the campaigns the loop has still to go through
    copies,      \* its copies of their rows (scheduledCampaigns, runningCampaigns)
    outside,     \* the campaigns outside their hours at `now'
    current,     \* the campaign of the step and the recipient found for it
    active,      \* activeDevices
    attempts,
    selected,    \* selectedDevice
    pointers,    \* campaignDevicePointers
    cooling,     \* the campaigns whose campaignNextSendTimes is ahead
    due,         \* the campaigns whose scheduledDate has arrived
    online,      \* the devices that are CONNECTED and have a client
    today, crashes, faults, losses,
    sends,       \* history: the messages each recipient got
    sentToday    \* history: the messages each device sent today

tables == <<campaigns, recipients>>
loop   == <<batch, copies, outside, current, active, attempts, selected, pointers, cooling>>
world  == <<due, online, today, crashes, faults, losses>>
ghosts == <<sends, sentToday>>
vars == <<campaigns, recipients, created, request, pc, batch, copies, outside, current, active,
          attempts, selected, pointers, cooling, due, online, today, crashes, faults, losses,
          sends, sentToday>>

Statuses == {"PENDING", "SCHEDULED", "RUNNING", "PAUSED", "COMPLETED"}
Campaign  == [status : Statuses, sent : Nat, failed : Nat]
Recipient == [status : {"PENDING"}] \cup
             [status : {"SENT"}, device : Devices, day : Nat] \cup [status : {"FAILED"}]

ASSUME RowAssumption == IsFiniteSet(Recipients) /\ NoRow \notin Campaign \cup Recipient

HasStatus(c, status)    == campaigns[c] # NoRow /\ campaigns[c].status = status
RecipientIs(r, status)  == recipients[r] # NoRow /\ recipients[r].status = status
WithStatus(c, status)   == {r \in RecipientsOf(c) : RecipientIs(r, status)}

Idle == [at |-> "idle"]

Init ==
    /\ campaigns = [c \in Campaigns |-> NoRow]
    /\ recipients = [r \in Recipients |-> NoRow]
    /\ created = [c \in Campaigns |-> 0]
    /\ request = [q \in Requests |-> Idle]
    /\ pc = "top"
    /\ batch = {}
    /\ copies = [c \in Campaigns |-> NoRow]
    /\ outside = {}
    /\ current = NoRow
    /\ active = <<>>
    /\ attempts = 0
    /\ selected = NoRow
    /\ pointers = [c \in Campaigns |-> 0]
    /\ cooling = {}
    /\ due = {}
    /\ online = {}
    /\ today = 0
    /\ crashes = 0
    /\ faults = 0
    /\ losses = 0
    /\ sends = [r \in Recipients |-> 0]
    /\ sentToday = [d \in Devices |-> 0]

-----------------------------------------------------------------------------
(* The requests *)

\* createCampaign saves the campaign first ...
CreateCampaign(c) ==
    /\ created[c] = 0
    /\ campaigns' = [campaigns EXCEPT ![c] =
            [status |-> IF c \in Scheduled THEN "SCHEDULED" ELSE "PENDING",
             sent |-> 0, failed |-> 0]]
    /\ created' = [created EXCEPT ![c] = 1]
    /\ UNCHANGED <<recipients, request, pc, loop, world, ghosts>>

\* ... and then its recipients, chunk by chunk.
SaveChunk(c) ==
    /\ created[c] \in 1 .. Len(Chunks[c])
    /\ recipients' = [r \in Recipients |->
            IF r \in Chunks[c][created[c]] THEN [status |-> "PENDING"] ELSE recipients[r]]
    /\ created' = [created EXCEPT ![c] = @ + 1]
    /\ UNCHANGED <<campaigns, request, pc, loop, world, ghosts>>

\* Every other request reads the row of its campaign first.
ReadCampaign(q, op, c) ==
    /\ request[q] = Idle
    /\ campaigns[c] # NoRow
    /\ request' = [request EXCEPT ![q] = [at |-> op, campaign |-> c, copy |-> campaigns[c]]]
    /\ UNCHANGED <<tables, created, pc, loop, world, ghosts>>

Finished == [at |-> "finished"]

\* startCampaign and pauseCampaign: the copy is saved with the new status.
SaveStatus(q) ==
    /\ request[q].at \in {"start", "pause"}
    /\ campaigns' = [campaigns EXCEPT ![request[q].campaign] =
            [request[q].copy EXCEPT !.status =
                IF request[q].at = "start" THEN "RUNNING" ELSE "PAUSED"]]
    /\ request' = [request EXCEPT ![q] = Finished]
    /\ UNCHANGED <<recipients, created, pc, loop, world, ghosts>>

\* deleteCampaign: the recipients go first.
DeleteRecipients(q) ==
    /\ request[q].at = "delete"
    /\ recipients' = [r \in Recipients |->
            IF r \in RecipientsOf(request[q].campaign) THEN NoRow ELSE recipients[r]]
    /\ request' = [request EXCEPT ![q].at = "deleting"]
    /\ UNCHANGED <<campaigns, created, pc, loop, world, ghosts>>

DeleteCampaign(q) ==
    /\ request[q].at = "deleting"
    /\ campaigns' = [campaigns EXCEPT ![request[q].campaign] = NoRow]
    /\ request' = [request EXCEPT ![q] = Finished]
    /\ UNCHANGED <<recipients, created, pc, loop, world, ghosts>>

-----------------------------------------------------------------------------
(* processQueue *)

\* The scheduled campaigns are read, and `now' is taken: it decides who is outside its hours.
LoadScheduled ==
    /\ pc = "top"
    /\ batch' = {c \in due : HasStatus(c, "SCHEDULED")}
    /\ copies' = campaigns
    /\ outside' \in SUBSET Windowed
    /\ pc' = "starting"
    /\ UNCHANGED <<tables, created, request, current, active, attempts, selected, pointers,
                   cooling, world, ghosts>>

\* Mutant: the new status of a scheduled campaign is not saved.
AutoStartUnsaved(c) ==
    /\ pc = "starting"
    /\ c \in batch
    /\ batch' = batch \ {c}
    /\ UNCHANGED <<tables, created, request, pc, copies, outside, current, active, attempts,
                   selected, pointers, cooling, world, ghosts>>

\* A scheduled campaign whose date has arrived is saved as RUNNING.
AutoStart(c) ==
    /\ pc = "starting"
    /\ c \in batch
    /\ campaigns' = [campaigns EXCEPT ![c] = [copies[c] EXCEPT !.status = "RUNNING"]]
    /\ batch' = batch \ {c}
    /\ UNCHANGED <<recipients, created, request, pc, copies, outside, current, active, attempts,
                   selected, pointers, cooling, world, ghosts>>

\* The running campaigns are read at once, for all the steps that follow.
LoadRunning ==
    /\ pc = "starting"
    /\ batch = {}
    /\ batch' = {c \in Campaigns : HasStatus(c, "RUNNING")}
    /\ copies' = campaigns
    /\ pc' = "running"
    /\ UNCHANGED <<tables, created, request, outside, current, active, attempts, selected,
                   pointers, cooling, world, ghosts>>

\* A campaign in its cooldown or outside its hours is left for the next round.
Skip(c) ==
    /\ pc = "running"
    /\ c \in batch \cap (cooling \cup outside)
    /\ batch' = batch \ {c}
    /\ UNCHANGED <<tables, created, request, pc, copies, outside, current, active, attempts,
                   selected, pointers, cooling, world, ghosts>>

EndRound ==
    /\ pc = "running"
    /\ batch = {}
    /\ pc' = "top"
    /\ UNCHANGED <<tables, created, request, loop, world, ghosts>>

-----------------------------------------------------------------------------
(* processCampaignStep *)

c0 == current.campaign
r0 == current.recipient

\* The locals of a step that has ended.
ClearStep ==
    /\ current' = NoRow
    /\ active' = <<>>
    /\ attempts' = 0
    /\ selected' = NoRow

\* The step returns and the loop goes on with the next campaign.
Return ==
    /\ pc' = "running"
    /\ batch' = batch \ {c0}
    /\ ClearStep

\* The order by createdDate does not tell the recipients of a chunk apart.
PickRecipient(c) ==
    /\ pc = "running"
    /\ c \in batch \ (cooling \cup outside)
    /\ IF WithStatus(c, "PENDING") = {}
       THEN /\ current' = [campaign |-> c, recipient |-> NoRow, since |-> today]
            /\ pc' = "completing"
       ELSE /\ \E r \in WithStatus(c, "PENDING") :
                  current' = [campaign |-> c, recipient |-> r, since |-> today]
            /\ pc' = "checking"
    /\ UNCHANGED <<tables, created, request, batch, copies, outside, active, attempts, selected,
                   pointers, cooling, world, ghosts>>

\* Mutant: the new status is not saved.
EndUnsaved(status) ==
    /\ Return
    /\ UNCHANGED <<tables, created, request, copies, outside, pointers, cooling, world, ghosts>>

\* The copy of the campaign is saved with a new status.
EndWith(status) ==
    /\ campaigns' = [campaigns EXCEPT ![c0] = [copies[c0] EXCEPT !.status = status]]
    /\ Return
    /\ UNCHANGED <<recipients, created, request, copies, outside, pointers, cooling, world,
                   ghosts>>

Complete == pc = "completing" /\ EndWith("COMPLETED")
Pause    == pc = "pausing" /\ EndWith("PAUSED")

\* The devices that are connected; todayStart is taken after it. The code awaits the row of
\* each device in turn; here all are read at once.
CheckDevices ==
    /\ pc = "checking"
    /\ LET devices == DeviceIds[c0]
       IN  active' = Pick(devices, {i \in DOMAIN devices : devices[i] \in online})
    /\ current' = [current EXCEPT !.since = today]
    /\ pc' = IF active' = <<>> THEN "pausing" ELSE "choosing"
    /\ UNCHANGED <<tables, created, request, batch, copies, outside, attempts, selected,
                   pointers, cooling, world, ghosts>>

\* dailySentCount of a device
DailySentCount(d) ==
    Cardinality({r \in Recipients : /\ RecipientIs(r, "SENT")
                                    /\ recipients[r].device = d
                                    /\ recipients[r].day >= current.since})

\* Mutant: a device at its limit may send one more.
OneOverLimit(d) == DailySentCount(d) <= DailyLimit
UnderLimit(d)   == DailySentCount(d) < DailyLimit

\* Mutant: one attempt more than there are devices.
ExhaustedLate == attempts = Len(active)
Exhausted     == attempts + 1 = Len(active)

\* Round robin over the active devices, one count at a time. A device whose client is gone
\* by now ends the step, and a recipient without a number fails.
TryDevice ==
    LET index == (pointers[c0] + attempts) % Len(active)
        d == active[index + 1]
    IN  /\ pc = "choosing"
        /\ IF ~UnderLimit(d)
           THEN /\ attempts' = attempts + 1
                /\ pc' = IF Exhausted THEN "pausing" ELSE "choosing"
                /\ UNCHANGED <<batch, current, active, selected, pointers>>
           ELSE /\ pointers' = [pointers EXCEPT ![c0] = (index + 1) % Len(active)]
                /\ IF d \notin online
                   THEN Return
                   ELSE /\ selected' = d
                        /\ pc' = IF r0 \in BadNumbers THEN "rejecting" ELSE "sending"
                        /\ UNCHANGED <<batch, current, active, attempts>>
        /\ UNCHANGED <<tables, created, request, copies, outside, cooling, world, ghosts>>

\* The message goes out, or sendMessage throws or returns nothing.
Send ==
    /\ pc = "sending"
    /\ \/ /\ selected \in online
          /\ sends' = [sends EXCEPT ![r0] = @ + 1]
          /\ sentToday' = [sentToday EXCEPT ![selected] = @ + 1]
          /\ pc' = "savingSent"
       \/ /\ pc' = "savingFailed"
          /\ UNCHANGED ghosts
    /\ UNCHANGED <<tables, created, request, loop, world>>

\* Mutant: the row of the recipient is not written.
SaveNothing ==
    /\ pc = "savingSent"
    /\ pc' = "countingSent"
    /\ UNCHANGED <<tables, created, request, loop, world, ghosts>>

\* The recipient is saved as SENT, whatever became of its row meanwhile.
SaveSent ==
    /\ pc = "savingSent"
    /\ recipients' = [recipients EXCEPT ![r0] =
            [status |-> "SENT", device |-> selected, day |-> today]]
    /\ pc' = "countingSent"
    /\ UNCHANGED <<campaigns, created, request, loop, world, ghosts>>

\* The catch block, and the refusal of a number, save the recipient as FAILED.
SaveFailed ==
    /\ pc \in {"savingFailed", "rejecting"}
    /\ recipients' = [recipients EXCEPT ![r0] = [status |-> "FAILED"]]
    /\ pc' = IF pc = "rejecting" THEN "countingRejected" ELSE "countingFailed"
    /\ UNCHANGED <<campaigns, created, request, loop, world, ghosts>>

OneMoreSent   == [copies EXCEPT ![c0].sent = @ + 1]
OneMoreFailed == [copies EXCEPT ![c0].failed = @ + 1]

\* Mutant: a message that was sent is counted as failed as well.
CountTwice ==
    /\ pc = "countingSent"
    /\ copies' = [copies EXCEPT ![c0].sent = @ + 1, ![c0].failed = @ + 1]
    /\ campaigns' = [campaigns EXCEPT ![c0] = copies'[c0]]
    /\ cooling' = cooling \cup {c0}
    /\ Return
    /\ UNCHANGED <<recipients, created, request, outside, pointers, world, ghosts>>

\* The counter is saved with the rest of the copy; the cooldown begins.
CountSent ==
    /\ pc = "countingSent"
    /\ copies' = OneMoreSent
    /\ campaigns' = [campaigns EXCEPT ![c0] = copies'[c0]]
    /\ cooling' = cooling \cup {c0}
    /\ Return
    /\ UNCHANGED <<recipients, created, request, outside, pointers, world, ghosts>>

\* A refused number starts no cooldown.
CountFailed ==
    /\ pc \in {"countingFailed", "countingRejected"}
    /\ copies' = OneMoreFailed
    /\ campaigns' = [campaigns EXCEPT ![c0] = copies'[c0]]
    /\ cooling' = IF pc = "countingFailed" THEN cooling \cup {c0} ELSE cooling
    /\ Return
    /\ UNCHANGED <<recipients, created, request, outside, pointers, world, ghosts>>

-----------------------------------------------------------------------------
(* The environment *)

\* A database call of the loop throws. The two saves after the message are inside the try:
\* the recipient is to become FAILED. Any other ends the round.
DatabaseFails ==
    /\ faults < MaxFaults
    /\ faults' = faults + 1
    /\ \/ /\ pc = "savingSent"
          /\ pc' = "savingFailed"
          /\ UNCHANGED loop
       \/ /\ pc = "countingSent"
          /\ copies' = OneMoreSent
          /\ pc' = "savingFailed"
          /\ UNCHANGED <<batch, outside, current, active, attempts, selected, pointers, cooling>>
       \/ /\ pc \notin {"sending", "savingSent", "countingSent"}
          /\ pc' = "top"
          /\ batch' = {}
          /\ ClearStep
          /\ UNCHANGED <<copies, outside, pointers, cooling>>
    /\ UNCHANGED <<tables, created, request, due, online, today, crashes, losses, ghosts>>

\* A chunk of a creation cannot be saved: the campaign stays with the chunks before it.
CreationFails(c) ==
    /\ faults < MaxFaults
    /\ faults' = faults + 1
    /\ created[c] \in 1 .. Len(Chunks[c])
    /\ created' = [created EXCEPT ![c] = Len(Chunks[c]) + 1]
    /\ UNCHANGED <<tables, request, pc, loop, due, online, today, crashes, losses, ghosts>>

\* The server goes down: the rows stay, the loop starts anew with empty maps.
Crash ==
    /\ crashes < MaxCrashes
    /\ crashes' = crashes + 1
    /\ pc' = "top"
    /\ batch' = {}
    /\ outside' = {}
    /\ ClearStep
    /\ copies' = [c \in Campaigns |-> NoRow]
    /\ pointers' = [c \in Campaigns |-> 0]
    /\ cooling' = {}
    /\ online' = {}
    /\ request' = [q \in Requests |-> IF request[q] = Idle THEN Idle ELSE Finished]
    /\ created' = [c \in Campaigns |-> IF created[c] = 0 THEN 0 ELSE Len(Chunks[c]) + 1]
    /\ UNCHANGED <<tables, due, today, faults, losses, ghosts>>

DateArrives(c) ==
    /\ c \in Scheduled \ due
    /\ due' = due \cup {c}
    /\ UNCHANGED <<tables, created, request, pc, loop, online, today, crashes, faults, losses,
                   ghosts>>

CooldownEnds(c) ==
    /\ c \in cooling
    /\ cooling' = cooling \ {c}
    /\ UNCHANGED <<tables, created, request, pc, batch, copies, outside, current, active,
                   attempts, selected, pointers, world, ghosts>>

Midnight ==
    /\ today < MaxDays
    /\ today' = today + 1
    /\ sentToday' = [d \in Devices |-> 0]
    /\ UNCHANGED <<tables, created, request, pc, loop, due, online, crashes, faults, losses,
                   sends>>

Connect(d) ==
    /\ d \notin online
    /\ online' = online \cup {d}
    /\ UNCHANGED <<tables, created, request, pc, loop, due, today, crashes, faults, losses,
                   ghosts>>

Disconnect(d) ==
    /\ losses < MaxLosses
    /\ losses' = losses + 1
    /\ d \in online
    /\ online' = online \ {d}
    /\ UNCHANGED <<tables, created, request, pc, loop, due, today, crashes, faults, ghosts>>

Loop ==
    \/ LoadScheduled
    \/ LoadRunning
    \/ EndRound
    \/ \E c \in Campaigns : AutoStart(c) \/ Skip(c) \/ PickRecipient(c)
    \/ Complete
    \/ CheckDevices
    \/ TryDevice
    \/ Pause
    \/ Send
    \/ SaveSent
    \/ SaveFailed
    \/ CountSent
    \/ CountFailed

User ==
    \/ \E c \in Campaigns : CreateCampaign(c) \/ SaveChunk(c)
    \/ \E q \in Requests, op \in Operations, c \in Campaigns :
          ReadCampaign(q, op, c)
    \/ \E q \in Requests : SaveStatus(q) \/ DeleteRecipients(q) \/ DeleteCampaign(q)

World ==
    \/ DatabaseFails
    \/ \E c \in Campaigns : CreationFails(c) \/ DateArrives(c) \/ CooldownEnds(c)
    \/ Crash
    \/ Midnight
    \/ \E d \in Devices : Connect(d) \/ Disconnect(d)

Next == Loop \/ User \/ World

Spec == Init /\ [][Next]_vars

\* The loop never stops (startQueueLoop) and every delay of a campaign runs out.
FairSpec == Spec /\ WF_vars(Loop) /\ \A c \in Campaigns : WF_vars(CooldownEnds(c))

-----------------------------------------------------------------------------
(* Properties *)

Points == {"top", "starting", "running", "completing", "checking", "pausing", "choosing",
           "rejecting", "sending", "savingSent", "savingFailed", "countingSent",
           "countingFailed", "countingRejected"}

\* The points of a step that has found a recipient.
InStep == Points \ {"top", "starting", "running", "completing"}

RequestStates ==
    {Idle, Finished} \cup
    [at : {"start", "pause", "delete", "deleting"}, campaign : Campaigns, copy : Campaign]

Steps ==
    [campaign : Campaigns, recipient : Recipients \cup {NoRow}, since : 0 .. MaxDays]

TypeOK ==
    /\ campaigns \in [Campaigns -> Campaign \cup {NoRow}]
    /\ recipients \in [Recipients -> Recipient \cup {NoRow}]
    /\ created \in [Campaigns -> Nat]
    /\ \A c \in Campaigns : created[c] <= Len(Chunks[c]) + 1
    /\ request \in [Requests -> RequestStates]
    /\ pc \in Points
    /\ batch \subseteq Campaigns
    /\ copies \in [Campaigns -> Campaign \cup {NoRow}]
    /\ \A c \in batch : copies[c] # NoRow
    /\ outside \subseteq Windowed
    /\ current \in Steps \cup {NoRow}
    /\ pc \in InStep => r0 \in RecipientsOf(c0)
    /\ active \in Seq(Devices)
    /\ pc = "choosing" => attempts < Len(active)
    /\ selected \in Devices \cup {NoRow}
    /\ pointers \in [Campaigns -> Nat]
    /\ cooling \subseteq Campaigns
    /\ due \subseteq Scheduled
    /\ online \subseteq Devices
    /\ today \in 0 .. MaxDays
    /\ crashes \in 0 .. MaxCrashes
    /\ faults \in 0 .. MaxFaults
    /\ losses \in 0 .. MaxLosses
    /\ sends \in [Recipients -> Nat]
    /\ sentToday \in [Devices -> Nat]

\* A recipient gets the message once. It can get it again only when the server goes down
\* between the message and its row (one crash each), or when both the save of SENT and the
\* save of FAILED after it fail (two faults each): no pause, start, deletion or restart of
\* the campaign repeats a message.
NoMessageTwice == \A r \in Recipients : 2 * sends[r] <= 2 + 2 * crashes + faults

\* Without crashes and faults the rows tell what happened: SENT is a message that went out,
\* and PENDING or FAILED is one that did not, also in rows that were deleted meanwhile.
RowsAreTrue ==
    crashes = 0 /\ faults = 0 =>
        \A r \in Recipients : recipients[r] # NoRow =>
            \/ pc = "savingSent" /\ r0 = r
            \/ RecipientIs(r, "SENT") <=> sends[r] = 1

\* No device sends more than dailyLimit messages a day, over all campaigns, restarts and
\* midnights; a crash or a fault after a message hides one message each from the count.
DailyLimitHolds == \A d \in Devices : sentToday[d] <= DailyLimit + crashes + faults

\* The progress that is shown is never ahead of the rows: requests and crashes only lose
\* counts. While nobody interferes it is exact.
ProgressIsTrue ==
    \A c \in Campaigns : campaigns[c] # NoRow /\ faults = 0 =>
        LET sent == Cardinality(WithStatus(c, "SENT"))
            failed == Cardinality(WithStatus(c, "FAILED"))
        IN  /\ campaigns[c].sent <= sent /\ campaigns[c].failed <= failed
            /\ \/ crashes > 0
               \/ \E q \in Requests : request[q] # Idle
               \/ pc \in {"countingSent", "countingFailed", "countingRejected"} /\ c0 = c
               \/ campaigns[c].sent = sent /\ campaigns[c].failed = failed

\* A campaign that runs comes to an end or to a pause: every step uses up a recipient, ends
\* the campaign or meets a device that went offline, and one campaign does not keep another
\* from its turn.
RunningEnds == \A c \in Campaigns : HasStatus(c, "RUNNING") ~> ~HasStatus(c, "RUNNING")

\* A scheduled campaign starts once its date has arrived.
DueStarts == \A c \in Campaigns : c \in due /\ HasStatus(c, "SCHEDULED") ~> ~HasStatus(c, "SCHEDULED")

\* Does not hold: the date of a scheduled campaign can arrive before its recipients are
\* saved.
\* A campaign is COMPLETED when there are "No more pending recipients".
CompletedHasNoPending ==
    \A c \in Campaigns : HasStatus(c, "COMPLETED") => WithStatus(c, "PENDING") = {}

\* Does not hold: the save of a step writes back the copy that it read as RUNNING.
\* "Pause Campaign": a campaign that is paused or deleted runs again only when a request
\* starts it.
PauseHolds ==
    [][\A c \in Campaigns :
          /\ campaigns[c] = NoRow \/ HasStatus(c, "PAUSED")
          /\ HasStatus(c, "RUNNING")'
          => \E q \in Requests : request[q].at = "start" /\ request'[q] = Finished]_vars
==============================================================================
