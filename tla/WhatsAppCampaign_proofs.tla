----------------------- MODULE WhatsAppCampaign_proofs -----------------------
(***************************************************************************)
(* Theorems about WhatsAppCampaign for all campaigns, recipients, devices, *)
(* requests and bounds: how often a message can repeat (IInv), that the    *)
(* rows of the recipients tell what happened (Truth), the types (TInv),    *)
(* and, where no campaign is deleted, the daily limit (DInv) and the       *)
(* progress (PInv).                                                        *)
(*                                                                         *)
(* The first argument is an account. A crash is worth two points, a fault  *)
(* one; a message costs two. Credit(r) says how far the account of a       *)
(* recipient may be overdrawn by what its row and the loop know of it: a   *)
(* message that went out and whose row is not PENDING any more, or will be *)
(* written next, is the one message it should get.                         *)
(***************************************************************************)
EXTENDS WhatsAppCampaign, Subsequence_proofs

\* The creation has not come to the chunk of the recipient.
Unsaved(r) ==
    \E c \in Campaigns : \E i \in DOMAIN Chunks[c] : r \in Chunks[c][i] /\ created[c] <= i

\* The loop is in a step for the recipient.
InHand(r) == pc \in InStep /\ r0 = r

Counting == {"countingSent", "countingFailed", "countingRejected"}

Credit(r) ==
    CASE InHand(r) /\ pc \in Counting \cup {"savingSent"} -> 2
      [] InHand(r) /\ pc = "savingFailed" -> 1
      [] InHand(r) /\ pc \notin Counting \cup {"savingSent", "savingFailed"} -> 0
      [] ~InHand(r) -> IF RecipientIs(r, "PENDING") THEN 0 ELSE 2

Types ==
    /\ recipients = [r \in Recipients |-> recipients[r]]
    /\ created \in [Campaigns -> Nat]
    /\ \A c \in Campaigns : created[c] <= Len(Chunks[c]) + 1
    /\ pc \in Points
    /\ pc \in InStep =>
          current \in [campaign : Campaigns, recipient : Recipients, since : Nat]
    /\ today \in Nat
    /\ crashes \in Nat
    /\ faults \in Nat
    /\ sends \in [Recipients -> Nat]

\* Nothing has happened to a recipient whose chunk is not saved.
Untouched(r) == Unsaved(r) => recipients[r] = NoRow /\ sends[r] = 0 /\ ~InHand(r)

\* When the loop counts, the row is written: it does not come back as PENDING.
Written(r) == InHand(r) /\ pc \in Counting => ~RecipientIs(r, "PENDING")

Covered(r) == 2 * sends[r] <= 2 * crashes + faults + Credit(r)

Account(r) == Untouched(r) /\ Written(r) /\ Covered(r)

IInv == Types /\ \A r \in Recipients : Account(r)

(***************************************************************************)
(* The account of a recipient that an action leaves alone.                 *)
(***************************************************************************)

\* The rows and the messages stay as they are; creations, crashes and faults only go on.
Aside ==
    /\ UNCHANGED <<recipients, sends>>
    /\ \A c \in Campaigns : created[c] <= created'[c]
    /\ crashes' \in Nat
    /\ faults' \in Nat
    /\ 2 * crashes' + faults' >= 2 * crashes + faults

\* When the loop stays where it is, or leaves a step whose row is PENDING no more, nothing
\* changes in the accounts.
LEMMA AsideAccount ==
    ASSUME Types, Types', NEW r \in Recipients, Account(r), Aside,
           \/ pc' = pc /\ current' = current
           \/ pc' \notin InStep /\ (~InHand(r) \/ pc \in Counting)
           \/ pc' \notin InStep /\ 2 * sends[r] <= 2 * crashes' + faults'
    PROVE  Account(r)'
<1>0. Unsaved(r)' => Unsaved(r)
  <2>1. \A c \in Campaigns : DOMAIN Chunks[c] \subseteq Nat
    BY CampaignAssumption
  <2> QED
    BY <2>1 DEF Aside, Unsaved, Types
<1>1. /\ Unsaved(r)' => Unsaved(r)
      /\ RecipientIs(r, "PENDING")' = RecipientIs(r, "PENDING")
      /\ sends'[r] = sends[r]
  BY <1>0 DEF Aside, RecipientIs
<1>2. InHand(r)' => InHand(r) /\ pc' = pc
  BY DEF InHand, r0
<1>3. /\ {sends[r], crashes, faults, crashes', faults'} \subseteq Nat
      /\ 2 * crashes' + faults' >= 2 * crashes + faults
  BY DEF Types, Aside
<1>4. Untouched(r)' /\ Written(r)'
  BY <1>1, <1>2 DEF Aside, Account, Untouched, Written
<1>5. \/ Credit(r)' >= Credit(r) /\ Credit(r)' \in Nat /\ Credit(r) \in Nat
      \/ 2 * sends[r] <= 2 * crashes' + faults' /\ Credit(r)' \in Nat
  <2>1. CASE pc' = pc /\ current' = current
    <3>1. InHand(r)' = InHand(r)
      BY <2>1 DEF InHand, r0
    <3> QED
      BY <1>1, <2>1, <3>1 DEF Credit
  <2>2. CASE pc' \notin InStep
    <3>1. ~InHand(r)'
      BY <2>2 DEF InHand
    <3>2. Credit(r)' = IF RecipientIs(r, "PENDING") THEN 0 ELSE 2
      BY <1>1, <3>1 DEF Credit
    <3>3. CASE ~InHand(r)
      BY <3>2, <3>3 DEF Credit
    <3>4. CASE InHand(r) /\ pc \in Counting
      BY <3>2, <3>4 DEF Credit, Account, Written
    <3> QED
      BY <2>2, <3>2, <3>3, <3>4 DEF InHand
  <2> QED
    BY <2>1, <2>2
<1>6. Covered(r)'
  BY <1>1, <1>3, <1>5 DEF Account, Covered
<1> QED
  BY <1>4, <1>6 DEF Account

\* The points of a step before the message.
Early == {"checking", "pausing", "choosing", "rejecting", "sending"}

\* Before the message a recipient has no credit.
LEMMA EarlyCredit ==
    ASSUME NEW r \in Recipients, InHand(r), pc \in Early
    PROVE  Credit(r) = 0
BY DEF Credit, Early, Counting

\* A step that goes on before the message, or is given up there, leaves the accounts alone.
LEMMA EarlyAccount ==
    ASSUME IInv, Types', UNCHANGED <<recipients, created, sends, crashes, faults>>,
           pc \in Early, (pc' \in Early /\ r0' = r0) \/ pc' \notin InStep
    PROVE  \A r \in Recipients : Account(r)'
<1> SUFFICES ASSUME NEW r \in Recipients PROVE Account(r)'
  OBVIOUS
<1>1. Account(r) /\ Types
  BY DEF IInv
<1>2. Aside
  BY <1>1 DEF Aside, Types
<1>3. CASE pc' \notin InStep
  <2>1. CASE ~InHand(r)
    BY <1>1, <1>2, <1>3, <2>1, AsideAccount
  <2>2. CASE InHand(r)
    <3>1. 2 * sends[r] <= 2 * crashes' + faults'
      BY <1>1, <2>2, EarlyCredit DEF Account, Covered, Types
    <3> QED
      BY <1>1, <1>2, <1>3, <3>1, AsideAccount
  <2> QED
    BY <2>1, <2>2
<1>4. CASE pc' \in Early /\ r0' = r0
  <2>1. pc \in InStep /\ pc' \in InStep /\ pc \notin Counting /\ pc' \notin Counting
    BY <1>4 DEF Early, InStep, Points, Counting
  <2>2. InHand(r)' = InHand(r) /\ Unsaved(r)' = Unsaved(r)
        /\ RecipientIs(r, "PENDING")' = RecipientIs(r, "PENDING")
    BY <1>4, <2>1 DEF InHand, Unsaved, RecipientIs
  <2>3. Credit(r)' = Credit(r)
    BY <1>4, <2>1, <2>2 DEF Credit, Early, Counting
  <2> QED
    BY <1>1, <2>1, <2>2, <2>3 DEF Account, Untouched, Written, Covered
<1> QED
  BY <1>3, <1>4

(***************************************************************************)
(* The actions.                                                            *)
(***************************************************************************)

\* The requests but the saves of recipients, and the environment but the crash and the
\* faults of the loop, stand aside.
Beside ==
    \/ \E c \in Campaigns : \/ CreateCampaign(c) \/ CreationFails(c) \/ DateArrives(c)
                            \/ CooldownEnds(c)
    \/ \E q \in Requests, op \in Operations, c \in Campaigns : ReadCampaign(q, op, c)
    \/ \E q \in Requests : SaveStatus(q) \/ DeleteCampaign(q)
    \/ Midnight
    \/ \E d \in Devices : Connect(d) \/ Disconnect(d)

LEMMA BesideIInv == ASSUME IInv, Beside PROVE IInv'
<1>1. UNCHANGED <<recipients, sends, pc, current, crashes>>
  BY DEF Beside, CreateCampaign, CreationFails, DateArrives, CooldownEnds, ReadCampaign,
         SaveStatus, DeleteCampaign, Midnight, Connect, Disconnect, tables, loop, world, ghosts
<1>2. today' \in Nat /\ faults' \in Nat /\ faults' >= faults
  <2>1. today' \in {today, today + 1} /\ faults' \in {faults, faults + 1}
    BY DEF Beside, CreateCampaign, CreationFails, DateArrives, CooldownEnds, ReadCampaign,
           SaveStatus, DeleteCampaign, Midnight, Connect, Disconnect, world
  <2> QED
    BY <2>1 DEF IInv, Types
<1>3. /\ created' \in [Campaigns -> Nat]
      /\ \A c \in Campaigns : created[c] <= created'[c] /\ created'[c] <= Len(Chunks[c]) + 1
  <2>1. /\ created \in [Campaigns -> Nat]
        /\ \A c \in Campaigns : Len(Chunks[c]) \in Nat /\ created[c] <= Len(Chunks[c]) + 1
    BY CampaignAssumption DEF IInv, Types
  <2>2. \/ created' = created
        \/ \E c \in Campaigns : created[c] = 0 /\ created' = [created EXCEPT ![c] = 1]
        \/ \E c \in Campaigns : created' = [created EXCEPT ![c] = Len(Chunks[c]) + 1]
    BY Zenon DEF Beside, CreateCampaign, CreationFails, DateArrives, CooldownEnds,
       ReadCampaign, SaveStatus, DeleteCampaign, Midnight, Connect, Disconnect
  <2> QED
    BY <2>1, <2>2
<1>4. Types /\ Types'
  BY <1>1, <1>2, <1>3 DEF IInv, Types, r0
<1>5. Aside
  BY <1>1, <1>2, <1>3, <1>4 DEF Aside, Types
<1>6. \A r \in Recipients : Account(r)'
  BY <1>1, <1>4, <1>5, AsideAccount DEF IInv
<1> QED
  BY <1>4, <1>6 DEF IInv

\* Outside its steps the loop neither writes the rows of recipients nor sends.
LEMMA RoundIInv ==
    ASSUME IInv,
           \/ LoadScheduled \/ LoadRunning \/ EndRound \/ Complete
           \/ \E c \in Campaigns : AutoStart(c) \/ Skip(c)
    PROVE  IInv'
<1>1. /\ UNCHANGED <<recipients, created, sends, crashes, faults, today>>
      /\ pc \notin InStep /\ pc' \notin InStep /\ pc' \in Points
  BY DEF LoadScheduled, LoadRunning, EndRound, Complete, AutoStart, Skip, EndWith, Return,
         ClearStep, Points, InStep, tables, loop, world, ghosts
<1>2. Types /\ Types'
  BY <1>1 DEF IInv, Types
<1>3. Aside
  BY <1>1, <1>2 DEF Aside, Types
<1>4. \A r \in Recipients : ~InHand(r)
  BY <1>1 DEF InHand
<1>5. \A r \in Recipients : Account(r)'
  BY <1>1, <1>2, <1>3, <1>4, AsideAccount DEF IInv
<1> QED
  BY <1>2, <1>5 DEF IInv

\* A recipient is in one chunk, so its row is put there once: before anything happened.
LEMMA SaveChunkIInv == ASSUME IInv, NEW c \in Campaigns, SaveChunk(c) PROVE IInv'
<1> DEFINE i == created[c]
<1>1. /\ i \in DOMAIN Chunks[c]
      /\ created' = [created EXCEPT ![c] = i + 1]
      /\ recipients' = [r \in Recipients |->
            IF r \in Chunks[c][i] THEN [status |-> "PENDING"] ELSE recipients[r]]
      /\ UNCHANGED <<sends, pc, current, crashes, faults, today>>
  <2>1. i \in 1 .. Len(Chunks[c])
    BY DEF SaveChunk
  <2> QED
    BY <2>1, CampaignAssumption DEF SaveChunk, loop, world, ghosts
<1>2. Types
  BY DEF IInv
<1>3. i \in Nat /\ i + 1 <= Len(Chunks[c]) + 1
  BY <1>1, CampaignAssumption
<1>4. Types'
  BY <1>1, <1>2, <1>3 DEF Types, r0
<1>5. ASSUME NEW r \in Recipients PROVE Account(r)'
  <2>1. Account(r)
    BY DEF IInv
  <2>2. InHand(r)' = InHand(r)
    BY <1>1 DEF InHand, r0
  <2>3. Unsaved(r)' => Unsaved(r)
    <3>1. \A d \in Campaigns : DOMAIN Chunks[d] \subseteq Nat
      BY CampaignAssumption
    <3> QED
      BY <1>1, <1>2, <1>3, <3>1 DEF Unsaved, Types
  <2>4. CASE r \in Chunks[c][i]
    <3>1. Unsaved(r)
      BY <1>1, <1>2, <1>3, <2>4 DEF Unsaved, Types
    <3>2. recipients[r] = NoRow /\ sends[r] = 0 /\ ~InHand(r)
      BY <2>1, <3>1 DEF Account, Untouched
    <3>3. ~Unsaved(r)'
      <4>1. SUFFICES ASSUME NEW d \in Campaigns, NEW j \in DOMAIN Chunks[d],
                            r \in Chunks[d][j], created'[d] <= j
                     PROVE  FALSE
        BY DEF Unsaved
      <4>2. r \in RecipientsOf(c) /\ r \in RecipientsOf(d)
        BY <1>1, <2>4, <4>1 DEF RecipientsOf
      <4>3. d = c
        BY <4>2, CampaignAssumption
      <4>4. j = i
        BY <1>1, <2>4, <4>1, <4>3, CampaignAssumption
      <4> QED
        BY <1>1, <1>2, <1>3, <4>1, <4>3, <4>4 DEF Types
    <3>4. Credit(r)' \in {0, 2}
      BY <2>2, <3>2 DEF Credit
    <3>5. Covered(r)'
      BY <1>1, <1>2, <3>2, <3>4 DEF Covered, Types
    <3> QED
      BY <2>2, <3>2, <3>3, <3>5 DEF Account, Untouched, Written
  <2>5. CASE r \notin Chunks[c][i]
    <3>1. recipients'[r] = recipients[r]
      BY <1>1, <2>5
    <3>2. Credit(r)' = Credit(r)
      BY <1>1, <2>2, <3>1 DEF Credit, RecipientIs
    <3>3. RecipientIs(r, "PENDING")' = RecipientIs(r, "PENDING")
      BY <3>1 DEF RecipientIs
    <3> QED
      BY <1>1, <2>1, <2>2, <2>3, <3>1, <3>2, <3>3 DEF Account, Untouched, Written, Covered
  <2> QED
    BY <2>4, <2>5
<1> QED
  BY <1>4, <1>5 DEF IInv

\* A row that is deleted takes nothing from the account.
LEMMA DeleteRecipientsIInv ==
    ASSUME IInv, NEW q \in Requests, DeleteRecipients(q)
    PROVE  IInv'
<1>1. /\ \A r \in Recipients : recipients'[r] \in {NoRow, recipients[r]}
      /\ recipients' = [r \in Recipients |-> recipients'[r]]
      /\ UNCHANGED <<created, sends, pc, current, crashes, faults, today>>
  BY DEF DeleteRecipients, IInv, Types, loop, world, ghosts
<1>2. Types /\ Types'
  BY <1>1 DEF IInv, Types, r0
<1>3. ASSUME NEW r \in Recipients PROVE Account(r)'
  <2>1. Account(r) /\ InHand(r)' = InHand(r) /\ Unsaved(r)' = Unsaved(r)
    BY <1>1 DEF IInv, InHand, Unsaved, r0
  <2>2. RecipientIs(r, "PENDING")' => RecipientIs(r, "PENDING")
    BY <1>1 DEF RecipientIs
  <2>3. Credit(r)' >= Credit(r) /\ Credit(r) \in Nat /\ Credit(r)' \in Nat
    <3>1. CASE InHand(r)
      BY <1>1, <2>1, <3>1 DEF Credit
    <3>2. CASE ~InHand(r)
      BY <2>1, <2>2, <3>2 DEF Credit
    <3> QED
      BY <3>1, <3>2
  <2>4. Covered(r)'
    BY <1>1, <1>2, <2>1, <2>3 DEF Account, Covered, Types
  <2> QED
    BY <1>1, <2>1, <2>2, <2>4 DEF Account, Untouched, Written
<1> QED
  BY <1>2, <1>3 DEF IInv

\* The recipient of a step is PENDING, so no message to it is uncovered.
LEMMA PickRecipientIInv == ASSUME IInv, NEW c \in Campaigns, PickRecipient(c) PROVE IInv'
<1>1. /\ UNCHANGED <<recipients, created, sends, crashes, faults, today>>
      /\ pc = "running"
  BY DEF PickRecipient, tables, world, ghosts
<1>2. Types
  BY DEF IInv
<1>3. \A r \in Recipients : ~InHand(r)
  BY <1>1 DEF InHand, InStep, Points
<1>4. CASE WithStatus(c, "PENDING") = {}
  <2>1. /\ current' = [campaign |-> c, recipient |-> NoRow, since |-> today]
        /\ pc' = "completing"
    BY <1>4 DEF PickRecipient
  <2>2. Types' /\ pc' \notin InStep
    BY <1>1, <1>2, <2>1 DEF Types, Points, InStep
  <2>3. Aside
    BY <1>1, <1>2 DEF Aside, Types
  <2>4. \A r \in Recipients : Account(r)'
    BY <1>2, <1>3, <2>2, <2>3, AsideAccount DEF IInv
  <2> QED
    BY <2>2, <2>4 DEF IInv
<1>5. ASSUME NEW x \in WithStatus(c, "PENDING"),
             current' = [campaign |-> c, recipient |-> x, since |-> today],
             pc' = "checking"
      PROVE  IInv'
  <2>1. x \in Recipients /\ RecipientIs(x, "PENDING")
    <3>1. x \in RecipientsOf(c) /\ RecipientIs(x, "PENDING")
      BY <1>5 DEF WithStatus
    <3>2. RecipientsOf(c) \subseteq Recipients
      BY CampaignAssumption DEF RecipientsOf
    <3> QED
      BY <3>1, <3>2
  <2>2. r0' = x
    BY <1>5 DEF r0
  <2>3. Types'
    BY <1>1, <1>2, <1>5, <2>1 DEF Types, Points
  <2>4. ASSUME NEW r \in Recipients PROVE Account(r)'
    <3>1. Account(r) /\ Unsaved(r)' = Unsaved(r)
          /\ RecipientIs(r, "PENDING")' = RecipientIs(r, "PENDING")
      BY <1>1 DEF IInv, Unsaved, RecipientIs
    <3>2. InHand(r)' <=> r = x
      BY <1>5, <2>2 DEF InHand, InStep, Points
    <3>3. Unsaved(r) => r # x
      BY <2>1, <3>1 DEF Account, Untouched, RecipientIs
    <3>4. Credit(r)' = Credit(r)
      <4>1. Credit(r) = IF RecipientIs(r, "PENDING") THEN 0 ELSE 2
        BY <1>3 DEF Credit
      <4>2. CASE r = x
        BY <1>5, <2>1, <3>2, <4>1, <4>2 DEF Credit, Counting
      <4>3. CASE r # x
        BY <3>1, <3>2, <4>1, <4>3 DEF Credit
      <4> QED
        BY <4>2, <4>3
    <3> QED
      BY <1>1, <1>5, <3>1, <3>2, <3>3, <3>4 DEF Account, Untouched, Written, Covered, Counting
  <2> QED
    BY <2>3, <2>4 DEF IInv
<1> QED
  BY <1>4, <1>5 DEF PickRecipient

\* Nothing is written before the message.
LEMMA EarlyIInv == ASSUME IInv, CheckDevices \/ TryDevice \/ Pause PROVE IInv'
<1>1. /\ UNCHANGED <<recipients, created, sends, crashes, faults, today>>
      /\ pc \in Early
      /\ pc' \in Points
  BY DEF CheckDevices, TryDevice, Pause, EndWith, Return, tables, world, ghosts, Early, Points
<1>2. \/ pc' \notin InStep
      \/ pc' \in Early /\ current' = current
      \/ pc' \in Early /\ current' = [current EXCEPT !.since = today]
  BY DEF CheckDevices, TryDevice, Pause, EndWith, Return, Early, InStep, Points
<1>3. pc \in InStep
  BY <1>1 DEF Early, InStep, Points
<1>4. Types
  BY DEF IInv
<1>5. Types'
  BY <1>1, <1>2, <1>3, <1>4 DEF Types
<1>6. (pc' \in Early /\ r0' = r0) \/ pc' \notin InStep
  BY <1>2, <1>3, <1>4 DEF Types, r0
<1>7. \A r \in Recipients : Account(r)'
  BY <1>1, <1>5, <1>6, EarlyAccount
<1> QED
  BY <1>5, <1>7 DEF IInv

\* The message costs what the point after it gives credit for.
LEMMA SendIInv == ASSUME IInv, Send PROVE IInv'
<1>1. /\ pc = "sending"
      /\ UNCHANGED <<recipients, created, current, crashes, faults, today>>
      /\ \/ pc' = "savingSent" /\ sends' = [sends EXCEPT ![r0] = @ + 1]
         \/ pc' = "savingFailed" /\ sends' = sends
  BY DEF Send, tables, loop, world, ghosts
<1>2. Types
  BY DEF IInv
<1>3. r0 \in Recipients /\ r0' = r0 /\ pc \in InStep /\ pc' \in InStep /\ pc' \in Points
  BY <1>1, <1>2 DEF Types, r0, InStep, Points
<1>4. Types'
  <2>1. sends' \in [Recipients -> Nat]
    BY <1>1, <1>2, <1>3 DEF Types
  <2> QED
    BY <1>1, <1>2, <1>3, <2>1 DEF Types
<1>5. ASSUME NEW r \in Recipients PROVE Account(r)'
  <2>1. Account(r) /\ InHand(r)' = InHand(r) /\ Unsaved(r)' = Unsaved(r)
        /\ RecipientIs(r, "PENDING")' = RecipientIs(r, "PENDING")
    BY <1>1, <1>3 DEF IInv, InHand, Unsaved, RecipientIs
  <2>2. CASE r = r0
    <3>1. InHand(r)
      BY <1>3, <2>2 DEF InHand
    <3>2. Credit(r) = 0
      BY <1>1, <3>1, EarlyCredit DEF Early
    <3>3. \/ Credit(r)' = 2 /\ sends'[r] = sends[r] + 1
          \/ Credit(r)' = 1 /\ sends'[r] = sends[r]
      BY <1>1, <1>2, <2>1, <2>2, <3>1 DEF Credit, Counting, Types
    <3>4. Covered(r)'
      BY <1>1, <1>2, <2>1, <3>2, <3>3 DEF Account, Covered, Types
    <3> QED
      BY <1>1, <2>1, <3>1, <3>4 DEF Account, Untouched, Written, Counting
  <2>3. CASE r # r0
    <3>1. ~InHand(r)
      BY <2>3 DEF InHand
    <3>2. Credit(r)' = Credit(r) /\ sends'[r] = sends[r]
      BY <1>1, <1>2, <1>3, <2>1, <2>3, <3>1 DEF Credit, Types
    <3> QED
      BY <1>1, <2>1, <3>1, <3>2 DEF Account, Untouched, Written, Covered
  <2> QED
    BY <2>2, <2>3
<1> QED
  BY <1>4, <1>5 DEF IInv

\* The row that is written is not PENDING.
LEMMA SaveIInv == ASSUME IInv, SaveSent \/ SaveFailed PROVE IInv'
<1>1. /\ pc \in {"savingSent", "savingFailed", "rejecting"}
      /\ pc' \in Counting
      /\ UNCHANGED <<created, current, sends, crashes, faults, today>>
      /\ \/ recipients' =
               [recipients EXCEPT ![r0] = [status |-> "SENT", device |-> selected, day |-> today]]
         \/ recipients' = [recipients EXCEPT ![r0] = [status |-> "FAILED"]]
  BY DEF SaveSent, SaveFailed, Counting, loop, world, ghosts
<1>2. Types
  BY DEF IInv
<1>3. r0 \in Recipients /\ r0' = r0 /\ pc \in InStep /\ pc' \in InStep /\ pc' \in Points
  BY <1>1, <1>2 DEF Types, r0, InStep, Points, Counting
<1>4. Types'
  BY <1>1, <1>2, <1>3 DEF Types
<1>5. ASSUME NEW r \in Recipients PROVE Account(r)'
  <2>1. Account(r) /\ InHand(r)' = InHand(r) /\ Unsaved(r)' = Unsaved(r)
    BY <1>1, <1>3 DEF IInv, InHand, Unsaved
  <2>2. CASE r = r0
    <3>1. InHand(r)
      BY <1>3, <2>2 DEF InHand
    <3>2. ~RecipientIs(r, "PENDING")'
      BY <1>1, <1>2, <1>3, <2>2 DEF RecipientIs, Types
    <3>3. Credit(r)' = 2 /\ Credit(r) \in {0, 1, 2}
      BY <1>1, <2>1, <3>1 DEF Credit, Counting
    <3>4. Covered(r)'
      BY <1>1, <1>2, <2>1, <3>3 DEF Account, Covered, Types
    <3> QED
      BY <2>1, <3>1, <3>2, <3>4 DEF Account, Untouched, Written
  <2>3. CASE r # r0
    <3>1. ~InHand(r)
      BY <2>3 DEF InHand
    <3>2. recipients'[r] = recipients[r]
      BY <1>1, <1>2, <1>3, <2>3 DEF Types
    <3>3. Credit(r)' = Credit(r)
      BY <2>1, <3>1, <3>2 DEF Credit, RecipientIs
    <3> QED
      BY <1>1, <2>1, <3>1, <3>2, <3>3 DEF Account, Untouched, Written, Covered
  <2> QED
    BY <2>2, <2>3
<1> QED
  BY <1>4, <1>5 DEF IInv

\* A step is left with its row written.
LEMMA CountIInv == ASSUME IInv, CountSent \/ CountFailed PROVE IInv'
<1>1. /\ UNCHANGED <<recipients, created, sends, crashes, faults, today>>
      /\ pc \in Counting /\ pc' = "running"
  BY DEF CountSent, CountFailed, Return, Counting, world, ghosts
<1>2. Types /\ Types' /\ pc' \notin InStep
  BY <1>1 DEF IInv, Types, Points, InStep
<1>3. Aside
  BY <1>1, <1>2 DEF Aside, Types
<1>4. \A r \in Recipients : Account(r)'
  BY <1>1, <1>2, <1>3, AsideAccount DEF IInv
<1> QED
  BY <1>2, <1>4 DEF IInv

\* A fault pays for half a message: the save of SENT and the save of FAILED have both to fail.
LEMMA DatabaseFailsIInv == ASSUME IInv, DatabaseFails PROVE IInv'
<1>1. /\ UNCHANGED <<recipients, created, sends, crashes, today>>
      /\ faults' = faults + 1
  BY DEF DatabaseFails, tables, ghosts
<1>2. Types
  BY DEF IInv
<1>3. Aside /\ faults' \in Nat
  BY <1>1, <1>2 DEF Aside, Types
<1>4. CASE pc \in {"savingSent", "countingSent"} /\ pc' = "savingFailed" /\ current' = current
  <2>1. r0' = r0 /\ pc \in InStep /\ pc' \in InStep /\ pc' \in Points
    BY <1>4 DEF r0, InStep, Points
  <2>2. Types'
    BY <1>1, <1>2, <1>3, <1>4, <2>1 DEF Types
  <2>3. ASSUME NEW r \in Recipients PROVE Account(r)'
    <3>1. Account(r) /\ InHand(r)' = InHand(r) /\ Unsaved(r)' = Unsaved(r)
          /\ RecipientIs(r, "PENDING")' = RecipientIs(r, "PENDING")
      BY <1>1, <2>1 DEF IInv, InHand, Unsaved, RecipientIs
    <3>2. \/ Credit(r) = 2 /\ Credit(r)' = 1
          \/ Credit(r)' = Credit(r) /\ Credit(r) \in {0, 2}
      BY <1>4, <3>1 DEF Credit, Counting
    <3>3. Covered(r)'
      BY <1>1, <1>2, <3>1, <3>2 DEF Account, Covered, Types
    <3> QED
      BY <1>1, <1>4, <3>1, <3>3 DEF Account, Untouched, Written, Counting
  <2> QED
    BY <2>2, <2>3 DEF IInv
<1>5. CASE pc \notin {"sending", "savingSent", "countingSent"} /\ pc' = "top"
  <2>1. Types' /\ pc' \notin InStep
    BY <1>1, <1>2, <1>3, <1>5 DEF Types, Points, InStep
  <2>2. ASSUME NEW r \in Recipients PROVE Account(r)'
    <3>1. Account(r)
      BY DEF IInv
    <3>2. CASE ~InHand(r) \/ pc \in Counting
      BY <1>2, <1>3, <2>1, <3>1, <3>2, AsideAccount
    <3>3. CASE InHand(r) /\ pc \notin Counting
      <4>1. Credit(r) \in {0, 1}
        BY <1>5, <3>3 DEF Credit
      <4>2. 2 * sends[r] <= 2 * crashes' + faults'
        BY <1>1, <1>2, <3>1, <4>1 DEF Account, Covered, Types
      <4> QED
        BY <1>2, <1>3, <2>1, <3>1, <4>2, AsideAccount
    <3> QED
      BY <3>2, <3>3
  <2> QED
    BY <2>1, <2>2 DEF IInv
<1> QED
  BY <1>4, <1>5 DEF DatabaseFails, loop

\* A crash pays for the message it hides.
LEMMA CrashIInv == ASSUME IInv, Crash PROVE IInv'
<1>1. /\ UNCHANGED <<recipients, sends, faults, today>>
      /\ crashes' = crashes + 1
      /\ pc' = "top"
      /\ created' = [c \in Campaigns |-> IF created[c] = 0 THEN 0 ELSE Len(Chunks[c]) + 1]
  BY DEF Crash, tables, ghosts
<1>2. Types
  BY DEF IInv
<1>3. /\ \A c \in Campaigns : created[c] <= created'[c] /\ created'[c] <= Len(Chunks[c]) + 1
      /\ created' \in [Campaigns -> Nat]
  BY <1>1, <1>2, CampaignAssumption DEF Types
<1>4. Types' /\ pc' \notin InStep
  BY <1>1, <1>2, <1>3 DEF Types, Points, InStep
<1>5. Aside
  BY <1>1, <1>2, <1>3 DEF Aside, Types
<1>6. ASSUME NEW r \in Recipients PROVE Account(r)'
  <2>1. Account(r)
    BY DEF IInv
  <2>2. CASE ~InHand(r)
    BY <1>2, <1>4, <1>5, <2>1, <2>2, AsideAccount
  <2>3. CASE InHand(r)
    <3>1. Credit(r) \in {0, 1, 2}
      BY <2>3 DEF Credit
    <3>2. 2 * sends[r] <= 2 * crashes' + faults'
      BY <1>1, <1>2, <2>1, <3>1 DEF Account, Covered, Types
    <3> QED
      BY <1>2, <1>4, <1>5, <2>1, <3>2, AsideAccount
  <2> QED
    BY <2>2, <2>3
<1> QED
  BY <1>4, <1>6 DEF IInv

\* There is neither a row nor a message yet.
LEMMA InitIInv == Init => IInv
<1> SUFFICES ASSUME Init PROVE IInv
  OBVIOUS
<1>1. Types
  BY CampaignAssumption DEF Init, Types, Points, InStep
<1>2. ASSUME NEW r \in Recipients PROVE Account(r)
  <2>1. ~InHand(r) /\ recipients[r] = NoRow /\ sends[r] = 0 /\ crashes = 0 /\ faults = 0
    BY DEF Init, InHand, InStep
  <2>2. Credit(r) = 2
    BY <2>1 DEF Credit, RecipientIs
  <2> QED
    BY <2>1, <2>2 DEF Account, Untouched, Written, Covered
<1> QED
  BY <1>1, <1>2 DEF IInv

\* The accounts stay covered, whoever takes the step.
LEMMA NextIInv == ASSUME IInv, [Next]_vars PROVE IInv'
<1>1. CASE UNCHANGED vars
  <2>1. Types /\ Types' /\ Aside
    BY <1>1 DEF IInv, Types, Aside, vars, r0
  <2>2. \A r \in Recipients : Account(r)'
    BY <1>1, <2>1, AsideAccount DEF IInv, vars
  <2> QED
    BY <2>1, <2>2 DEF IInv
<1>2. CASE Loop
  BY <1>2, RoundIInv, PickRecipientIInv, EarlyIInv, SendIInv, SaveIInv, CountIInv, Zenon DEF Loop
<1>3. CASE User
  BY <1>3, BesideIInv, SaveChunkIInv, DeleteRecipientsIInv, Zenon DEF User, Beside
<1>4. CASE World
  BY <1>4, BesideIInv, DatabaseFailsIInv, CrashIInv, Zenon DEF World, Beside
<1> QED
  BY <1>1, <1>2, <1>3, <1>4 DEF Next

\* However many campaigns, pauses, starts, deletions and restarts: a recipient gets a message
\* again only when a crash or two faults came between it and its row
\* (processCampaignStep writes SENT after sendMessage).
THEOREM MessageOnce == Spec => []NoMessageTwice
<1>1. ASSUME IInv PROVE NoMessageTwice
  <2> SUFFICES ASSUME NEW r \in Recipients PROVE 2 * sends[r] <= 2 + 2 * crashes + faults
    BY DEF NoMessageTwice
  <2>1. Credit(r) \in {0, 1, 2}
    BY DEF Credit
  <2>2. Covered(r)
    BY <1>1 DEF IInv, Account
  <2> QED
    BY <1>1, <2>1, <2>2 DEF Covered, IInv, Types
<1> QED
  BY <1>1, InitIInv, NextIInv, PTL DEF Spec

(***************************************************************************)
(* Without crashes and faults nobody has credit beyond its row, so the     *)
(* account says how many messages there were.                              *)
(***************************************************************************)
Quiet == crashes = 0 /\ faults = 0

AtSave(r) == pc = "savingSent" /\ r0 = r

Tells(r) ==
    /\ AtSave(r) => sends[r] = 1
    /\ recipients[r] # NoRow => AtSave(r) \/ (RecipientIs(r, "SENT") <=> sends[r] = 1)

Truth == Quiet => \A r \in Recipients : Tells(r)

\* A recipient without credit has no message.
LEMMA NoCredit ==
    ASSUME IInv, Quiet, NEW r \in Recipients, Credit(r) \in {0, 1}
    PROVE  sends[r] = 0
BY DEF IInv, Types, Account, Covered, Quiet

\* A row that is PENDING stands for no message, but for the one whose row is written next.
LEMMA PendingUnsent ==
    ASSUME IInv, Quiet, NEW r \in Recipients, RecipientIs(r, "PENDING"), ~AtSave(r)
    PROVE  sends[r] = 0
<1>1. Credit(r) \in {0, 1}
  <2>1. ~(InHand(r) /\ pc \in Counting)
    BY DEF IInv, Account, Written
  <2> QED
    BY <2>1 DEF Credit, InHand, AtSave
<1> QED
  BY <1>1, NoCredit

\* Without a row, a message or a save at hand that changes, nothing else matters.
LEMMA StillTrue ==
    ASSUME Truth, Quiet, UNCHANGED <<recipients, sends>>,
           \/ pc' = pc /\ current' = current
           \/ pc # "savingSent" /\ pc' # "savingSent"
    PROVE  Truth'
<1>1. \A r \in Recipients : Tells(r)
  BY DEF Truth
<1>2. \A r \in Recipients : AtSave(r)' = AtSave(r)
  BY DEF AtSave, r0
<1> QED
  BY <1>1, <1>2 DEF Truth, Tells, RecipientIs

\* SENT is written after a message, FAILED where there was none.
LEMMA SaveTrue == ASSUME IInv, Truth, Quiet, SaveSent \/ SaveFailed PROVE Truth'
<1>1. /\ UNCHANGED sends
      /\ pc' # "savingSent"
      /\ \/ /\ pc = "savingSent"
            /\ recipients' =
               [recipients EXCEPT ![r0] = [status |-> "SENT", device |-> selected, day |-> today]]
         \/ /\ pc \in {"savingFailed", "rejecting"}
            /\ recipients' = [recipients EXCEPT ![r0] = [status |-> "FAILED"]]
  BY DEF SaveSent, SaveFailed, ghosts
<1>2. pc \in InStep
  BY <1>1 DEF InStep, Points
<1>3. r0 \in Recipients /\ recipients = [r \in Recipients |-> recipients[r]]
  BY <1>2 DEF IInv, Types, r0
<1>4. ASSUME NEW r \in Recipients PROVE Tells(r)'
  <2>1. Tells(r) /\ ~AtSave(r)'
    BY <1>1 DEF Truth, AtSave
  <2>2. CASE r # r0
    <3>1. recipients'[r] = recipients[r] /\ ~AtSave(r)
      BY <1>1, <1>3, <2>2 DEF AtSave
    <3> QED
      BY <1>1, <2>1, <3>1 DEF Tells, RecipientIs
  <2>3. CASE r = r0 /\ pc = "savingSent"
    <3>1. sends[r] = 1
      BY <2>1, <2>3 DEF Tells, AtSave
    <3>2. recipients'[r].status = "SENT"
      BY <1>1, <1>3, <2>3
    <3> QED
      BY <1>1, <2>1, <3>1, <3>2 DEF Tells, RecipientIs
  <2>4. CASE r = r0 /\ pc \in {"savingFailed", "rejecting"}
    <3>1. Credit(r) \in {0, 1}
      BY <1>2, <2>4 DEF Credit, InHand, Counting
    <3>2. sends[r] = 0
      BY <3>1, NoCredit
    <3>3. recipients'[r].status = "FAILED"
      BY <1>1, <1>3, <2>4
    <3> QED
      BY <1>1, <2>1, <3>2, <3>3 DEF Tells, RecipientIs
  <2> QED
    BY <1>1, <2>2, <2>3, <2>4
<1> QED
  BY <1>4 DEF Truth

\* A message goes out for a recipient who had none.
LEMMA SendTrue == ASSUME IInv, Truth, Quiet, Send PROVE Truth'
<1>1. CASE pc' = "savingFailed"
  <2>1. UNCHANGED <<recipients, sends>> /\ pc # "savingSent" /\ pc' # "savingSent"
    BY <1>1 DEF Send, tables, ghosts
  <2> QED
    BY <2>1, StillTrue
<1>2. CASE pc' # "savingFailed"
  <2>1. /\ pc = "sending" /\ pc' = "savingSent"
        /\ UNCHANGED <<recipients, current>>
        /\ sends' = [sends EXCEPT ![r0] = @ + 1]
    BY <1>2 DEF Send, tables, loop
  <2>2. pc \in InStep /\ r0' = r0
    BY <2>1 DEF InStep, Points, r0
  <2>3. r0 \in Recipients /\ sends \in [Recipients -> Nat]
    BY <2>2 DEF IInv, Types, r0
  <2>4. ASSUME NEW r \in Recipients PROVE Tells(r)'
    <3>1. Tells(r) /\ ~AtSave(r)
      BY <2>1 DEF Truth, AtSave
    <3>2. CASE r # r0
      <4>1. sends'[r] = sends[r] /\ ~AtSave(r)'
        BY <2>1, <2>2, <2>3, <3>2 DEF AtSave
      <4> QED
        BY <2>1, <3>1, <4>1 DEF Tells, RecipientIs
    <3>3. CASE r = r0
      <4>1. InHand(r)
        BY <2>2, <3>3 DEF InHand
      <4>2. Credit(r) = 0
        BY <2>1, <4>1, EarlyCredit DEF Early
      <4>3. sends'[r] = 1
        BY <2>1, <2>3, <3>3, <4>2, NoCredit
      <4>4. AtSave(r)'
        BY <2>1, <2>2, <3>3 DEF AtSave
      <4> QED
        BY <4>3, <4>4 DEF Tells
    <3> QED
      BY <3>2, <3>3
  <2> QED
    BY <2>4 DEF Truth
<1> QED
  BY <1>1, <1>2

\* A creation saves a row for a recipient who has no message yet; a deletion leaves none.
LEMMA RowsTrue ==
    ASSUME IInv, Truth, Quiet,
           \/ \E c \in Campaigns : SaveChunk(c)
           \/ \E q \in Requests : DeleteRecipients(q)
    PROVE  Truth'
<1>1. /\ UNCHANGED <<sends, pc, current>>
      /\ \A r \in Recipients :
            \/ recipients'[r] \in {recipients[r], NoRow}
            \/ Unsaved(r) /\ recipients'[r] = [status |-> "PENDING"]
  <2>1. CASE \E q \in Requests : DeleteRecipients(q)
    BY <2>1 DEF DeleteRecipients, loop, ghosts
  <2>2. ASSUME NEW c \in Campaigns, SaveChunk(c) PROVE <1>1!:
    <3>1. created[c] \in DOMAIN Chunks[c] /\ created[c] <= created[c]
      BY <2>2, CampaignAssumption DEF SaveChunk
    <3> QED
      BY <2>2, <3>1 DEF SaveChunk, Unsaved, loop, ghosts
  <2> QED
    BY <2>1, <2>2
<1>2. ASSUME NEW r \in Recipients PROVE Tells(r)'
  <2>1. Tells(r) /\ AtSave(r)' = AtSave(r)
    BY <1>1 DEF Truth, AtSave, r0
  <2>2. CASE recipients'[r] = recipients[r]
    BY <1>1, <2>1, <2>2 DEF Tells, RecipientIs
  <2>3. CASE recipients'[r] = NoRow
    BY <1>1, <2>1, <2>3 DEF Tells
  <2>4. CASE Unsaved(r) /\ recipients'[r] = [status |-> "PENDING"]
    <3>1. sends[r] = 0
      BY <2>4 DEF IInv, Account, Untouched
    <3> QED
      BY <1>1, <2>1, <2>4, <3>1 DEF Tells, RecipientIs
  <2> QED
    BY <1>1, <2>2, <2>3, <2>4
<1> QED
  BY <1>2 DEF Truth

\* Crashes and faults are not forgotten.
LEMMA QuietBefore == ASSUME IInv, [Next]_vars, Quiet' PROVE Quiet
<1>1. crashes' \in {crashes, crashes + 1} /\ faults' \in {faults, faults + 1}
  <2>1. CASE Loop
    BY <2>1 DEF Loop, LoadScheduled, LoadRunning, EndRound, AutoStart, Skip, PickRecipient,
       Complete, CheckDevices, TryDevice, Pause, EndWith, Send, SaveSent, SaveFailed, CountSent,
       CountFailed, world
  <2>2. CASE User
    BY <2>2 DEF User, CreateCampaign, SaveChunk, ReadCampaign, SaveStatus, DeleteRecipients,
       DeleteCampaign, world
  <2>3. CASE World
    BY <2>3 DEF World, DatabaseFails, CreationFails, Crash, DateArrives, CooldownEnds, Midnight,
       Connect, Disconnect, world
  <2>4. CASE UNCHANGED vars
    BY <2>4 DEF vars
  <2> QED
    BY <2>1, <2>2, <2>3, <2>4 DEF Next
<1> QED
  BY <1>1 DEF IInv, Types, Quiet

\* The rows keep telling what happened, whoever takes the step.
LEMMA NextTruth == ASSUME IInv, Truth, [Next]_vars PROVE Truth'
<1> SUFFICES ASSUME Quiet' PROVE Truth'
  BY DEF Truth
<1>1. Quiet
  BY QuietBefore
<1>2. CASE SaveSent \/ SaveFailed \/ Send
  BY <1>1, <1>2, SaveTrue, SendTrue
<1>3. CASE \/ \E c \in Campaigns : SaveChunk(c)
           \/ \E q \in Requests : DeleteRecipients(q)
  BY <1>1, <1>3, RowsTrue
<1>4. CASE Beside \/ UNCHANGED vars
  <2>1. UNCHANGED <<recipients, sends, pc, current>>
    BY <1>4 DEF Beside, CreateCampaign, CreationFails, DateArrives, CooldownEnds, ReadCampaign,
       SaveStatus, DeleteCampaign, Midnight, Connect, Disconnect, tables, loop, world, ghosts,
       vars
  <2> QED
    BY <1>1, <2>1, StillTrue
<1>5. CASE \/ LoadScheduled \/ LoadRunning \/ EndRound \/ Complete \/ CheckDevices \/ TryDevice
           \/ Pause \/ CountSent \/ CountFailed
           \/ \E c \in Campaigns : AutoStart(c) \/ Skip(c) \/ PickRecipient(c)
  <2>1. UNCHANGED <<recipients, sends>> /\ pc # "savingSent" /\ pc' # "savingSent"
    BY <1>5 DEF LoadScheduled, LoadRunning, EndRound, Complete, CheckDevices, TryDevice, Pause,
       CountSent, CountFailed, AutoStart, Skip, PickRecipient, EndWith, Return, tables, world,
       ghosts
  <2> QED
    BY <1>1, <2>1, StillTrue
<1>6. CASE DatabaseFails \/ Crash
  <2>1. crashes' = crashes + 1 \/ faults' = faults + 1
    BY <1>6 DEF DatabaseFails, Crash
  <2> QED
    BY <1>1, <2>1 DEF Quiet
<1> QED
  BY <1>2, <1>3, <1>4, <1>5, <1>6, Zenon DEF Next, Loop, User, World, Beside

\* As long as nothing fails, a row that is SENT is a message that went out and every other
\* row is one that did not, whatever was started, paused or deleted beside the loop
\* (processCampaignStep, deleteCampaign).
THEOREM RowsTell == Spec => []RowsAreTrue
<1>1. Init => Truth
  <2> SUFFICES ASSUME Init PROVE \A r \in Recipients : Tells(r)
    BY DEF Truth
  <2> QED
    BY DEF Init, Tells, AtSave
<1>2. Truth => RowsAreTrue
  BY DEF Truth, Quiet, Tells, AtSave, RowsAreTrue
<1> QED
  BY <1>1, <1>2, InitIInv, NextIInv, NextTruth, PTL DEF Spec

(***************************************************************************)
(* Type correctness. A step works on the copy of its campaign, which the   *)
(* loop has as long as the campaign is in the batch (Held).                *)
(***************************************************************************)
Held ==
    /\ pc \in InStep \cup {"completing"} => current \in Steps /\ c0 \in batch
    /\ attempts \in Nat
    /\ pc \in {"top", "starting", "running", "completing", "checking"} => attempts = 0
    /\ pc \in {"sending", "savingSent"} => selected \in Devices

TInv == TypeOK /\ Held

\* A campaign that is written keeps its counters, or counts one more.
LEMMA WrittenCampaign ==
    ASSUME NEW x \in Campaign
    PROVE  /\ \A s \in Statuses : [x EXCEPT !.status = s] \in Campaign
           /\ [x EXCEPT !.sent = @ + 1] \in Campaign
           /\ [x EXCEPT !.failed = @ + 1] \in Campaign
BY DEF Campaign

LEMMA CreateCampaignTInv == ASSUME TInv, NEW c \in Campaigns, CreateCampaign(c) PROVE TInv'
<1> DEFINE x == [status |-> IF c \in Scheduled THEN "SCHEDULED" ELSE "PENDING",
                 sent |-> 0, failed |-> 0]
<1>1. x \in Campaign
  BY DEF Campaign, Statuses
<1>2. /\ campaigns' = [campaigns EXCEPT ![c] = x]
      /\ created' = [created EXCEPT ![c] = 1]
      /\ UNCHANGED <<recipients, request, pc, loop, world, ghosts>>
  BY DEF CreateCampaign
<1> HIDE DEF x
<1>3. Len(Chunks[c]) \in Nat
  BY CampaignAssumption
<1>4. created' \in [Campaigns -> Nat] /\ \A d \in Campaigns : created'[d] <= Len(Chunks[d]) + 1
  BY <1>2, <1>3 DEF TInv, TypeOK
<1>5. campaigns' \in [Campaigns -> Campaign \cup {NoRow}]
  BY <1>1, <1>2 DEF TInv, TypeOK
<1> QED
  BY <1>2, <1>4, <1>5 DEF TInv, TypeOK, Held, c0, r0, loop, world, ghosts

LEMMA SaveChunkTInv == ASSUME TInv, NEW c \in Campaigns, SaveChunk(c) PROVE TInv'
<1>1. Len(Chunks[c]) \in Nat /\ [status |-> "PENDING"] \in Recipient
  BY CampaignAssumption DEF Recipient
<1>2. created' \in [Campaigns -> Nat] /\ \A d \in Campaigns : created'[d] <= Len(Chunks[d]) + 1
  BY <1>1 DEF TInv, TypeOK, SaveChunk
<1>3. recipients' \in [Recipients -> Recipient \cup {NoRow}]
  BY <1>1 DEF TInv, TypeOK, SaveChunk
<1> QED
  BY <1>2, <1>3 DEF TInv, TypeOK, Held, c0, r0, SaveChunk, loop, world, ghosts

LEMMA ReadCampaignTInv ==
    ASSUME TInv, NEW q \in Requests, NEW op \in Operations, NEW c \in Campaigns,
           ReadCampaign(q, op, c)
    PROVE  TInv'
<1> DEFINE x == [at |-> op, campaign |-> c, copy |-> campaigns[c]]
<1>1. x \in RequestStates
  BY CampaignAssumption DEF TInv, TypeOK, ReadCampaign, RequestStates
<1>2. request' = [request EXCEPT ![q] = x]
  BY DEF ReadCampaign
<1> HIDE DEF x
<1>3. request' \in [Requests -> RequestStates]
  BY <1>1, <1>2 DEF TInv, TypeOK
<1> QED
  BY <1>3 DEF TInv, TypeOK, Held, c0, r0, ReadCampaign, tables, loop, world, ghosts

\* What a request works on.
InCampaign(q) == request[q].at \in {"start", "pause", "delete", "deleting"}

LEMMA InCampaignType ==
    ASSUME TInv, NEW q \in Requests, InCampaign(q)
    PROVE  request[q] \in [at : {"start", "pause", "delete", "deleting"}, campaign : Campaigns,
                           copy : Campaign]
BY DEF TInv, TypeOK, InCampaign, RequestStates, Idle, Finished

LEMMA SaveStatusTInv == ASSUME TInv, NEW q \in Requests, SaveStatus(q) PROVE TInv'
<1>1. request[q].campaign \in Campaigns /\ request[q].copy \in Campaign
  BY InCampaignType DEF SaveStatus, InCampaign
<1>2. \E s \in Statuses : campaigns' = [campaigns EXCEPT ![request[q].campaign] =
                                           [request[q].copy EXCEPT !.status = s]]
  BY DEF SaveStatus, Statuses
<1>3. campaigns' \in [Campaigns -> Campaign \cup {NoRow}]
  <2>1. \E x \in Campaign : campaigns' = [campaigns EXCEPT ![request[q].campaign] = x]
    BY <1>1, <1>2, WrittenCampaign
  <2> QED
    BY <1>1, <2>1 DEF TInv, TypeOK
<1>4. request' \in [Requests -> RequestStates]
  BY DEF TInv, TypeOK, SaveStatus, RequestStates
<1> QED
  BY <1>3, <1>4 DEF TInv, TypeOK, Held, c0, r0, SaveStatus, loop, world, ghosts

LEMMA DeleteTInv ==
    ASSUME TInv, NEW q \in Requests, DeleteRecipients(q) \/ DeleteCampaign(q)
    PROVE  TInv'
<1>1. /\ InCampaign(q)
      /\ recipients' \in [Recipients -> Recipient \cup {NoRow}]
      /\ UNCHANGED <<created, pc, loop, world, ghosts>>
  BY DEF TInv, TypeOK, DeleteRecipients, DeleteCampaign, InCampaign
<1>2. campaigns' \in [Campaigns -> Campaign \cup {NoRow}]
  BY DEF TInv, TypeOK, DeleteRecipients, DeleteCampaign
<1>3. request' \in [Requests -> RequestStates]
  <2>1. [request[q] EXCEPT !.at = "deleting"] \in RequestStates
    BY <1>1, InCampaignType DEF RequestStates
  <2>2. \/ request' = [request EXCEPT ![q] = [request[q] EXCEPT !.at = "deleting"]]
        \/ request' = [request EXCEPT ![q] = Finished]
    BY DEF DeleteRecipients, DeleteCampaign
  <2>3. Finished \in RequestStates
    BY DEF RequestStates
  <2> QED
    BY <2>1, <2>2, <2>3 DEF TInv, TypeOK
<1> QED
  BY <1>1, <1>2, <1>3 DEF TInv, TypeOK, Held, c0, r0, loop, world, ghosts

\* A campaign that has a status has a row.
LEMMA HasRow == \A c, s : HasStatus(c, s) => campaigns[c] # NoRow
BY DEF HasStatus

LEMMA RoundTInv ==
    ASSUME TInv,
           \/ LoadScheduled \/ LoadRunning \/ EndRound
           \/ \E c \in Campaigns : Skip(c)
    PROVE  TInv'
<1>1. /\ UNCHANGED <<tables, created, request, current, active, attempts, selected, pointers,
                     cooling, world, ghosts>>
      /\ {pc, pc'} \subseteq {"top", "starting", "running"}
  BY DEF LoadScheduled, LoadRunning, EndRound, Skip, loop
<1>2. /\ batch' \subseteq Campaigns /\ copies' \in [Campaigns -> Campaign \cup {NoRow}]
      /\ \A c \in batch' : copies'[c] # NoRow
      /\ outside' \subseteq Windowed
  <2>1. CASE LoadScheduled
    BY <2>1, HasRow, CampaignAssumption DEF TInv, TypeOK, LoadScheduled
  <2>2. CASE LoadRunning
    BY <2>2, HasRow DEF TInv, TypeOK, LoadRunning
  <2>3. CASE EndRound \/ \E c \in Campaigns : Skip(c)
    BY <2>3 DEF TInv, TypeOK, EndRound, Skip, loop
  <2> QED
    BY <2>1, <2>2, <2>3
<1>3. pc' \in Points /\ pc' \notin InStep \cup {"completing", "choosing", "sending", "savingSent"}
  BY <1>1 DEF Points, InStep
<1>4. attempts' = 0
  BY <1>1 DEF TInv, Held
<1> QED
  BY <1>1, <1>2, <1>3, <1>4 DEF TInv, TypeOK, Held, tables, world, ghosts

LEMMA AutoStartTInv == ASSUME TInv, NEW c \in Campaigns, AutoStart(c) PROVE TInv'
<1>1. copies[c] \in Campaign
  BY DEF TInv, TypeOK, AutoStart
<1>2. [copies[c] EXCEPT !.status = "RUNNING"] \in Campaign
  BY <1>1, WrittenCampaign DEF Statuses
<1>3. campaigns' \in [Campaigns -> Campaign \cup {NoRow}]
  BY <1>2 DEF TInv, TypeOK, AutoStart
<1>4. pc \notin InStep \cup {"completing"}
  BY DEF AutoStart, InStep
<1> QED
  BY <1>3, <1>4 DEF TInv, TypeOK, Held, AutoStart, world, ghosts

LEMMA PickRecipientTInv == ASSUME TInv, NEW c \in Campaigns, PickRecipient(c) PROVE TInv'
<1>1. /\ UNCHANGED <<tables, created, request, batch, copies, outside, active, attempts,
                     selected, pointers, cooling, world, ghosts>>
      /\ c \in batch /\ attempts = 0
  BY DEF PickRecipient, TInv, Held
<1>2. \E r \in RecipientsOf(c) \cup {NoRow} :
         /\ current' = [campaign |-> c, recipient |-> r, since |-> today]
         /\ \/ pc' = "completing"
            \/ pc' = "checking" /\ r \in RecipientsOf(c)
  <2>1. WithStatus(c, "PENDING") \subseteq RecipientsOf(c)
    BY DEF WithStatus
  <2> QED
    BY <2>1 DEF PickRecipient
<1>3. /\ current' \in Steps /\ current'.campaign = c
      /\ pc' \in {"completing", "checking"}
      /\ pc' = "checking" => current'.recipient \in RecipientsOf(c)
  <2>1. RecipientsOf(c) \subseteq Recipients
    BY CampaignAssumption DEF RecipientsOf
  <2> QED
    BY <1>2, <2>1 DEF TInv, TypeOK, Steps
<1>4. pc' \in Points /\ pc' # "choosing" /\ (pc' \in InStep => pc' = "checking")
  BY <1>3 DEF Points, InStep
<1> QED
  BY <1>1, <1>3, <1>4 DEF TInv, TypeOK, Held, c0, r0, tables, world, ghosts

\* What the loop has when it is in a step.
LEMMA StepTypes ==
    ASSUME TInv, pc \in InStep \cup {"completing"}
    PROVE  /\ current \in Steps /\ c0 \in Campaigns /\ c0 \in batch /\ copies[c0] \in Campaign
           /\ pc \in InStep => r0 \in RecipientsOf(c0) /\ r0 \in Recipients
<1>1. current \in Steps /\ c0 \in batch
  BY DEF TInv, TypeOK, Held
<1>2. c0 \in Campaigns
  BY <1>1 DEF Steps, c0
<1>3. copies[c0] \in Campaign
  BY <1>1, <1>2 DEF TInv, TypeOK
<1>4. RecipientsOf(c0) \subseteq Recipients
  BY <1>2, CampaignAssumption DEF RecipientsOf
<1> QED
  BY <1>1, <1>2, <1>3, <1>4 DEF TInv, TypeOK

\* A step that returns.
LEMMA ReturnTInv ==
    ASSUME TInv, Return, UNCHANGED <<recipients, created, request, outside, world, ghosts>>,
           campaigns' \in [Campaigns -> Campaign \cup {NoRow}],
           copies' \in [Campaigns -> Campaign \cup {NoRow}],
           \A c \in batch : copies'[c] # NoRow,
           pointers' \in [Campaigns -> Nat], cooling' \subseteq Campaigns
    PROVE  TInv'
<1>1. /\ pc' = "running" /\ batch' \subseteq batch /\ current' = NoRow /\ active' = <<>>
      /\ attempts' = 0 /\ selected' = NoRow
  BY DEF Return, ClearStep
<1>2. pc' \in Points /\ pc' \notin InStep \cup {"completing", "choosing"}
  BY <1>1 DEF Points, InStep
<1> QED
  BY <1>1, <1>2 DEF TInv, TypeOK, Held, world, ghosts

LEMMA EndTInv == ASSUME TInv, Complete \/ Pause PROVE TInv'
<1>1. \E s \in Statuses : EndWith(s)
  BY DEF Complete, Pause, Statuses
<1>2. pc \in InStep \cup {"completing"}
  BY DEF Complete, Pause, InStep, Points
<1>3. c0 \in Campaigns /\ copies[c0] \in Campaign
  BY <1>2, StepTypes
<1>4. \E x \in Campaign : campaigns' = [campaigns EXCEPT ![c0] = x]
  BY <1>1, <1>3, WrittenCampaign DEF EndWith
<1>5. campaigns' \in [Campaigns -> Campaign \cup {NoRow}]
  BY <1>3, <1>4 DEF TInv, TypeOK
<1> QED
  BY <1>1, <1>5, ReturnTInv DEF EndWith, TInv, TypeOK

LEMMA CountTInv == ASSUME TInv, CountSent \/ CountFailed PROVE TInv'
<1>1. pc \in InStep \cup {"completing"}
  BY DEF CountSent, CountFailed, InStep, Points
<1>2. c0 \in Campaigns /\ copies[c0] \in Campaign
  BY <1>1, StepTypes
<1>3. \E x \in Campaign : copies' = [copies EXCEPT ![c0] = x]
  BY <1>2, WrittenCampaign DEF CountSent, CountFailed, OneMoreSent, OneMoreFailed
<1>4. /\ copies' \in [Campaigns -> Campaign \cup {NoRow}] /\ copies'[c0] \in Campaign
      /\ \A c \in batch : copies'[c] # NoRow
  BY <1>2, <1>3, RowAssumption DEF TInv, TypeOK
<1>5. campaigns' \in [Campaigns -> Campaign \cup {NoRow}]
  BY <1>2, <1>4 DEF CountSent, CountFailed, TInv, TypeOK
<1>6. cooling' \subseteq Campaigns
  BY <1>2 DEF CountSent, CountFailed, TInv, TypeOK
<1> QED
  BY <1>4, <1>5, <1>6, ReturnTInv DEF CountSent, CountFailed, TInv, TypeOK

LEMMA CheckDevicesTInv == ASSUME TInv, CheckDevices PROVE TInv'
<1>1. pc \in InStep
  BY DEF CheckDevices, InStep, Points
<1>2. current \in Steps /\ c0 \in Campaigns /\ r0 \in RecipientsOf(c0) /\ c0 \in batch
  BY <1>1, StepTypes
<1>3. current' = [current EXCEPT !.since = today]
  BY DEF CheckDevices
<1>4. current' \in Steps /\ c0' = c0 /\ r0' = r0
  BY <1>2, <1>3 DEF Steps, c0, r0, TInv, TypeOK
<1>5. active' \in Seq(Devices) /\ Len(active') \in Nat
  <2> DEFINE devices == DeviceIds[c0]
             I == {i \in DOMAIN devices : devices[i] \in online}
  <2>1. devices \in Seq(Devices) /\ I \in SUBSET (DOMAIN devices) /\ active' = Pick(devices, I)
    BY <1>2, CampaignAssumption DEF CheckDevices
  <2> HIDE DEF devices, I
  <2>2. Pick(devices, I) \in Seq(Devices)
    BY <2>1, PickType, Zenon
  <2> QED
    BY <2>1, <2>2
<1>6. pc' \in {"pausing", "choosing"} /\ (pc' = "choosing" => active' # <<>>)
  BY DEF CheckDevices
<1>7. /\ pc' \in Points /\ pc' \in InStep /\ attempts' = 0
      /\ pc' = "choosing" => attempts' < Len(active')
  BY <1>5, <1>6 DEF Points, InStep, TInv, Held, CheckDevices
<1> QED
  BY <1>2, <1>4, <1>5, <1>7 DEF CheckDevices, TInv, TypeOK, Held, tables, world, ghosts

\* One device after the other is tried, at most once each.
LEMMA TryDeviceTInv == ASSUME TInv, TryDevice PROVE TInv'
<1> DEFINE n == Len(active)
           index == (pointers[c0] + attempts) % n
           d == active[index + 1]
<1>1. pc = "choosing" /\ pc \in InStep
  BY DEF TryDevice, InStep, Points
<1>2. /\ current \in Steps /\ c0 \in Campaigns /\ c0 \in batch /\ r0 \in RecipientsOf(c0)
      /\ n \in Nat /\ attempts \in Nat /\ attempts < n /\ pointers[c0] \in Nat
      /\ active \in Seq(Devices)
  BY <1>1, StepTypes DEF TInv, TypeOK, Held
<1>3. index \in 0 .. n - 1 /\ (index + 1) % n \in Nat
  <2>1. \A a \in Nat, m \in Nat \ {0} : a % m \in 0 .. m - 1
    OBVIOUS
  <2>2. pointers[c0] + attempts \in Nat /\ n \in Nat \ {0}
    BY <1>2
  <2>3. index \in 0 .. n - 1
    BY <2>1, <2>2
  <2> HIDE DEF index
  <2>4. index + 1 \in Nat
    BY <2>2, <2>3
  <2> QED
    BY <2>1, <2>2, <2>3, <2>4
<1>4. d \in Devices
  BY <1>2, <1>3
<1> HIDE DEF index, d
<1>5. CASE /\ attempts' = attempts + 1
           /\ pc' = IF Exhausted THEN "pausing" ELSE "choosing"
           /\ UNCHANGED <<batch, current, active, selected, pointers>>
           /\ UNCHANGED <<tables, created, request, copies, outside, cooling, world, ghosts>>
  <2>1. pc' \in {"pausing", "choosing"} /\ (pc' = "choosing" => attempts' < n)
    BY <1>2, <1>5 DEF Exhausted
  <2>2. pc' \in Points /\ pc' \in InStep /\ attempts' \in Nat
    BY <1>2, <1>5, <2>1 DEF Points, InStep
  <2> QED
    BY <1>2, <1>5, <2>1, <2>2 DEF TInv, TypeOK, Held, c0, r0, tables, world, ghosts
<1>6. ASSUME pointers' = [pointers EXCEPT ![c0] = (index + 1) % n],
             UNCHANGED <<tables, created, request, copies, outside, cooling, world, ghosts>>
      PROVE  pointers' \in [Campaigns -> Nat]
  BY <1>2, <1>3, <1>6 DEF TInv, TypeOK
<1>7. CASE /\ pointers' = [pointers EXCEPT ![c0] = (index + 1) % n]
           /\ Return
           /\ UNCHANGED <<tables, created, request, copies, outside, cooling, world, ghosts>>
  BY <1>6, <1>7, ReturnTInv DEF TInv, TypeOK, tables
<1>8. CASE /\ pointers' = [pointers EXCEPT ![c0] = (index + 1) % n]
           /\ selected' = d
           /\ pc' = IF r0 \in BadNumbers THEN "rejecting" ELSE "sending"
           /\ UNCHANGED <<batch, current, active, attempts>>
           /\ UNCHANGED <<tables, created, request, copies, outside, cooling, world, ghosts>>
  <2>1. pc' \in Points /\ pc' \in InStep /\ pc' \notin {"choosing", "checking", "completing"}
    BY <1>8 DEF Points, InStep
  <2>2. pointers' \in [Campaigns -> Nat]
    BY <1>6, <1>8
  <2> QED
    BY <1>2, <1>4, <1>8, <2>1, <2>2 DEF TInv, TypeOK, Held, c0, r0, tables, world, ghosts
<1> QED
  BY <1>5, <1>7, <1>8 DEF TryDevice, index, d

LEMMA SendTInv == ASSUME TInv, Send PROVE TInv'
<1>1. pc \in InStep /\ pc' \in InStep /\ pc' \in Points /\ pc' \in {"savingSent", "savingFailed"}
  BY DEF Send, InStep, Points
<1>2. current \in Steps /\ c0 \in batch /\ r0 \in RecipientsOf(c0) /\ attempts \in Nat
  BY <1>1, StepTypes DEF TInv, Held
<1>3. sends' \in [Recipients -> Nat] /\ sentToday' \in [Devices -> Nat]
  <2>1. r0 \in Recipients /\ selected \in Devices
    BY <1>1, StepTypes DEF Send, TInv, Held
  <2>2. \/ sends' = sends /\ sentToday' = sentToday
        \/ /\ sends' = [sends EXCEPT ![r0] = sends[r0] + 1]
           /\ sentToday' = [sentToday EXCEPT ![selected] = sentToday[selected] + 1]
    BY DEF Send, ghosts
  <2>3. sends \in [Recipients -> Nat] /\ sentToday \in [Devices -> Nat]
    BY DEF TInv, TypeOK
  <2> QED
    BY <2>1, <2>2, <2>3
<1> QED
  BY <1>1, <1>2, <1>3 DEF Send, TInv, TypeOK, Held, c0, r0, tables, loop, world

LEMMA SaveTInv == ASSUME TInv, SaveSent \/ SaveFailed PROVE TInv'
<1>1. /\ pc \in InStep /\ pc' \in InStep /\ pc' \in Points
      /\ pc' \in {"countingSent", "countingFailed", "countingRejected"}
  BY DEF SaveSent, SaveFailed, InStep, Points
<1>2. current \in Steps /\ c0 \in batch /\ r0 \in RecipientsOf(c0) /\ r0 \in Recipients
      /\ attempts \in Nat
  BY <1>1, StepTypes DEF TInv, Held
<1>3. recipients' \in [Recipients -> Recipient \cup {NoRow}]
  <2>1. CASE SaveSent
    <3> DEFINE x == [status |-> "SENT", device |-> selected, day |-> today]
    <3>1. pc = "savingSent" /\ recipients' = [recipients EXCEPT ![r0] = x]
      BY <2>1 DEF SaveSent
    <3>2. x \in Recipient
      BY <3>1 DEF Recipient, TInv, TypeOK, Held
    <3> HIDE DEF x
    <3> QED
      BY <1>2, <3>1, <3>2 DEF TInv, TypeOK
  <2>2. CASE SaveFailed
    <3>1. [status |-> "FAILED"] \in Recipient
      BY DEF Recipient
    <3> QED
      BY <1>2, <2>2, <3>1 DEF SaveFailed, TInv, TypeOK
  <2> QED
    BY <2>1, <2>2
<1> QED
  BY <1>1, <1>2, <1>3 DEF SaveSent, SaveFailed, TInv, TypeOK, Held, c0, r0, loop, world, ghosts

LEMMA DatabaseFailsTInv == ASSUME TInv, DatabaseFails PROVE TInv'
<1>1. /\ faults' \in 0 .. MaxFaults
      /\ UNCHANGED <<tables, created, request, due, online, today, crashes, losses, ghosts>>
  BY CampaignAssumption DEF DatabaseFails, TInv, TypeOK
<1>2. CASE pc \in {"savingSent", "countingSent"}
  <2>1. pc' = "savingFailed" /\ pc \in InStep /\ pc' \in InStep /\ pc' \in Points
    BY <1>2 DEF DatabaseFails, InStep, Points
  <2>2. /\ current \in Steps /\ c0 \in Campaigns /\ c0 \in batch /\ r0 \in RecipientsOf(c0)
        /\ copies[c0] \in Campaign /\ attempts \in Nat
    BY <2>1, StepTypes DEF TInv, Held
  <2>3. /\ copies' \in [Campaigns -> Campaign \cup {NoRow}]
        /\ \A c \in batch : copies'[c] # NoRow
    <3>1. \/ copies' = copies
          \/ \E x \in Campaign : copies' = [copies EXCEPT ![c0] = x]
      BY <1>2, <2>2, WrittenCampaign DEF DatabaseFails, OneMoreSent, loop
    <3> QED
      BY <2>2, <3>1, RowAssumption DEF TInv, TypeOK
  <2> QED
    BY <1>1, <1>2, <2>1, <2>2, <2>3 DEF DatabaseFails, TInv, TypeOK, Held, c0, r0, tables, loop,
       ghosts
<1>3. CASE pc \notin {"savingSent", "countingSent"}
  <2>1. /\ pc' = "top" /\ batch' = {} /\ ClearStep
        /\ UNCHANGED <<copies, outside, pointers, cooling>>
    BY <1>3 DEF DatabaseFails
  <2>2. pc' \in Points /\ pc' \notin InStep
    BY <2>1 DEF InStep, Points
  <2> QED
    BY <1>1, <2>1, <2>2 DEF TInv, TypeOK, Held, ClearStep, tables, ghosts
<1> QED
  BY <1>2, <1>3

LEMMA CrashTInv == ASSUME TInv, Crash PROVE TInv'
<1>1. /\ crashes' \in 0 .. MaxCrashes
      /\ request' \in [Requests -> RequestStates]
      /\ created' \in [Campaigns -> Nat]
      /\ \A c \in Campaigns : created'[c] <= Len(Chunks[c]) + 1
  <2>1. request' \in [Requests -> RequestStates]
    BY DEF Crash, RequestStates
  <2>2. \A c \in Campaigns : Len(Chunks[c]) \in Nat
    BY CampaignAssumption
  <2>3. created' = [c \in Campaigns |-> IF created[c] = 0 THEN 0 ELSE Len(Chunks[c]) + 1]
    BY DEF Crash
  <2>4. crashes' \in 0 .. MaxCrashes
    BY CampaignAssumption DEF Crash, TInv, TypeOK
  <2> QED
    BY <2>1, <2>2, <2>3, <2>4
<1>2. pc' = "top" /\ pc' \in Points /\ pc' \notin InStep
  BY DEF Crash, InStep, Points
<1> QED
  BY <1>1, <1>2 DEF Crash, ClearStep, TInv, TypeOK, Held, tables, ghosts

LEMMA EnvironmentTInv ==
    ASSUME TInv,
           \/ Midnight
           \/ \E c \in Campaigns : CreationFails(c) \/ DateArrives(c) \/ CooldownEnds(c)
           \/ \E d \in Devices : Connect(d) \/ Disconnect(d)
    PROVE  TInv'
<1>1. UNCHANGED <<campaigns, recipients, request, pc, batch, copies, outside, current, active,
                  attempts, selected, pointers, crashes, sends>>
  BY DEF Midnight, CreationFails, DateArrives, CooldownEnds, Connect, Disconnect, tables, loop,
         world, ghosts
<1>2. /\ created' \in [Campaigns -> Nat]
      /\ \A c \in Campaigns : created'[c] <= Len(Chunks[c]) + 1
  <2>1. \/ created' = created
        \/ \E c \in Campaigns : created' = [created EXCEPT ![c] = Len(Chunks[c]) + 1]
    BY Zenon DEF Midnight, CreationFails, DateArrives, CooldownEnds, Connect, Disconnect
  <2>2. \A c \in Campaigns : Len(Chunks[c]) \in Nat
    BY CampaignAssumption
  <2>3. /\ created \in [Campaigns -> Nat]
        /\ \A c \in Campaigns : created[c] <= Len(Chunks[c]) + 1
    BY DEF TInv, TypeOK
  <2>4. ASSUME NEW c \in Campaigns, NEW n \in Nat, n = Len(Chunks[c]) + 1,
               created' = [created EXCEPT ![c] = n]
        PROVE  <1>2!:
    BY <2>3, <2>4
  <2>5. \A c \in Campaigns : Len(Chunks[c]) + 1 \in Nat
    BY <2>2
  <2> QED
    BY <2>1, <2>3, <2>4, <2>5
<1>3. /\ faults' \in 0 .. MaxFaults /\ losses' \in 0 .. MaxLosses /\ today' \in 0 .. MaxDays
      /\ due' \subseteq Scheduled /\ online' \subseteq Devices /\ cooling' \subseteq Campaigns
      /\ sentToday' \in [Devices -> Nat]
  <2>1. /\ faults' = faults \/ (faults < MaxFaults /\ faults' = faults + 1)
        /\ losses' = losses \/ (losses < MaxLosses /\ losses' = losses + 1)
        /\ today' = today \/ (today < MaxDays /\ today' = today + 1)
    BY DEF Midnight, CreationFails, DateArrives, CooldownEnds, Connect, Disconnect, world
  <2>2. /\ due' = due \/ \E c \in Scheduled : due' = due \cup {c}
        /\ online' = online \/ \E d \in Devices : online' \in {online \cup {d}, online \ {d}}
        /\ cooling' = cooling \/ \E c : cooling' = cooling \ {c}
        /\ sentToday' = sentToday \/ sentToday' = [d \in Devices |-> 0]
    BY DEF Midnight, CreationFails, DateArrives, CooldownEnds, Connect, Disconnect, loop, world,
           ghosts
  <2>3. /\ faults \in 0 .. MaxFaults /\ losses \in 0 .. MaxLosses /\ today \in 0 .. MaxDays
        /\ due \subseteq Scheduled /\ online \subseteq Devices /\ cooling \subseteq Campaigns
        /\ sentToday \in [Devices -> Nat]
    BY DEF TInv, TypeOK
  <2>a. MaxFaults \in Nat /\ MaxLosses \in Nat /\ MaxDays \in Nat
    BY CampaignAssumption
  <2>4. /\ faults' \in 0 .. MaxFaults
        /\ losses' \in 0 .. MaxLosses
        /\ today' \in 0 .. MaxDays
    <3>1. faults' \in 0 .. MaxFaults
      BY <2>1, <2>3, <2>a
    <3>2. losses' \in 0 .. MaxLosses
      BY <2>1, <2>3, <2>a
    <3>3. today' \in 0 .. MaxDays
      BY <2>1, <2>3, <2>a
    <3> QED
      BY <3>1, <3>2, <3>3
  <2> QED
    BY <2>2, <2>3, <2>4
<1> QED
  BY <1>1, <1>2, <1>3 DEF TInv, TypeOK, Held, c0, r0

LEMMA InitTInv == Init => TInv
<1> SUFFICES ASSUME Init PROVE TInv
  OBVIOUS
<1>1. Idle \in RequestStates /\ "top" \in Points /\ "top" \notin InStep
  BY DEF RequestStates, Points, InStep
<1>2. \A c \in Campaigns : Len(Chunks[c]) \in Nat
  BY CampaignAssumption
<1> QED
  BY <1>1, <1>2, CampaignAssumption DEF Init, TInv, TypeOK, Held

LEMMA NextTInv == ASSUME TInv, [Next]_vars PROVE TInv'
<1>1. CASE Loop
  BY <1>1, RoundTInv, AutoStartTInv, PickRecipientTInv, EndTInv, CheckDevicesTInv,
     TryDeviceTInv, SendTInv, SaveTInv, CountTInv, Zenon DEF Loop
<1>2. CASE User
  BY <1>2, CreateCampaignTInv, SaveChunkTInv, ReadCampaignTInv, SaveStatusTInv, DeleteTInv,
     Zenon DEF User
<1>3. CASE World
  BY <1>3, DatabaseFailsTInv, CrashTInv, EnvironmentTInv, Zenon DEF World
<1>4. CASE UNCHANGED vars
  BY <1>4 DEF vars, TInv, TypeOK, Held, c0, r0
<1> QED
  BY <1>1, <1>2, <1>3, <1>4 DEF Next

\* Every variable has its type in every reachable state, whatever is created, started, paused
\* and deleted beside the loop and whatever fails: a step has a recipient of its campaign and
\* a copy of the campaign to save, and the round robin stays within the active devices
\* (processCampaignStep).
THEOREM CampaignsTyped == Spec => []TypeOK
<1>1. TInv => TypeOK
  BY DEF TInv
<1> QED
  BY <1>1, InitTInv, NextTInv, PTL DEF Spec

(***************************************************************************)
(* The daily limit, where no campaign is deleted. Told(d) is what the rows *)
(* of today, the row that is written next, the crashes and the faults say  *)
(* of the messages of a device; a row that is about to become FAILED tells *)
(* nothing any more. The check of the limit reads the rows of the day on   *)
(* which the step began, and the row of the step is PENDING until then.    *)
(***************************************************************************)
NoDeletions == "delete" \notin Operations

NothingDeleted == \A q \in Requests : request[q].at \notin {"delete", "deleting"}

SentToday(d) ==
    {r \in Recipients : /\ RecipientIs(r, "SENT")
                        /\ recipients[r].device = d /\ recipients[r].day = today
                        /\ ~(pc = "savingFailed" /\ r0 = r)}

UnsavedOf(d) == IF pc = "savingSent" /\ selected = d THEN 1 ELSE 0

Told(d) == Cardinality(SentToday(d)) + UnsavedOf(d) + crashes + faults

PendingStep ==
    pc \in Early \cup {"savingSent"} => RecipientIs(r0, "PENDING") /\ current.since <= today

LimitChecked == pc = "sending" => DailySentCount(selected) < DailyLimit

AllTold == \A d \in Devices : sentToday[d] <= Told(d)

DInv == NothingDeleted /\ PendingStep /\ LimitChecked /\ AllTold /\ DailyLimitHolds

\* Sets of recipients are finite.
LEMMA RecipientsFinite ==
    ASSUME NEW S \in SUBSET Recipients
    PROVE  IsFiniteSet(S) /\ Cardinality(S) \in Nat
BY RowAssumption, FS_Subset, FS_CardinalityType

LEMMA MoreRecipients ==
    ASSUME NEW S \in SUBSET Recipients, NEW T \in SUBSET Recipients
    PROVE  /\ S \subseteq T => Cardinality(S) <= Cardinality(T)
           /\ \A r \in Recipients : S \subseteq T \cup {r} => Cardinality(S) <= Cardinality(T) + 1
           /\ \A r \in Recipients \ S : T = S \cup {r} => Cardinality(T) = Cardinality(S) + 1
<1>1. /\ IsFiniteSet(S) /\ IsFiniteSet(T) /\ Cardinality(S) \in Nat /\ Cardinality(T) \in Nat
  BY RecipientsFinite
<1>2. S \subseteq T => Cardinality(S) <= Cardinality(T)
  BY <1>1, FS_Subset
<1>3. ASSUME NEW r \in Recipients, S \subseteq T \cup {r}
      PROVE  Cardinality(S) <= Cardinality(T) + 1
  <2>1. /\ IsFiniteSet(T \cup {r})
        /\ Cardinality(T \cup {r}) = Cardinality(T) \/ Cardinality(T \cup {r}) = Cardinality(T) + 1
    BY <1>1, FS_AddElement
  <2>2. Cardinality(S) <= Cardinality(T \cup {r})
    BY <1>3, <2>1, FS_Subset
  <2> QED
    BY <1>1, <2>1, <2>2
<1>4. ASSUME NEW r \in Recipients \ S, T = S \cup {r}
      PROVE  Cardinality(T) = Cardinality(S) + 1
  BY <1>1, <1>4, FS_AddElement
<1> QED
  BY <1>2, <1>3, <1>4

\* The numbers of the account.
LEMMA ToldType ==
    ASSUME TInv, NEW d \in Devices
    PROVE  /\ SentToday(d) \in SUBSET Recipients /\ Cardinality(SentToday(d)) \in Nat
           /\ UnsavedOf(d) \in {0, 1}
           /\ {crashes, faults, sentToday[d], DailyLimit, today} \subseteq Nat
<1>1. SentToday(d) \in SUBSET Recipients
  BY DEF SentToday
<1>2. {crashes, faults, sentToday[d], DailyLimit, today} \subseteq Nat
  BY CampaignAssumption DEF TInv, TypeOK
<1> QED
  BY <1>1, <1>2, RecipientsFinite DEF UnsavedOf

\* A step that sends nothing and after which no less is told.
LEMMA StillTold ==
    ASSUME TInv, TInv', DInv, sentToday' = sentToday,
           crashes' >= crashes, faults' >= faults,
           \A d \in Devices :
              Cardinality(SentToday(d)) + UnsavedOf(d) + crashes + faults
                 <= Cardinality(SentToday(d)') + UnsavedOf(d)' + crashes' + faults'
    PROVE  AllTold' /\ DailyLimitHolds'
<1> SUFFICES ASSUME NEW d \in Devices
             PROVE  sentToday[d] <= Told(d)' /\ sentToday[d] <= DailyLimit + crashes' + faults'
  BY DEF AllTold, DailyLimitHolds
<1>1. /\ SentToday(d) \in SUBSET Recipients /\ Cardinality(SentToday(d)) \in Nat
      /\ UnsavedOf(d) \in {0, 1}
      /\ {crashes, faults, sentToday[d], DailyLimit} \subseteq Nat
  BY ToldType
<1>2. /\ Cardinality(SentToday(d)') \in Nat /\ UnsavedOf(d)' \in {0, 1}
      /\ {crashes', faults'} \subseteq Nat
  <2>1. SentToday(d)' \in SUBSET Recipients
    BY DEF SentToday
  <2>2. {crashes', faults'} \subseteq Nat
    BY CampaignAssumption DEF TInv, TypeOK
  <2> QED
    BY <2>1, <2>2, RecipientsFinite DEF UnsavedOf
<1>3. sentToday[d] <= Told(d) /\ sentToday[d] <= DailyLimit + crashes + faults
  BY DEF DInv, AllTold, DailyLimitHolds
<1> QED
  BY <1>1, <1>2, <1>3 DEF Told

\* A step that leaves the rows that are SENT, and does not begin or end a save.
LEMMA RowsTold ==
    ASSUME TInv, TInv', DInv, UNCHANGED <<sentToday, today, crashes>>, faults' >= faults,
           \A r \in Recipients : \/ recipients'[r] = recipients[r]
                                 \/ ~RecipientIs(r, "SENT") /\ ~RecipientIs(r, "SENT")',
           \/ UNCHANGED <<pc, current, selected>>
           \/ {pc, pc'} \cap {"savingSent", "savingFailed"} = {}
    PROVE  AllTold' /\ DailyLimitHolds'
<1>1. \A r \in Recipients :
         /\ RecipientIs(r, "SENT")' = RecipientIs(r, "SENT")
         /\ RecipientIs(r, "SENT") => recipients'[r] = recipients[r]
  BY DEF RecipientIs
<1>2. (pc = "savingFailed") = (pc' = "savingFailed") /\ (pc = "savingFailed" => r0' = r0)
  BY DEF r0
<1>3. \A d \in Devices : SentToday(d)' = SentToday(d) /\ UnsavedOf(d)' = UnsavedOf(d)
  BY <1>1, <1>2 DEF SentToday, UnsavedOf
<1>4. {crashes, faults, faults'} \subseteq Nat /\ crashes' >= crashes
  BY CampaignAssumption DEF TInv, TypeOK
<1>5. ASSUME NEW d \in Devices
      PROVE  Cardinality(SentToday(d)) + UnsavedOf(d) + crashes + faults
                <= Cardinality(SentToday(d)') + UnsavedOf(d)' + crashes' + faults'
  <2>1. Cardinality(SentToday(d)) \in Nat /\ UnsavedOf(d) \in {0, 1}
    BY ToldType
  <2> QED
    BY <1>3, <1>4, <2>1
<1> QED
  BY <1>4, <1>5, StillTold

\* The row of a step is put there by nobody else.
LEMMA RowOfStep ==
    ASSUME IInv, NEW r \in Recipients, InHand(r), NEW c \in Campaigns, SaveChunk(c)
    PROVE  recipients'[r] = recipients[r]
<1>1. ~Unsaved(r)
  BY DEF IInv, Account, Untouched
<1>2. created[c] \in DOMAIN Chunks[c] /\ created[c] <= created[c]
  BY CampaignAssumption DEF SaveChunk
<1> QED
  BY <1>1, <1>2 DEF SaveChunk, Unsaved

LEMMA SaveChunkDInv ==
    ASSUME IInv, TInv, TInv', DInv, NEW c \in Campaigns, SaveChunk(c)
    PROVE  DInv'
<1>1. UNCHANGED <<campaigns, request, pc, loop, world, ghosts>>
  BY DEF SaveChunk
<1>2. created[c] \in DOMAIN Chunks[c] /\ created[c] <= created[c]
  BY CampaignAssumption DEF SaveChunk
<1>3. ASSUME NEW r \in Recipients
      PROVE  \/ recipients'[r] = recipients[r]
             \/ recipients[r] = NoRow /\ recipients'[r] = [status |-> "PENDING"]
  BY <1>2 DEF SaveChunk, IInv, Account, Untouched, Unsaved
<1>4. AllTold' /\ DailyLimitHolds'
  <2>1. \A r \in Recipients : \/ recipients'[r] = recipients[r]
                              \/ ~RecipientIs(r, "SENT") /\ ~RecipientIs(r, "SENT")'
    BY <1>3 DEF RecipientIs
  <2>2. faults \in Nat
    BY CampaignAssumption DEF TInv, TypeOK
  <2> QED
    BY <1>1, <2>1, <2>2, RowsTold DEF loop, world, ghosts
<1>5. PendingStep'
  <2>1. ASSUME pc \in Early \cup {"savingSent"}
        PROVE  RecipientIs(r0, "PENDING")'
    <3>1. pc \in InStep
      BY <2>1 DEF Early, InStep, Points
    <3>2. r0 \in Recipients /\ InHand(r0) /\ r0' = r0
      BY <1>1, <3>1, StepTypes DEF InHand, r0, loop
    <3>3. recipients'[r0] = recipients[r0]
      BY <3>2, RowOfStep
    <3> QED
      BY <2>1, <3>2, <3>3 DEF DInv, PendingStep, RecipientIs
  <2> QED
    BY <1>1, <2>1 DEF DInv, PendingStep, loop, world
<1>6. LimitChecked'
  <2>1. \A r \in Recipients :
           /\ RecipientIs(r, "SENT")' = RecipientIs(r, "SENT")
           /\ RecipientIs(r, "SENT") => recipients'[r] = recipients[r]
    BY <1>3 DEF RecipientIs
  <2>2. \A d : DailySentCount(d)' = DailySentCount(d)
    BY <1>1, <2>1 DEF DailySentCount, loop
  <2> QED
    BY <1>1, <2>2 DEF DInv, LimitChecked, loop
<1> QED
  BY <1>1, <1>4, <1>5, <1>6 DEF DInv, NothingDeleted

\* The requests, as none is a deletion, and what goes on beside the loop.
LEMMA BesideDInv ==
    ASSUME NoDeletions, IInv, TInv, TInv', DInv, Beside
    PROVE  DInv'
<1>1. CASE ~Midnight
  <2>1. UNCHANGED <<recipients, sends, sentToday, pc, current, selected, today, crashes>>
    BY <1>1 DEF Beside, CreateCampaign, CreationFails, DateArrives, CooldownEnds, ReadCampaign,
       SaveStatus, DeleteCampaign, Connect, Disconnect, tables, loop, world, ghosts
  <2>2. faults' \in {faults, faults + 1}
    BY <1>1 DEF Beside, CreateCampaign, CreationFails, DateArrives, CooldownEnds, ReadCampaign,
       SaveStatus, DeleteCampaign, Connect, Disconnect, world
  <2>3. faults' >= faults
    BY <2>2, CampaignAssumption DEF TInv, TypeOK
  <2>4. AllTold' /\ DailyLimitHolds'
    BY <2>1, <2>3, RowsTold
  <2>5. PendingStep' /\ LimitChecked'
    BY <2>1 DEF DInv, PendingStep, LimitChecked, RecipientIs, DailySentCount, r0
  <2>6. NothingDeleted'
    <3>1. \/ request' = request
          \/ \E q \in Requests, op \in Operations, c \in Campaigns :
                request' = [request EXCEPT ![q] =
                              [at |-> op, campaign |-> c, copy |-> campaigns[c]]]
          \/ \E q \in Requests : request' = [request EXCEPT ![q] = Finished]
      BY <1>1, Zenon DEF Beside, CreateCampaign, CreationFails, DateArrives, CooldownEnds,
         ReadCampaign, SaveStatus, DeleteCampaign, Connect, Disconnect
    <3>2. \A op \in Operations : op \notin {"delete", "deleting"}
      BY CampaignAssumption DEF NoDeletions
    <3>3. \/ request' = request
          \/ \E q \in Requests : \E x : /\ request' = [request EXCEPT ![q] = x]
                                        /\ x.at \notin {"delete", "deleting"}
      <4>1. ASSUME NEW q \in Requests, NEW op \in Operations, NEW c \in Campaigns,
                   request' = [request EXCEPT ![q] =
                                 [at |-> op, campaign |-> c, copy |-> campaigns[c]]]
            PROVE  <3>3!:
        <5> DEFINE x == [at |-> op, campaign |-> c, copy |-> campaigns[c]]
        <5>1. x.at \notin {"delete", "deleting"} /\ request' = [request EXCEPT ![q] = x]
          BY <3>2, <4>1
        <5> HIDE DEF x
        <5> QED
          BY <5>1
      <4>2. Finished.at \notin {"delete", "deleting"}
        BY DEF Finished
      <4> QED
        BY <3>1, <4>1, <4>2, Zenon
    <3> QED
      BY <3>3 DEF DInv, NothingDeleted, TInv, TypeOK
  <2> QED
    BY <2>4, <2>5, <2>6 DEF DInv
<1>2. CASE Midnight
  <2>1. /\ UNCHANGED <<tables, created, request, pc, loop, crashes, faults>>
        /\ today' = today + 1 /\ sentToday' = [d \in Devices |-> 0]
    BY <1>2 DEF Midnight
  <2>2. ASSUME NEW d \in Devices
        PROVE  0 <= Told(d)' /\ 0 <= DailyLimit + crashes' + faults'
    <3>1. SentToday(d)' \in SUBSET Recipients
      BY DEF SentToday
    <3>2. Cardinality(SentToday(d)') \in Nat /\ UnsavedOf(d)' \in {0, 1}
      BY <3>1, RecipientsFinite DEF UnsavedOf
    <3>3. {crashes, faults, DailyLimit} \subseteq Nat
      BY ToldType
    <3> QED
      BY <2>1, <3>2, <3>3 DEF Told
  <2>3. AllTold' /\ DailyLimitHolds'
    BY <2>1, <2>2 DEF AllTold, DailyLimitHolds
  <2>4. PendingStep'
    <3>1. pc \in Early \cup {"savingSent"} => current.since \in Nat /\ today \in Nat
      <4>1. ASSUME pc \in Early \cup {"savingSent"} PROVE current \in Steps
        BY <4>1, StepTypes DEF Early, InStep, Points
      <4> QED
        BY <4>1, CampaignAssumption DEF Steps, TInv, TypeOK
    <3> QED
      BY <2>1, <3>1 DEF DInv, PendingStep, RecipientIs, r0, tables, loop
  <2>5. LimitChecked' /\ NothingDeleted'
    BY <2>1 DEF DInv, LimitChecked, NothingDeleted, DailySentCount, RecipientIs, tables, loop
  <2> QED
    BY <2>3, <2>4, <2>5 DEF DInv
<1> QED
  BY <1>1, <1>2

\* The loop outside of the sends and the saves.
LEMMA LoopDInv ==
    ASSUME TInv, TInv', DInv,
           \/ LoadScheduled \/ LoadRunning \/ EndRound \/ Complete \/ CheckDevices \/ TryDevice
           \/ Pause \/ CountSent \/ CountFailed
           \/ \E c \in Campaigns : AutoStart(c) \/ Skip(c) \/ PickRecipient(c)
    PROVE  DInv'
<1>1. /\ UNCHANGED <<recipients, request, sentToday, today, crashes, faults>>
      /\ {pc, pc'} \cap {"savingSent", "savingFailed"} = {}
  BY DEF LoadScheduled, LoadRunning, EndRound, Complete, CheckDevices, TryDevice, Pause,
     CountSent, CountFailed, AutoStart, Skip, PickRecipient, EndWith, Return, tables, world,
     ghosts
<1>2. AllTold' /\ DailyLimitHolds'
  <2>1. faults \in Nat
    BY CampaignAssumption DEF TInv, TypeOK
  <2> QED
    BY <1>1, <2>1, RowsTold
<1>3. ASSUME pc' \in Early
      PROVE  RecipientIs(r0, "PENDING")' /\ current'.since <= today'
             /\ (pc' = "sending" => DailySentCount(selected)' < DailyLimit)
  <2>1. today \in Nat
    BY CampaignAssumption DEF TInv, TypeOK
  <2>2. CASE \E c \in Campaigns : PickRecipient(c)
    <3>1. \E c \in Campaigns : \E r \in WithStatus(c, "PENDING") :
             current' = [campaign |-> c, recipient |-> r, since |-> today]
      BY <1>3, <2>2 DEF PickRecipient, Early
    <3>2. pc' # "sending"
      BY <2>2 DEF PickRecipient
    <3> QED
      BY <1>1, <2>1, <3>1, <3>2 DEF WithStatus, RecipientIs, r0
  <2>3. CASE CheckDevices
    <3>1. current' = [current EXCEPT !.since = today] /\ pc \in Early /\ pc' # "sending"
      BY <2>3 DEF CheckDevices, Early
    <3>2. current \in Steps
      BY <3>1, StepTypes DEF Early, InStep, Points
    <3> QED
      BY <1>1, <2>1, <3>1, <3>2 DEF DInv, PendingStep, RecipientIs, r0, Steps
  <2>4. CASE TryDevice
    <3>1. pc \in Early /\ current' = current
      BY <1>3, <2>4 DEF TryDevice, Early, Return
    <3>2. ASSUME pc' = "sending" PROVE DailySentCount(selected)' < DailyLimit
      <4>1. DailySentCount(selected') < DailyLimit
        BY <2>4, <3>2 DEF TryDevice, UnderLimit, Return
      <4> QED
        BY <1>1, <3>1, <4>1 DEF DailySentCount, RecipientIs
    <3> QED
      BY <1>1, <3>1, <3>2 DEF DInv, PendingStep, RecipientIs, r0
  <2>5. CASE \/ LoadScheduled \/ LoadRunning \/ EndRound \/ Complete \/ Pause \/ CountSent
             \/ CountFailed \/ \E c \in Campaigns : AutoStart(c) \/ Skip(c)
    BY <1>3, <2>5 DEF LoadScheduled, LoadRunning, EndRound, Complete, Pause, CountSent,
       CountFailed, AutoStart, Skip, EndWith, Return, Early
  <2> QED
    BY <2>2, <2>3, <2>4, <2>5
<1>4. PendingStep' /\ LimitChecked'
  BY <1>1, <1>3 DEF PendingStep, LimitChecked, Early
<1> QED
  BY <1>1, <1>2, <1>4 DEF DInv, NothingDeleted

\* A message goes out where the check has left room for it.
LEMMA SendDInv == ASSUME TInv, TInv', DInv, Send PROVE DInv'
<1>1. /\ pc = "sending" /\ UNCHANGED <<tables, created, request, loop, world>>
      /\ pc \in InStep /\ r0' = r0
  BY DEF Send, InStep, Points, r0, loop
<1>2. \A d \in Devices : SentToday(d)' = SentToday(d) \/ pc' = "savingFailed"
  BY <1>1 DEF Send, SentToday, RecipientIs, tables, loop, world
<1>3. ~RecipientIs(r0, "SENT")
  BY <1>1 DEF DInv, PendingStep, Early, RecipientIs
<1>4. \A d \in Devices : SentToday(d)' = SentToday(d)
  <2>1. \A r \in Recipients : RecipientIs(r, "SENT") => r # r0
    BY <1>3
  <2>2. \A r \in Recipients : recipients'[r] = recipients[r]
                              /\ RecipientIs(r, "SENT")' = RecipientIs(r, "SENT")
    BY <1>1 DEF tables, RecipientIs
  <2> QED
    BY <1>1, <2>1, <2>2 DEF SentToday, world
<1>5. CASE pc' = "savingFailed"
  <2>1. sentToday' = sentToday /\ crashes' = crashes /\ faults' = faults
    BY <1>1, <1>5 DEF Send, world, ghosts
  <2>2. \A d \in Devices : UnsavedOf(d)' = UnsavedOf(d)
    BY <1>1, <1>5 DEF UnsavedOf
  <2>3. AllTold' /\ DailyLimitHolds'
    BY <1>4, <2>1, <2>2 DEF DInv, AllTold, Told, DailyLimitHolds
  <2>4. PendingStep' /\ LimitChecked' /\ NothingDeleted'
    BY <1>1, <1>5 DEF DInv, PendingStep, LimitChecked, NothingDeleted, Early
  <2> QED
    BY <2>3, <2>4 DEF DInv
<1>6. CASE pc' # "savingFailed"
  <2>1. /\ pc' = "savingSent" /\ crashes' = crashes /\ faults' = faults
        /\ sentToday' = [sentToday EXCEPT ![selected] = sentToday[selected] + 1]
        /\ selected \in Devices /\ selected' = selected
        /\ sentToday \in [Devices -> Nat]
    BY <1>1, <1>6 DEF Send, loop, world, TInv, TypeOK, Held
  <2>2. \A d \in Devices :
           /\ UnsavedOf(d) = 0 /\ UnsavedOf(d)' = IF d = selected THEN 1 ELSE 0
           /\ sentToday'[d] = IF d = selected THEN sentToday[d] + 1 ELSE sentToday[d]
    BY <1>1, <2>1 DEF UnsavedOf
  <2>3. Cardinality(SentToday(selected)) < DailyLimit
    <3> DEFINE S == {r \in Recipients : /\ RecipientIs(r, "SENT")
                                        /\ recipients[r].device = selected
                                        /\ recipients[r].day >= current.since}
    <3>1. current.since <= today
      BY <1>1 DEF DInv, PendingStep, Early
    <3>2. SentToday(selected) \subseteq S
      BY <3>1 DEF SentToday
    <3>3. Cardinality(S) < DailyLimit
      BY <1>1 DEF DInv, LimitChecked, DailySentCount
    <3>4. S \in SUBSET Recipients /\ SentToday(selected) \in SUBSET Recipients
      BY DEF SentToday
    <3> HIDE DEF S
    <3>5. Cardinality(SentToday(selected)) <= Cardinality(S)
      BY <3>2, <3>4, MoreRecipients
    <3>6. {Cardinality(SentToday(selected)), Cardinality(S), DailyLimit} \subseteq Nat
      BY <3>4, RecipientsFinite, CampaignAssumption
    <3> QED
      BY <3>3, <3>5, <3>6
  <2>4. ASSUME NEW d \in Devices
        PROVE  sentToday'[d] <= Told(d)' /\ sentToday'[d] <= DailyLimit + crashes' + faults'
    <3>1. /\ Cardinality(SentToday(d)) \in Nat
          /\ {crashes, faults, sentToday[d], DailyLimit, today} \subseteq Nat
      BY ToldType
    <3>2. sentToday[d] <= Told(d) /\ sentToday[d] <= DailyLimit + crashes + faults
      BY DEF DInv, AllTold, DailyLimitHolds
    <3> QED
      BY <1>4, <2>1, <2>2, <2>3, <3>1, <3>2 DEF Told
  <2>5. AllTold' /\ DailyLimitHolds'
    BY <2>4 DEF AllTold, DailyLimitHolds
  <2>6. PendingStep' /\ LimitChecked' /\ NothingDeleted'
    BY <1>1, <2>1
    DEF DInv, PendingStep, LimitChecked, NothingDeleted, Early, RecipientIs, r0, tables, loop,
        world
  <2> QED
    BY <2>5, <2>6 DEF DInv
<1> QED
  BY <1>5, <1>6

\* The row of the step is written: it tells the message from now on, or nothing as before.
LEMMA SaveDInv == ASSUME TInv, TInv', DInv, SaveSent \/ SaveFailed PROVE DInv'
<1>1. /\ UNCHANGED <<request, loop, world, ghosts>>
      /\ pc \in {"savingSent", "savingFailed", "rejecting"}
      /\ pc' \in {"countingSent", "countingFailed", "countingRejected"}
      /\ r0 \in Recipients /\ r0' = r0
      /\ recipients \in [Recipients -> Recipient \cup {NoRow}]
  <2>1. pc \in {"savingSent", "savingFailed", "rejecting"} /\ loop' = loop
    BY DEF SaveSent, SaveFailed
  <2>2. pc \in InStep /\ r0' = r0
    BY <2>1 DEF InStep, Points, loop, r0
  <2> QED
    BY <2>1, <2>2, StepTypes DEF SaveSent, SaveFailed, TInv, TypeOK
<1>2. PendingStep' /\ LimitChecked' /\ NothingDeleted'
  BY <1>1 DEF DInv, PendingStep, LimitChecked, NothingDeleted, Early
<1>3. \A r \in Recipients \ {r0} :
         recipients'[r] = recipients[r] /\ RecipientIs(r, "SENT")' = RecipientIs(r, "SENT")
  BY <1>1 DEF SaveSent, SaveFailed, RecipientIs
<1>4. {crashes, faults} \subseteq Nat /\ crashes' = crashes /\ faults' = faults
  BY <1>1, CampaignAssumption DEF TInv, TypeOK, world
<1>5. ASSUME NEW d \in Devices
      PROVE  Cardinality(SentToday(d)) + UnsavedOf(d) = Cardinality(SentToday(d)') + UnsavedOf(d)'
  <2>1. CASE SaveFailed
    <3>1. ~RecipientIs(r0, "SENT")'
      BY <1>1, <2>1 DEF SaveFailed, RecipientIs
    <3>2. pc = "rejecting" => ~RecipientIs(r0, "SENT")
      BY DEF DInv, PendingStep, Early, RecipientIs
    <3>3. pc \in {"savingFailed", "rejecting"}
      BY <2>1 DEF SaveFailed
    <3>4. SentToday(d)' = SentToday(d)
      BY <1>1, <1>3, <3>1, <3>2, <3>3 DEF SentToday, world
    <3>5. UnsavedOf(d) = 0 /\ UnsavedOf(d)' = 0
      BY <1>1, <3>3 DEF UnsavedOf
    <3> QED
      BY <3>4, <3>5
  <2>2. CASE SaveSent /\ d = selected
    <3>1. /\ recipients'[r0] = [status |-> "SENT", device |-> selected, day |-> today]
          /\ pc = "savingSent" /\ ~RecipientIs(r0, "SENT")
      BY <1>1, <2>2 DEF SaveSent, DInv, PendingStep, RecipientIs
    <3>2. RecipientIs(r0, "SENT")'
      <4>1. recipients'[r0] \in Recipient
        BY <1>1, <3>1 DEF TInv, TypeOK, Recipient, Held
      <4>2. recipients'[r0].status = "SENT"
        BY <3>1
      <4> QED
        BY <1>1, <4>1, <4>2, RowAssumption DEF RecipientIs
    <3>3. SentToday(d)' = SentToday(d) \cup {r0} /\ r0 \in Recipients \ SentToday(d)
      BY <1>1, <1>3, <2>2, <3>1, <3>2 DEF SentToday, world
    <3>4. SentToday(d)' \in SUBSET Recipients /\ SentToday(d) \in SUBSET Recipients
      BY DEF SentToday
    <3>5. Cardinality(SentToday(d)') = Cardinality(SentToday(d)) + 1
      <4> DEFINE S == SentToday(d)
                 T == SentToday(d)'
      <4>1. S \in SUBSET Recipients /\ T \in SUBSET Recipients /\ T = S \cup {r0} /\ r0 \in Recipients \ S
        BY <3>3, <3>4
      <4> HIDE DEF S, T
      <4>2. Cardinality(T) = Cardinality(S) + 1
        BY <4>1, MoreRecipients
      <4> QED
        BY <4>2 DEF S, T
    <3>6. UnsavedOf(d) = 1 /\ UnsavedOf(d)' = 0
      BY <1>1, <2>2, <3>1 DEF UnsavedOf
    <3>7. Cardinality(SentToday(d)) \in Nat
      BY ToldType
    <3> QED
      BY <3>5, <3>6, <3>7
  <2>3. CASE SaveSent /\ d # selected
    <3>1. /\ recipients'[r0] = [status |-> "SENT", device |-> selected, day |-> today]
          /\ pc = "savingSent" /\ ~RecipientIs(r0, "SENT")
      BY <1>1, <2>3 DEF SaveSent, DInv, PendingStep, RecipientIs
    <3>2. recipients'[r0].device # d
      BY <2>3, <3>1
    <3>3. SentToday(d)' = SentToday(d)
      BY <1>1, <1>3, <3>1, <3>2 DEF SentToday, world
    <3>4. UnsavedOf(d) = 0 /\ UnsavedOf(d)' = 0
      BY <1>1, <2>3 DEF UnsavedOf
    <3> QED
      BY <3>3, <3>4
  <2> QED
    BY <2>1, <2>2, <2>3
<1>6. AllTold' /\ DailyLimitHolds'
  <2>1. sentToday' = sentToday
    BY <1>1 DEF ghosts
  <2>2. ASSUME NEW d \in Devices
        PROVE  Told(d)' = Told(d)
    BY <1>4, <1>5 DEF Told
  <2> QED
    BY <1>4, <2>1, <2>2 DEF DInv, AllTold, DailyLimitHolds
<1> QED
  BY <1>2, <1>6 DEF DInv

\* A fault or a crash hides one message at most, and is counted for it.
LEMMA HiddenDInv ==
    ASSUME NoDeletions, TInv, TInv', DInv, DatabaseFails \/ Crash
    PROVE  DInv'
<1>1. /\ UNCHANGED <<recipients, today, sentToday>>
      /\ pc' \in {"savingFailed", "top"}
      /\ request' = request \/ request' = [q \in Requests |-> IF request[q] = Idle THEN Idle ELSE Finished]
      /\ pc' = "savingFailed" => pc \in {"savingSent", "countingSent"} /\ current' = current
      /\ \/ faults' = faults + 1 /\ crashes' = crashes
         \/ crashes' = crashes + 1 /\ faults' = faults
  BY DEF DatabaseFails, Crash, tables, loop, ghosts
<1>2. PendingStep' /\ LimitChecked'
  BY <1>1 DEF PendingStep, LimitChecked, Early
<1>3. NothingDeleted'
  BY <1>1 DEF DInv, NothingDeleted, Idle, Finished
<1>4. {crashes, faults, crashes', faults'} \subseteq Nat
  BY CampaignAssumption DEF TInv, TypeOK
<1>5. crashes' >= crashes /\ faults' >= faults /\ crashes' + faults' = crashes + faults + 1
  BY <1>1, <1>4
<1>6. \A r \in Recipients :
         recipients'[r] = recipients[r] /\ RecipientIs(r, "SENT")' = RecipientIs(r, "SENT")
  BY <1>1 DEF RecipientIs
<1>7. ASSUME NEW d \in Devices
      PROVE  Cardinality(SentToday(d)) + UnsavedOf(d) + crashes + faults
                <= Cardinality(SentToday(d)') + UnsavedOf(d)' + crashes' + faults'
  <2> DEFINE S == SentToday(d)
             T == SentToday(d)'
  <2>1. S \in SUBSET Recipients /\ T \in SUBSET Recipients
    BY DEF SentToday
  <2>2. \/ S \subseteq T
        \/ UnsavedOf(d) = 0 /\ \E r \in Recipients : S \subseteq T \cup {r}
    <3>1. CASE pc' = "top"
      BY <1>1, <1>6, <3>1 DEF SentToday
    <3>2. CASE pc' = "savingFailed" /\ pc = "savingSent"
      <4>1. ~RecipientIs(r0, "SENT") /\ r0' = r0
        BY <1>1, <3>2 DEF DInv, PendingStep, RecipientIs, r0
      <4> QED
        BY <1>1, <1>6, <3>2, <4>1 DEF SentToday
    <3>3. CASE pc' = "savingFailed" /\ pc = "countingSent"
      <4>1. r0 \in Recipients /\ r0' = r0
        BY <1>1, <3>3, StepTypes DEF InStep, Points, r0
      <4>2. S \subseteq T \cup {r0}
        BY <1>1, <1>6, <3>3, <4>1 DEF SentToday
      <4> QED
        BY <3>3, <4>1, <4>2 DEF UnsavedOf
    <3> QED
      BY <1>1, <3>1, <3>2, <3>3
  <2>3. UnsavedOf(d) \in {0, 1} /\ UnsavedOf(d)' \in {0, 1}
    BY DEF UnsavedOf
  <2> HIDE DEF S, T
  <2>4. Cardinality(S) \in Nat /\ Cardinality(T) \in Nat
    BY <2>1, RecipientsFinite
  <2>5. \/ Cardinality(S) <= Cardinality(T)
        \/ UnsavedOf(d) = 0 /\ Cardinality(S) <= Cardinality(T) + 1
    BY <2>1, <2>2, MoreRecipients
  <2>6. Cardinality(S) + UnsavedOf(d) <= Cardinality(T) + 1 + UnsavedOf(d)'
    BY <2>3, <2>4, <2>5
  <2>7. Cardinality(S) + UnsavedOf(d) + crashes + faults
           <= Cardinality(T) + UnsavedOf(d)' + crashes' + faults'
    BY <1>4, <1>5, <2>3, <2>4, <2>6
  <2> QED
    BY <2>7 DEF S, T
<1>8. AllTold' /\ DailyLimitHolds'
  BY <1>1, <1>5, <1>7, StillTold
<1> QED
  BY <1>2, <1>3, <1>8 DEF DInv

LEMMA NextDInv ==
    ASSUME NoDeletions, IInv, TInv, TInv', DInv, [Next]_vars
    PROVE  DInv'
<1>1. CASE Loop
  BY <1>1, LoopDInv, SendDInv, SaveDInv, Zenon DEF Loop
<1>2. CASE User
  <2>1. ASSUME NEW q \in Requests, DeleteRecipients(q) PROVE FALSE
    BY <2>1 DEF DeleteRecipients, DInv, NothingDeleted
  <2> QED
    BY <1>2, <2>1, BesideDInv, SaveChunkDInv, Zenon DEF User, Beside
<1>3. CASE World
  BY <1>3, BesideDInv, HiddenDInv, Zenon DEF World, Beside
<1>4. CASE UNCHANGED vars
  BY <1>4 DEF vars, DInv, NothingDeleted, PendingStep, LimitChecked, AllTold, DailyLimitHolds,
     Told, SentToday, UnsavedOf, DailySentCount, RecipientIs, r0
<1> QED
  BY <1>1, <1>2, <1>3, <1>4 DEF Next

LEMMA InitDInv == Init => DInv
<1> SUFFICES ASSUME Init PROVE DInv
  OBVIOUS
<1>1. TInv
  BY InitTInv
<1>2. ASSUME NEW d \in Devices PROVE sentToday[d] <= Told(d) /\ sentToday[d] <= DailyLimit + crashes + faults
  <2>1. sentToday[d] = 0
    BY DEF Init
  <2> QED
    BY <1>1, <2>1, ToldType DEF Told
<1>3. AllTold /\ DailyLimitHolds
  BY <1>2 DEF AllTold, DailyLimitHolds
<1> QED
  BY <1>3 DEF Init, DInv, NothingDeleted, PendingStep, LimitChecked, Early, Idle

\* Where no campaign is deleted a device sends no more than dailyLimit messages a day, over
\* any number of campaigns, restarts and midnights: each crash and each fault hides one
\* message at most (processCampaignStep counts the rows of the day before a message).
THEOREM LimitHolds == NoDeletions => (Spec => []DailyLimitHolds)
<1> SUFFICES ASSUME NoDeletions PROVE Spec => []DailyLimitHolds
  OBVIOUS
<1>1. DInv => DailyLimitHolds
  BY DEF DInv
<1>2. Init => DInv
  BY InitDInv
<1>3. IInv /\ TInv /\ TInv' /\ DInv /\ [Next]_vars => DInv'
  BY NextDInv
<1> QED
  BY <1>1, <1>2, <1>3, InitIInv, NextIInv, InitTInv, NextTInv, PTL DEF Spec

(***************************************************************************)
(* The progress, where no campaign is deleted. Versions(c) are the copies  *)
(* of a campaign that are about: its row, the copy of the loop and those   *)
(* of the requests. Whoever saves writes one of them, or one with a count  *)
(* more, so none may be ahead of the rows without the row that the loop is *)
(* just counting; while nobody interferes all of them are equal to that.   *)
(***************************************************************************)
SentBefore(c) ==
    Cardinality(WithStatus(c, "SENT")) - (IF pc = "countingSent" /\ c0 = c THEN 1 ELSE 0)

FailedBefore(c) ==
    Cardinality(WithStatus(c, "FAILED"))
       - (IF pc \in {"countingFailed", "countingRejected"} /\ c0 = c THEN 1 ELSE 0)

Versions(c) ==
    ({campaigns[c], copies[c]}
       \cup {request[q].copy : q \in {p \in Requests : InCampaign(p) /\ request[p].campaign = c}})
    \ {NoRow}

Unborn == \A c \in Campaigns : created[c] = 0 => Versions(c) = {}

FailedStep == pc = "savingFailed" => RecipientIs(r0, "PENDING")

Behind ==
    \A c \in Campaigns : \A x \in Versions(c) :
        x.sent <= SentBefore(c) /\ x.failed <= FailedBefore(c)

Undisturbed == crashes = 0 /\ \A q \in Requests : request[q] = Idle

Exact ==
    Undisturbed => \A c \in Campaigns : \A x \in Versions(c) :
        x.sent = SentBefore(c) /\ x.failed = FailedBefore(c)

PInv == Unborn /\ (faults = 0 => FailedStep /\ Behind /\ Exact)

\* The recipients of a campaign are recipients.
LEMMA RecipientsOfType == \A c \in Campaigns : RecipientsOf(c) \in SUBSET Recipients
<1> SUFFICES ASSUME NEW c \in Campaigns, NEW r \in RecipientsOf(c) PROVE r \in Recipients
  OBVIOUS
<1>1. PICK i \in DOMAIN Chunks[c] : r \in Chunks[c][i]
  BY DEF RecipientsOf
<1>2. Chunks[c] \in Seq(SUBSET Recipients)
  BY CampaignAssumption
<1> QED
  BY <1>1, <1>2

\* The numbers that are compared.
LEMMA ProgressTypes ==
    ASSUME TInv, NEW c \in Campaigns
    PROVE  /\ SentBefore(c) \in Int /\ FailedBefore(c) \in Int
           /\ Versions(c) \in SUBSET Campaign
<1>1. \A s : WithStatus(c, s) \in SUBSET Recipients
  BY RecipientsOfType DEF WithStatus
<1>2. \A s : Cardinality(WithStatus(c, s)) \in Nat
  BY <1>1, RecipientsFinite
<1>3. SentBefore(c) \in Int /\ FailedBefore(c) \in Int
  BY <1>2 DEF SentBefore, FailedBefore
<1>4. campaigns[c] \in Campaign \cup {NoRow} /\ copies[c] \in Campaign \cup {NoRow}
  BY DEF TInv, TypeOK
<1>5. \A q \in Requests : InCampaign(q) => request[q].copy \in Campaign
  BY InCampaignType
<1> QED
  BY <1>3, <1>4, <1>5 DEF Versions

LEMMA NextProgressTypes ==
    ASSUME NEW c \in Campaigns
    PROVE  TInv' => /\ SentBefore(c)' \in Int /\ FailedBefore(c)' \in Int
                    /\ Versions(c)' \in SUBSET Campaign
<1> DEFINE P == SentBefore(c) \in Int /\ FailedBefore(c) \in Int /\ Versions(c) \in SUBSET Campaign
<1>1. TInv => P
  BY ProgressTypes
<1>2. TInv' => P'
  <2> HIDE DEF P
  <2> QED
    BY <1>1, PTL
<1> QED
  BY <1>2

\* A step after which every version comes from one before, and counts no more rows than
\* there are since.
LEMMA StillBehind ==
    ASSUME TInv, TInv', PInv, faults' >= faults,
           \A c \in Campaigns : created'[c] = 0 => created[c] = 0,
           faults' = 0 => FailedStep' /\ (Undisturbed' => Undisturbed),
           \A c \in Campaigns : \A x \in Versions(c)' : \E y \in Versions(c) :
              faults' = 0 =>
                 /\ x.sent + SentBefore(c) <= y.sent + SentBefore(c)'
                 /\ x.failed + FailedBefore(c) <= y.failed + FailedBefore(c)'
                 /\ Undisturbed' => /\ x.sent + SentBefore(c) = y.sent + SentBefore(c)'
                                    /\ x.failed + FailedBefore(c) = y.failed + FailedBefore(c)'
    PROVE  PInv'
<1>1. Unborn'
  BY DEF PInv, Unborn
<1>2. ASSUME faults' = 0 PROVE FailedStep' /\ Behind' /\ Exact'
  <2>1. faults = 0
    BY <1>2, CampaignAssumption DEF TInv, TypeOK
  <2>2. ASSUME NEW c \in Campaigns, NEW x \in Versions(c)'
        PROVE  /\ x.sent <= SentBefore(c)' /\ x.failed <= FailedBefore(c)'
               /\ Undisturbed' => x.sent = SentBefore(c)' /\ x.failed = FailedBefore(c)'
    <3>1. PICK y \in Versions(c) :
                 /\ x.sent + SentBefore(c) <= y.sent + SentBefore(c)'
                 /\ x.failed + FailedBefore(c) <= y.failed + FailedBefore(c)'
                 /\ Undisturbed' => /\ x.sent + SentBefore(c) = y.sent + SentBefore(c)'
                                    /\ x.failed + FailedBefore(c) = y.failed + FailedBefore(c)'
      BY <1>2, <2>2
    <3>2. /\ y.sent <= SentBefore(c) /\ y.failed <= FailedBefore(c)
          /\ Undisturbed' => y.sent = SentBefore(c) /\ y.failed = FailedBefore(c)
      BY <1>2, <2>1 DEF PInv, Behind, Exact
    <3>3. /\ SentBefore(c) \in Int /\ FailedBefore(c) \in Int
          /\ Versions(c) \in SUBSET Campaign
      BY ProgressTypes
    <3>4. /\ SentBefore(c)' \in Int /\ FailedBefore(c)' \in Int
          /\ Versions(c)' \in SUBSET Campaign
      BY NextProgressTypes
    <3>5. {x.sent, x.failed, y.sent, y.failed} \subseteq Nat
      BY <3>3, <3>4 DEF Campaign
    <3> QED
      BY <3>1, <3>2, <3>3, <3>4, <3>5
  <2> QED
    BY <1>2, <2>2 DEF Behind, Exact
<1> QED
  BY <1>1, <1>2 DEF PInv

\* A step at which the loop neither writes nor counts a row.
LEMMA SameCounts ==
    ASSUME recipients' = recipients,
           {pc, pc'} \cap Counting = {} \/ UNCHANGED <<pc, current>>,
           NEW c
    PROVE  SentBefore(c)' = SentBefore(c) /\ FailedBefore(c)' = FailedBefore(c)
<1>1. \A s : WithStatus(c, s)' = WithStatus(c, s)
  BY DEF WithStatus, RecipientIs
<1> QED
  BY <1>1 DEF SentBefore, FailedBefore, Counting, c0

\* A step that takes versions over, with another status at most.
LEMMA TakenOver ==
    ASSUME TInv, TInv', PInv, faults' >= faults,
           \A c \in Campaigns : created'[c] = 0 => created[c] = 0,
           \A c \in Campaigns : SentBefore(c)' = SentBefore(c) /\ FailedBefore(c)' = FailedBefore(c),
           faults' = 0 => FailedStep' /\ (Undisturbed' => Undisturbed),
           \A c \in Campaigns : \A x \in Versions(c)' : \E y \in Versions(c) :
              x.sent = y.sent /\ x.failed = y.failed
    PROVE  PInv'
<1>1. ASSUME NEW c \in Campaigns, NEW x \in Versions(c)'
      PROVE  \E y \in Versions(c) :
                 /\ x.sent + SentBefore(c) <= y.sent + SentBefore(c)'
                 /\ x.failed + FailedBefore(c) <= y.failed + FailedBefore(c)'
                 /\ x.sent + SentBefore(c) = y.sent + SentBefore(c)'
                 /\ x.failed + FailedBefore(c) = y.failed + FailedBefore(c)'
  <2>1. PICK y \in Versions(c) : x.sent = y.sent /\ x.failed = y.failed
    BY <1>1
  <2>2. /\ SentBefore(c) \in Int /\ FailedBefore(c) \in Int
        /\ Versions(c) \in SUBSET Campaign
    BY ProgressTypes
  <2>3. y.sent \in Nat /\ y.failed \in Nat
    BY <2>2 DEF Campaign
  <2> QED
    BY <2>1, <2>2, <2>3
<1> QED
  BY <1>1, StillBehind

\* The loop where it writes nothing, and what goes on beside it.
LEMMA BystandersPInv ==
    ASSUME TInv, TInv', DInv, PInv,
           \/ EndRound \/ CheckDevices \/ TryDevice \/ Send \/ Midnight
           \/ \E c \in Campaigns : Skip(c) \/ PickRecipient(c) \/ DateArrives(c) \/ CooldownEnds(c)
           \/ \E d \in Devices : Connect(d) \/ Disconnect(d)
           \/ UNCHANGED vars
    PROVE  PInv'
<1>1. /\ UNCHANGED <<campaigns, copies, request, recipients, created, crashes, faults>>
      /\ {pc, pc'} \cap Counting = {} \/ UNCHANGED <<pc, current>>
      /\ pc' = "savingFailed" => pc \in {"sending", "savingFailed"} /\ current' = current
  BY DEF EndRound, CheckDevices, TryDevice, Send, Midnight, Skip, PickRecipient, DateArrives,
     CooldownEnds, Connect, Disconnect, Return, tables, loop, world, vars, Counting
<1>2. \A c \in Campaigns : SentBefore(c)' = SentBefore(c) /\ FailedBefore(c)' = FailedBefore(c)
  BY <1>1, SameCounts
<1>3. \A c : Versions(c)' = Versions(c)
  BY <1>1 DEF Versions, InCampaign
<1>4. faults \in Nat
  BY CampaignAssumption DEF TInv, TypeOK
<1>5. faults = 0 => FailedStep'
  BY <1>1 DEF DInv, PendingStep, Early, PInv, FailedStep, RecipientIs, r0
<1>6. Undisturbed' = Undisturbed
  BY <1>1 DEF Undisturbed
<1> QED
  BY <1>1, <1>2, <1>3, <1>4, <1>5, <1>6, TakenOver

\* The loop takes copies of the rows.
LEMMA LoadPInv ==
    ASSUME TInv, TInv', PInv, LoadScheduled \/ LoadRunning
    PROVE  PInv'
<1>1. /\ UNCHANGED <<campaigns, request, recipients, created, crashes, faults>>
      /\ copies' = campaigns
      /\ {pc, pc'} \cap Counting = {} /\ pc' # "savingFailed"
  BY DEF LoadScheduled, LoadRunning, tables, loop, world, Counting
<1>2. \A c \in Campaigns : SentBefore(c)' = SentBefore(c) /\ FailedBefore(c)' = FailedBefore(c)
  BY <1>1, SameCounts
<1>3. \A c : Versions(c)' \subseteq Versions(c)
  BY <1>1 DEF Versions, InCampaign
<1>4. faults \in Nat
  BY CampaignAssumption DEF TInv, TypeOK
<1> QED
  BY <1>1, <1>2, <1>3, <1>4, TakenOver DEF FailedStep, Undisturbed

\* The loop saves a copy with a new status.
LEMMA StatusPInv ==
    ASSUME TInv, TInv', PInv,
           Complete \/ Pause \/ \E c \in Campaigns : AutoStart(c)
    PROVE  PInv'
<1>1. /\ UNCHANGED <<copies, request, recipients, created, crashes, faults>>
      /\ {pc, pc'} \cap Counting = {} /\ pc' # "savingFailed"
  BY DEF Complete, Pause, AutoStart, EndWith, Return, tables, loop, world, Counting
<1>2. PICK c \in batch : \E s \in Statuses :
         campaigns' = [campaigns EXCEPT ![c] = [copies[c] EXCEPT !.status = s]]
  <2>1. CASE \E c \in Campaigns : AutoStart(c)
    BY <2>1 DEF AutoStart, Statuses
  <2>2. CASE Complete \/ Pause
    <3>1. c0 \in batch
      BY <2>2 DEF TInv, Held, Complete, Pause, InStep, Points
    <3> QED
      BY <2>2, <3>1 DEF Complete, Pause, EndWith, Statuses
  <2> QED
    BY <2>1, <2>2
<1>3. c \in Campaigns /\ copies[c] \in Campaign /\ copies[c] \in Versions(c)
  BY <1>2 DEF TInv, TypeOK, Versions
<1>4. ASSUME NEW d \in Campaigns, NEW x \in Versions(d)'
      PROVE  \E y \in Versions(d) : x.sent = y.sent /\ x.failed = y.failed
  <2>1. CASE d = c /\ x = campaigns'[c]
    <3>1. x.sent = copies[c].sent /\ x.failed = copies[c].failed
      BY <1>2, <1>3, <2>1 DEF TInv, TypeOK, Campaign
    <3> QED
      BY <1>3, <2>1, <3>1
  <2>2. CASE d # c \/ x # campaigns'[c]
    <3>1. d # c => campaigns'[d] = campaigns[d]
      BY <1>2, <1>4 DEF TInv, TypeOK
    <3>2. x \in Versions(d)
      BY <1>1, <1>4, <2>2, <3>1 DEF Versions, InCampaign
    <3> QED
      BY <3>2
  <2> QED
    BY <2>1, <2>2
<1>5. \A d \in Campaigns : SentBefore(d)' = SentBefore(d) /\ FailedBefore(d)' = FailedBefore(d)
  BY <1>1, SameCounts
<1>6. faults \in Nat
  BY CampaignAssumption DEF TInv, TypeOK
<1> QED
  BY <1>1, <1>4, <1>5, <1>6, TakenOver DEF FailedStep, Undisturbed

\* A request takes a copy.
LEMMA ReadPInv ==
    ASSUME TInv, TInv', PInv, NEW q \in Requests, NEW op \in Operations, NEW c \in Campaigns,
           ReadCampaign(q, op, c)
    PROVE  PInv'
<1> DEFINE x0 == [at |-> op, campaign |-> c, copy |-> campaigns[c]]
<1>1. /\ UNCHANGED <<campaigns, copies, recipients, created, pc, current, crashes, faults>>
      /\ campaigns[c] # NoRow
      /\ request' = [request EXCEPT ![q] = x0]
  BY DEF ReadCampaign, tables, loop, world
<1>2. x0.campaign = c /\ x0.copy = campaigns[c] /\ x0 # Idle
  BY CampaignAssumption DEF Idle
<1> HIDE DEF x0
<1>3. request'[q] = x0 /\ \A p \in Requests \ {q} : request'[p] = request[p]
  BY <1>1 DEF TInv, TypeOK
<1>4. ASSUME NEW d \in Campaigns, NEW x \in Versions(d)'
      PROVE  x \in Versions(d)
  <2>1. CASE x \in {campaigns[d], copies[d]}
    BY <1>1, <1>4, <2>1 DEF Versions
  <2>2. CASE x \notin {campaigns[d], copies[d]}
    <3>1. PICK p \in Requests : InCampaign(p)' /\ request'[p].campaign = d /\ x = request'[p].copy
      BY <1>1, <1>4, <2>2 DEF Versions
    <3>2. p # q
      BY <1>2, <1>3, <2>2, <3>1
    <3> QED
      BY <1>3, <1>4, <3>1, <3>2 DEF Versions, InCampaign
  <2> QED
    BY <2>1, <2>2
<1>5. ~Undisturbed'
  BY <1>2, <1>3 DEF Undisturbed
<1>6. faults \in Nat
  BY CampaignAssumption DEF TInv, TypeOK
<1>7. \A d \in Campaigns : SentBefore(d)' = SentBefore(d) /\ FailedBefore(d)' = FailedBefore(d)
  BY <1>1, SameCounts
<1>8. faults = 0 => FailedStep'
  BY <1>1 DEF PInv, FailedStep, RecipientIs, r0
<1> QED
  BY <1>1, <1>4, <1>5, <1>6, <1>7, <1>8, TakenOver

\* A request saves its copy.
LEMMA SaveStatusPInv ==
    ASSUME TInv, TInv', PInv, NEW q \in Requests, SaveStatus(q)
    PROVE  PInv'
<1>1. /\ UNCHANGED <<copies, recipients, created, pc, current, crashes, faults>>
      /\ request' = [request EXCEPT ![q] = Finished]
      /\ \E s \in Statuses : campaigns' = [campaigns EXCEPT ![request[q].campaign] =
                                              [request[q].copy EXCEPT !.status = s]]
  BY DEF SaveStatus, Statuses, loop, world
<1>2. InCampaign(q) /\ request[q].campaign \in Campaigns /\ request[q].copy \in Campaign
  BY InCampaignType DEF SaveStatus, InCampaign
<1>3. request[q].copy \in Versions(request[q].campaign)
  BY <1>2, RowAssumption DEF Versions
<1>4. request'[q] = Finished /\ \A p \in Requests \ {q} : request'[p] = request[p]
  BY <1>1 DEF TInv, TypeOK
<1>5. ASSUME NEW d \in Campaigns, NEW x \in Versions(d)'
      PROVE  \E y \in Versions(d) : x.sent = y.sent /\ x.failed = y.failed
  <2>1. CASE x = campaigns'[d] /\ d = request[q].campaign
    <3>1. x.sent = request[q].copy.sent /\ x.failed = request[q].copy.failed
      BY <1>1, <1>2, <2>1 DEF TInv, TypeOK, Campaign
    <3> QED
      BY <1>3, <2>1, <3>1
  <2>2. CASE x = campaigns'[d] /\ d # request[q].campaign
    BY <1>1, <1>2, <1>5, <2>2 DEF Versions, TInv, TypeOK
  <2>3. CASE x # campaigns'[d]
    <3>1. \/ x = copies[d] /\ x # NoRow
          \/ \E p \in Requests : InCampaign(p)' /\ request'[p].campaign = d /\ x = request'[p].copy /\ x # NoRow
      BY <1>1, <1>5, <2>3 DEF Versions
    <3>2. ~InCampaign(q)'
      BY <1>4 DEF InCampaign, Finished
    <3> QED
      BY <1>4, <3>1, <3>2 DEF Versions, InCampaign
  <2> QED
    BY <2>1, <2>2, <2>3
<1>6. ~Undisturbed'
  BY <1>4 DEF Undisturbed, Finished, Idle
<1>7. faults \in Nat
  BY CampaignAssumption DEF TInv, TypeOK
<1>8. \A d \in Campaigns : SentBefore(d)' = SentBefore(d) /\ FailedBefore(d)' = FailedBefore(d)
  BY <1>1, SameCounts
<1>9. faults = 0 => FailedStep'
  BY <1>1 DEF PInv, FailedStep, RecipientIs, r0
<1> QED
  BY <1>1, <1>5, <1>6, <1>7, <1>8, <1>9, TakenOver

\* The server goes down: the rows are left, and what was about to be counted is not any more.
LEMMA CrashPInv ==
    ASSUME TInv, TInv', PInv, Crash
    PROVE  PInv'
<1>1. /\ UNCHANGED <<campaigns, recipients, faults>>
      /\ pc' = "top" /\ crashes' = crashes + 1
      /\ copies' = [c \in Campaigns |-> NoRow]
      /\ request' = [q \in Requests |-> IF request[q] = Idle THEN Idle ELSE Finished]
  BY DEF Crash, tables
<1>2. \A c \in Campaigns : created'[c] = 0 => created[c] = 0
  BY CampaignAssumption DEF Crash
<1>3. \A c \in Campaigns : Versions(c)' \subseteq Versions(c)
  BY <1>1 DEF Versions, InCampaign, Idle, Finished
<1>4. ASSUME NEW c \in Campaigns
      PROVE  SentBefore(c) <= SentBefore(c)' /\ FailedBefore(c) <= FailedBefore(c)'
  <2>1. \A s : WithStatus(c, s)' = WithStatus(c, s) /\ WithStatus(c, s) \in SUBSET Recipients
    BY <1>1, RecipientsOfType DEF WithStatus, RecipientIs
  <2>2. \A s : Cardinality(WithStatus(c, s)) \in Nat
    BY <2>1, RecipientsFinite
  <2>3. /\ SentBefore(c)' = Cardinality(WithStatus(c, "SENT"))
        /\ FailedBefore(c)' = Cardinality(WithStatus(c, "FAILED"))
    BY <1>1, <2>1, <2>2 DEF SentBefore, FailedBefore
  <2> QED
    BY <2>2, <2>3 DEF SentBefore, FailedBefore
<1>5. ~Undisturbed' /\ faults' >= faults /\ FailedStep'
  BY <1>1, CampaignAssumption DEF TInv, TypeOK, Undisturbed, FailedStep
<1>6. ASSUME NEW c \in Campaigns, NEW x \in Versions(c)'
      PROVE  \E y \in Versions(c) : /\ x.sent + SentBefore(c) <= y.sent + SentBefore(c)'
                                    /\ x.failed + FailedBefore(c) <= y.failed + FailedBefore(c)'
  <2>1. x \in Versions(c)
    BY <1>3, <1>6
  <2>2. x.sent \in Nat /\ x.failed \in Nat
    BY <2>1, ProgressTypes DEF Campaign
  <2>3. /\ SentBefore(c) \in Int /\ FailedBefore(c) \in Int
        /\ SentBefore(c)' \in Int /\ FailedBefore(c)' \in Int
    BY ProgressTypes, NextProgressTypes
  <2> QED
    BY <1>4, <2>1, <2>2, <2>3
<1> QED
  BY <1>2, <1>5, <1>6, StillBehind

\* After a fault the progress is not looked at any more.
LEMMA FaultPInv ==
    ASSUME TInv, TInv', PInv, DatabaseFails \/ \E c \in Campaigns : CreationFails(c)
    PROVE  PInv'
<1>1. faults' > 0
  BY CampaignAssumption DEF TInv, TypeOK, DatabaseFails, CreationFails
<1>2. \A c \in Campaigns : created'[c] = 0 => created[c] = 0
  <2>1. \A c \in Campaigns : Len(Chunks[c]) + 1 > 0
    BY CampaignAssumption
  <2>2. \/ created' = created
        \/ \E c \in Campaigns : created' = [created EXCEPT ![c] = Len(Chunks[c]) + 1]
    BY DEF DatabaseFails, CreationFails
  <2> QED
    BY <2>1, <2>2 DEF TInv, TypeOK
<1>3. /\ UNCHANGED <<campaigns, request>>
      /\ copies' = copies \/ (c0 \in batch /\ copies' = OneMoreSent)
  <2>1. pc = "countingSent" => c0 \in batch
    BY DEF TInv, Held, InStep, Points
  <2> QED
    BY <2>1 DEF DatabaseFails, CreationFails, tables, loop
<1>4. ASSUME NEW c \in Campaigns, copies'[c] # NoRow
      PROVE  copies[c] # NoRow
  BY <1>3, <1>4 DEF OneMoreSent, TInv, TypeOK
<1>5. \A c \in Campaigns : Versions(c)' # {} => Versions(c) # {}
  BY <1>3, <1>4 DEF Versions, InCampaign
<1> QED
  BY <1>1, <1>2, <1>5 DEF PInv, Unborn

\* A campaign begins with nothing counted and no row.
LEMMA CreatePInv ==
    ASSUME IInv, TInv, TInv', PInv, NEW c \in Campaigns, CreateCampaign(c)
    PROVE  PInv'
<1> DEFINE x0 == [status |-> IF c \in Scheduled THEN "SCHEDULED" ELSE "PENDING",
                  sent |-> 0, failed |-> 0]
<1>1. /\ created[c] = 0 /\ created' = [created EXCEPT ![c] = 1]
      /\ campaigns' = [campaigns EXCEPT ![c] = x0]
      /\ UNCHANGED <<copies, request, recipients, pc, current, batch, crashes, faults>>
  BY DEF CreateCampaign, loop, world
<1>2. x0.sent = 0 /\ x0.failed = 0
  OBVIOUS
<1> HIDE DEF x0
<1>3. /\ \A d \in Campaigns \ {c} : Versions(d)' = Versions(d) /\ created'[d] = created[d]
      /\ Versions(c) = {} /\ Versions(c)' \subseteq {x0} /\ created'[c] = 1
  <2>1. /\ created'[c] = 1 /\ campaigns'[c] = x0
        /\ \A d \in Campaigns \ {c} : created'[d] = created[d] /\ campaigns'[d] = campaigns[d]
    BY <1>1 DEF TInv, TypeOK
  <2>2. Versions(c) = {}
    BY <1>1 DEF PInv, Unborn
  <2>3. Versions(c)' \subseteq {x0}
    BY <1>1, <2>1, <2>2 DEF Versions, InCampaign
  <2>4. \A d \in Campaigns \ {c} : Versions(d)' = Versions(d)
    BY <1>1, <2>1 DEF Versions, InCampaign
  <2> QED
    BY <2>1, <2>2, <2>3, <2>4
<1>4. \A d \in Campaigns : SentBefore(d)' = SentBefore(d) /\ FailedBefore(d)' = FailedBefore(d)
  BY <1>1, SameCounts
<1>5. SentBefore(c) = 0 /\ FailedBefore(c) = 0
  <2>1. ASSUME NEW r \in RecipientsOf(c) PROVE recipients[r] = NoRow
    <3>1. PICK i \in DOMAIN Chunks[c] : r \in Chunks[c][i]
      BY DEF RecipientsOf
    <3>2. r \in Recipients /\ created[c] <= i
      BY <1>1, <3>1, RecipientsOfType, CampaignAssumption
    <3> QED
      BY <3>1, <3>2 DEF IInv, Account, Untouched, Unsaved
  <2>2. WithStatus(c, "SENT") = {} /\ WithStatus(c, "FAILED") = {}
    BY <2>1 DEF WithStatus, RecipientIs
  <2>3. pc \in Counting => c0 # c
    <3>1. pc \in Counting => c0 \in batch
      BY DEF TInv, Held, InStep, Points, Counting
    <3>2. c \notin batch
      BY <1>3 DEF TInv, TypeOK, Versions
    <3> QED
      BY <3>1, <3>2
  <2>4. Cardinality({}) = 0
    BY FS_EmptySet
  <2> QED
    BY <2>2, <2>3, <2>4 DEF SentBefore, FailedBefore, Counting
<1>6. Unborn'
  BY <1>3 DEF PInv, Unborn
<1>7. Undisturbed' = Undisturbed /\ (FailedStep => FailedStep')
  BY <1>1 DEF Undisturbed, FailedStep, RecipientIs, r0
<1>8. ASSUME faults' = 0 PROVE FailedStep' /\ Behind' /\ Exact'
  <2>1. FailedStep /\ Behind /\ Exact
    BY <1>1, <1>8 DEF PInv
  <2>2. ASSUME NEW d \in Campaigns, NEW x \in Versions(d)'
        PROVE  /\ x.sent <= SentBefore(d)' /\ x.failed <= FailedBefore(d)'
               /\ Undisturbed' => x.sent = SentBefore(d)' /\ x.failed = FailedBefore(d)'
    <3>1. CASE d = c
      BY <1>2, <1>3, <1>4, <1>5, <2>2, <3>1
    <3>2. CASE d # c
      BY <1>3, <1>4, <1>7, <2>1, <2>2, <3>2 DEF Behind, Exact
    <3> QED
      BY <3>1, <3>2
  <2> QED
    BY <1>7, <2>1, <2>2 DEF Behind, Exact
<1> QED
  BY <1>6, <1>8 DEF PInv

\* A chunk that is saved has no rows before, so none of them is counted.
LEMMA SaveChunkPInv ==
    ASSUME IInv, TInv, TInv', PInv, NEW c \in Campaigns, SaveChunk(c)
    PROVE  PInv'
<1>1. UNCHANGED <<campaigns, copies, request, pc, current, crashes, faults>>
  BY DEF SaveChunk, loop, world
<1>2. created[c] \in DOMAIN Chunks[c] /\ created[c] <= created[c]
  BY CampaignAssumption DEF SaveChunk
<1>3. ASSUME NEW r \in Recipients
      PROVE  \/ recipients'[r] = recipients[r]
             \/ recipients[r] = NoRow /\ recipients'[r] = [status |-> "PENDING"]
  BY <1>2 DEF SaveChunk, IInv, Account, Untouched, Unsaved
<1>4. ASSUME NEW d \in Campaigns
      PROVE  SentBefore(d)' = SentBefore(d) /\ FailedBefore(d)' = FailedBefore(d)
  <2>1. ASSUME NEW s \in {"SENT", "FAILED"} PROVE WithStatus(d, s)' = WithStatus(d, s)
    BY <1>3, RecipientsOfType DEF WithStatus, RecipientIs
  <2> QED
    BY <1>1, <2>1 DEF SentBefore, FailedBefore, c0
<1>5. \A d \in Campaigns : created'[d] = 0 => created[d] = 0
  <2>1. created' = [created EXCEPT ![c] = created[c] + 1] /\ created[c] \in Nat
    BY DEF SaveChunk, TInv, TypeOK
  <2> QED
    BY <2>1 DEF TInv, TypeOK
<1>6. \A d : Versions(d)' = Versions(d)
  BY <1>1 DEF Versions, InCampaign
<1>7. FailedStep => FailedStep'
  <2>1. ASSUME pc = "savingFailed" PROVE recipients'[r0] = recipients[r0] /\ r0' = r0
    <3>1. pc \in InStep
      BY <2>1 DEF InStep, Points
    <3>2. r0 \in Recipients /\ InHand(r0)
      BY <3>1, StepTypes DEF InHand
    <3> QED
      BY <1>1, <3>2, RowOfStep DEF r0
  <2> QED
    BY <1>1, <2>1 DEF FailedStep, RecipientIs
<1>8. faults \in Nat
  BY CampaignAssumption DEF TInv, TypeOK
<1> QED
  BY <1>1, <1>4, <1>5, <1>6, <1>7, <1>8, TakenOver DEF PInv, Undisturbed

\* The row of a recipient is written with a status that it did not have.
LEMMA OneRowMore ==
    ASSUME NEW c \in Campaigns, NEW r \in RecipientsOf(c), NEW s \in {"SENT", "FAILED"},
           \A p \in Recipients \ {r} : recipients'[p] = recipients[p],
           RecipientIs(r, "PENDING"), recipients'[r] # NoRow, recipients'[r].status = s
    PROVE  /\ Cardinality(WithStatus(c, s)') = Cardinality(WithStatus(c, s)) + 1
           /\ \A d \in Campaigns : \A t \in {"SENT", "FAILED"} :
                 /\ Cardinality(WithStatus(d, t)) \in Nat
                 /\ d # c \/ t # s => WithStatus(d, t)' = WithStatus(d, t)
<1>1. r \in Recipients /\ \A d \in Campaigns : RecipientsOf(d) \in SUBSET Recipients
  BY RecipientsOfType
<1>2. \A p \in Recipients \ {r} : \A t : RecipientIs(p, t)' = RecipientIs(p, t)
  BY DEF RecipientIs
<1>3. /\ ~RecipientIs(r, "SENT") /\ ~RecipientIs(r, "FAILED")
      /\ \A t : RecipientIs(r, t)' <=> t = s
  BY DEF RecipientIs
<1>4. \A d \in Campaigns \ {c} : r \notin RecipientsOf(d)
  BY CampaignAssumption
<1>5. ASSUME NEW d \in Campaigns, NEW t \in {"SENT", "FAILED"}
      PROVE  /\ Cardinality(WithStatus(d, t)) \in Nat
             /\ d # c \/ t # s => WithStatus(d, t)' = WithStatus(d, t)
  <2>1. WithStatus(d, t) \in SUBSET Recipients
    BY <1>1 DEF WithStatus
  <2> QED
    BY <1>1, <1>2, <1>3, <1>4, <2>1, RecipientsFinite DEF WithStatus
<1> DEFINE S == WithStatus(c, s)
           T == WithStatus(c, s)'
<1>6. S \in SUBSET Recipients /\ T \in SUBSET Recipients /\ T = S \cup {r} /\ r \in Recipients \ S
  BY <1>1, <1>2, <1>3 DEF WithStatus
<1> HIDE DEF S, T
<1>7. Cardinality(T) = Cardinality(S) + 1
  BY <1>6, MoreRecipients
<1> QED
  BY <1>5, <1>7 DEF S, T

\* A row is written that is PENDING, and is to be counted next.
LEMMA SavePInv ==
    ASSUME TInv, TInv', DInv, PInv, SaveSent \/ SaveFailed
    PROVE  PInv'
<1>1. /\ UNCHANGED <<campaigns, copies, created, request, current, crashes, faults>>
      /\ pc \in {"savingSent", "savingFailed", "rejecting"} /\ pc' # "savingFailed"
  BY DEF SaveSent, SaveFailed, loop, world
<1>2. /\ c0 \in Campaigns /\ r0 \in RecipientsOf(c0) /\ r0 \in Recipients /\ c0' = c0
      /\ recipients \in [Recipients -> Recipient \cup {NoRow}]
  <2>1. pc \in InStep
    BY <1>1 DEF InStep, Points
  <2> QED
    BY <1>1, <2>1, StepTypes DEF TInv, TypeOK, c0
<1>3. \A r \in Recipients \ {r0} : recipients'[r] = recipients[r]
  BY <1>2 DEF SaveSent, SaveFailed
<1>4. recipients'[r0] # NoRow
  <2>1. recipients'[r0] \in Recipient
    <3>1. CASE SaveSent
      <4>1. selected \in Devices /\ today \in Nat
        BY <3>1, CampaignAssumption DEF TInv, TypeOK, Held, SaveSent
      <4>2. recipients'[r0] = [status |-> "SENT", device |-> selected, day |-> today]
        BY <1>2, <3>1 DEF SaveSent
      <4> QED
        BY <4>1, <4>2 DEF Recipient
    <3>2. CASE SaveFailed
      <4>1. recipients'[r0] = [status |-> "FAILED"]
        BY <1>2, <3>2 DEF SaveFailed
      <4> QED
        BY <4>1 DEF Recipient
    <3> QED
      BY <3>1, <3>2
  <2> QED
    BY <2>1, RowAssumption
<1>5. ASSUME faults = 0, NEW d \in Campaigns
      PROVE  SentBefore(d)' = SentBefore(d) /\ FailedBefore(d)' = FailedBefore(d)
  <2>1. RecipientIs(r0, "PENDING")
    BY <1>1, <1>5 DEF DInv, PendingStep, Early, PInv, FailedStep
  <2>2. CASE SaveSent
    <3>1. recipients'[r0].status = "SENT"
      BY <1>2, <2>2 DEF SaveSent
    <3>2. /\ Cardinality(WithStatus(c0, "SENT")') = Cardinality(WithStatus(c0, "SENT")) + 1
          /\ Cardinality(WithStatus(c0, "SENT")) \in Nat
          /\ d # c0 => WithStatus(d, "SENT")' = WithStatus(d, "SENT")
          /\ WithStatus(d, "FAILED")' = WithStatus(d, "FAILED")
      <4> HIDE DEF c0, r0
      <4> QED
        BY <1>2, <1>3, <1>4, <2>1, <3>1, OneRowMore
    <3>3. pc = "savingSent" /\ pc' = "countingSent"
      BY <2>2 DEF SaveSent
    <3> QED
      BY <1>2, <3>2, <3>3 DEF SentBefore, FailedBefore
  <2>3. CASE SaveFailed
    <3>1. recipients'[r0].status = "FAILED"
      BY <1>2, <2>3 DEF SaveFailed
    <3>2. /\ Cardinality(WithStatus(c0, "FAILED")') = Cardinality(WithStatus(c0, "FAILED")) + 1
          /\ Cardinality(WithStatus(c0, "FAILED")) \in Nat
          /\ d # c0 => WithStatus(d, "FAILED")' = WithStatus(d, "FAILED")
          /\ WithStatus(d, "SENT")' = WithStatus(d, "SENT")
      <4> HIDE DEF c0, r0
      <4> QED
        BY <1>2, <1>3, <1>4, <2>1, <3>1, OneRowMore
    <3>3. /\ pc \in {"savingFailed", "rejecting"}
          /\ pc' \in {"countingFailed", "countingRejected"}
      BY <2>3 DEF SaveFailed
    <3> QED
      BY <1>2, <3>2, <3>3 DEF SentBefore, FailedBefore
  <2> QED
    BY <2>2, <2>3
<1>6. \A d : Versions(d)' = Versions(d)
  BY <1>1 DEF Versions, InCampaign
<1>7. faults \in Nat
  BY CampaignAssumption DEF TInv, TypeOK
<1>8. FailedStep' /\ Undisturbed' = Undisturbed
  BY <1>1 DEF FailedStep, Undisturbed
<1>9. ASSUME NEW d \in Campaigns, NEW x \in Versions(d)
      PROVE  faults = 0 => /\ x.sent + SentBefore(d) = x.sent + SentBefore(d)'
                           /\ x.failed + FailedBefore(d) = x.failed + FailedBefore(d)'
                           /\ x.sent + SentBefore(d) <= x.sent + SentBefore(d)'
                           /\ x.failed + FailedBefore(d) <= x.failed + FailedBefore(d)'
  <2>1. x \in Campaign /\ SentBefore(d) \in Int /\ FailedBefore(d) \in Int
    BY <1>9, ProgressTypes
  <2> QED
    BY <1>5, <2>1 DEF Campaign
<1> QED
  BY <1>1, <1>6, <1>7, <1>8, <1>9, StillBehind

\* The copy of the loop is saved with one count more, for the row that was written last.
LEMMA CountPInv ==
    ASSUME TInv, TInv', PInv, CountSent \/ CountFailed
    PROVE  PInv'
<1>1. /\ UNCHANGED <<recipients, created, request, crashes, faults>>
      /\ pc \in Counting /\ pc' = "running"
      /\ campaigns' = [campaigns EXCEPT ![c0] = copies'[c0]]
  BY DEF CountSent, CountFailed, Return, world, Counting
<1>2. c0 \in batch /\ c0 \in Campaigns /\ copies[c0] \in Campaign /\ copies[c0] \in Versions(c0)
  <2>1. c0 \in batch
    BY <1>1 DEF TInv, Held, InStep, Points, Counting
  <2> QED
    BY <2>1 DEF TInv, TypeOK, Versions
<1> DEFINE sent == IF pc = "countingSent" THEN 1 ELSE 0
           failed == IF pc = "countingSent" THEN 0 ELSE 1
<1>3. /\ copies' = [copies EXCEPT ![c0] = copies'[c0]]
      /\ copies'[c0].sent = copies[c0].sent + sent
      /\ copies'[c0].failed = copies[c0].failed + failed
  <2>1. CASE CountSent
    BY <1>2, <2>1 DEF CountSent, OneMoreSent, TInv, TypeOK, Campaign
  <2>2. CASE CountFailed
    <3>1. /\ pc # "countingSent"
          /\ copies' = [copies EXCEPT ![c0] = [copies[c0] EXCEPT !.failed = copies[c0].failed + 1]]
      BY <2>2 DEF CountFailed, OneMoreFailed
    <3>2. copies'[c0] = [copies[c0] EXCEPT !.failed = copies[c0].failed + 1]
      BY <1>2, <3>1 DEF TInv, TypeOK
    <3>3. copies' = [copies EXCEPT ![c0] = copies'[c0]]
      BY <3>1, <3>2
    <3>4. copies'[c0].sent = copies[c0].sent /\ copies'[c0].failed = copies[c0].failed + 1
      BY <1>2, <3>2 DEF Campaign
    <3>5. copies[c0].sent \in Nat
      BY <1>2 DEF Campaign
    <3> QED
      BY <3>1, <3>3, <3>4, <3>5
  <2> QED
    BY <2>1, <2>2
<1>4. \A c \in Campaigns : /\ SentBefore(c)' = SentBefore(c) + (IF c = c0 THEN sent ELSE 0)
                           /\ FailedBefore(c)' = FailedBefore(c) + (IF c = c0 THEN failed ELSE 0)
  <2> SUFFICES ASSUME NEW c \in Campaigns
               PROVE  /\ SentBefore(c)' = SentBefore(c) + (IF c = c0 THEN sent ELSE 0)
                      /\ FailedBefore(c)' = FailedBefore(c) + (IF c = c0 THEN failed ELSE 0)
    OBVIOUS
  <2>1. \A s : WithStatus(c, s)' = WithStatus(c, s) /\ WithStatus(c, s) \in SUBSET Recipients
    BY <1>1, RecipientsOfType DEF WithStatus, RecipientIs
  <2>2. \A s : Cardinality(WithStatus(c, s)) \in Nat
    BY <2>1, RecipientsFinite
  <2>3. /\ SentBefore(c)' = Cardinality(WithStatus(c, "SENT"))
        /\ FailedBefore(c)' = Cardinality(WithStatus(c, "FAILED"))
    BY <1>1, <2>1, <2>2 DEF SentBefore, FailedBefore
  <2> QED
    BY <1>1, <2>2, <2>3 DEF SentBefore, FailedBefore, Counting
<1>5. ASSUME NEW c \in Campaigns, NEW x \in Versions(c)'
      PROVE  \/ c = c0 /\ x = copies'[c0]
             \/ /\ x \in Versions(c)
                /\ c # c0 \/ \E q \in Requests : InCampaign(q)
  <2>1. \/ x \in {campaigns'[c], copies'[c]}
        \/ \E q \in Requests : InCampaign(q) /\ request[q].campaign = c /\ x = request[q].copy
    BY <1>1, <1>5 DEF Versions, InCampaign
  <2>2. x # NoRow
    BY <1>5 DEF Versions
  <2>3. c # c0 => campaigns'[c] = campaigns[c] /\ copies'[c] = copies[c]
    BY <1>1, <1>3 DEF TInv, TypeOK
  <2>4. c = c0 => campaigns'[c] = copies'[c]
    BY <1>1, <1>2 DEF TInv, TypeOK
  <2> QED
    BY <2>1, <2>2, <2>3, <2>4 DEF Versions
<1>6. ASSUME NEW c \in Campaigns, NEW x \in Versions(c)'
      PROVE  \E y \in Versions(c) :
                 /\ x.sent + SentBefore(c) <= y.sent + SentBefore(c)'
                 /\ x.failed + FailedBefore(c) <= y.failed + FailedBefore(c)'
                 /\ Undisturbed' => /\ x.sent + SentBefore(c) = y.sent + SentBefore(c)'
                                    /\ x.failed + FailedBefore(c) = y.failed + FailedBefore(c)'
  <2>1. /\ SentBefore(c) \in Int /\ FailedBefore(c) \in Int
        /\ Versions(c) \in SUBSET Campaign
    BY ProgressTypes
  <2>2. sent \in Nat /\ failed \in Nat
    OBVIOUS
  <2>3. Undisturbed' => ~\E q \in Requests : InCampaign(q)
    BY <1>1 DEF Undisturbed, InCampaign, Idle
  <2> HIDE DEF sent, failed
  <2>4. CASE c = c0 /\ x = copies'[c0]
    <3>1. copies[c0].sent \in Nat /\ copies[c0].failed \in Nat
      BY <1>2 DEF Campaign
    <3>2. /\ x.sent + SentBefore(c) = copies[c0].sent + SentBefore(c)'
          /\ x.failed + FailedBefore(c) = copies[c0].failed + FailedBefore(c)'
          /\ x.sent + SentBefore(c) \in Int /\ x.failed + FailedBefore(c) \in Int
      BY <1>3, <1>4, <2>1, <2>2, <2>4, <3>1
    <3> QED
      BY <1>2, <2>4, <3>2
  <2>5. CASE x \in Versions(c) /\ (c # c0 \/ \E q \in Requests : InCampaign(q))
    <3>1. x.sent \in Nat /\ x.failed \in Nat
      BY <2>1, <2>5 DEF Campaign
    <3>2. /\ x.sent + SentBefore(c) <= x.sent + SentBefore(c)'
          /\ x.failed + FailedBefore(c) <= x.failed + FailedBefore(c)'
          /\ c # c0 => /\ x.sent + SentBefore(c) = x.sent + SentBefore(c)'
                       /\ x.failed + FailedBefore(c) = x.failed + FailedBefore(c)'
      BY <1>4, <2>1, <2>2, <3>1
    <3> QED
      BY <2>3, <2>5, <3>2
  <2> QED
    BY <1>5, <1>6, <2>4, <2>5
<1>7. faults \in Nat
  BY CampaignAssumption DEF TInv, TypeOK
<1>8. FailedStep' /\ Undisturbed' = Undisturbed
  BY <1>1 DEF FailedStep, Undisturbed
<1> QED
  BY <1>1, <1>6, <1>7, <1>8, StillBehind

LEMMA NextPInv ==
    ASSUME IInv, TInv, TInv', DInv, PInv, [Next]_vars
    PROVE  PInv'
<1>1. CASE Loop
  BY <1>1, BystandersPInv, LoadPInv, StatusPInv, SavePInv, CountPInv, Zenon DEF Loop
<1>2. CASE User
  <2>1. ASSUME NEW q \in Requests, DeleteRecipients(q) \/ DeleteCampaign(q) PROVE FALSE
    BY <2>1 DEF DeleteRecipients, DeleteCampaign, DInv, NothingDeleted
  <2> QED
    BY <1>2, <2>1, CreatePInv, SaveChunkPInv, ReadPInv, SaveStatusPInv, Zenon DEF User
<1>3. CASE World
  BY <1>3, BystandersPInv, FaultPInv, CrashPInv, Zenon DEF World
<1>4. CASE UNCHANGED vars
  BY <1>4, BystandersPInv
<1> QED
  BY <1>1, <1>2, <1>3, <1>4 DEF Next

LEMMA InitPInv == Init => PInv
<1> SUFFICES ASSUME Init PROVE PInv
  OBVIOUS
<1>1. ASSUME NEW c \in Campaigns PROVE Versions(c) = {}
  BY DEF Init, Versions, InCampaign, Idle
<1> QED
  BY <1>1 DEF Init, PInv, Unborn, FailedStep, Behind, Exact

\* Where no campaign is deleted the progress that is shown is never ahead of the rows of the
\* recipients, whatever requests and crashes do; and while no request and no crash interferes
\* it is exact (the counters processCampaignStep saves with its copy of the campaign).
THEOREM ProgressTells == NoDeletions => (Spec => []ProgressIsTrue)
<1> SUFFICES ASSUME NoDeletions PROVE Spec => []ProgressIsTrue
  OBVIOUS
<1>1. ASSUME TInv, PInv PROVE ProgressIsTrue
  <2> SUFFICES ASSUME NEW c \in Campaigns, campaigns[c] # NoRow, faults = 0
               PROVE  /\ campaigns[c].sent <= Cardinality(WithStatus(c, "SENT"))
                      /\ campaigns[c].failed <= Cardinality(WithStatus(c, "FAILED"))
                      /\ \/ crashes > 0
                         \/ \E q \in Requests : request[q] # Idle
                         \/ pc \in Counting /\ c0 = c
                         \/ /\ campaigns[c].sent = Cardinality(WithStatus(c, "SENT"))
                            /\ campaigns[c].failed = Cardinality(WithStatus(c, "FAILED"))
    BY DEF ProgressIsTrue, Counting
  <2>1. campaigns[c] \in Versions(c) /\ Behind /\ Exact
    BY <1>1 DEF Versions, PInv
  <2>2. campaigns[c].sent \in Nat /\ campaigns[c].failed \in Nat
    BY <1>1, <2>1, ProgressTypes DEF Campaign
  <2>3. /\ Cardinality(WithStatus(c, "SENT")) \in Nat
        /\ Cardinality(WithStatus(c, "FAILED")) \in Nat
    BY RecipientsOfType, RecipientsFinite DEF WithStatus
  <2>4. /\ campaigns[c].sent <= SentBefore(c) /\ campaigns[c].failed <= FailedBefore(c)
        /\ Undisturbed => campaigns[c].sent = SentBefore(c) /\ campaigns[c].failed = FailedBefore(c)
    BY <2>1 DEF Behind, Exact
  <2>5. crashes = 0 \/ crashes > 0
    BY <1>1, CampaignAssumption DEF TInv, TypeOK
  <2>6. ~(pc \in Counting /\ c0 = c) =>
           /\ SentBefore(c) = Cardinality(WithStatus(c, "SENT"))
           /\ FailedBefore(c) = Cardinality(WithStatus(c, "FAILED"))
    BY <2>3 DEF SentBefore, FailedBefore, Counting
  <2>7. /\ campaigns[c].sent <= Cardinality(WithStatus(c, "SENT"))
        /\ campaigns[c].failed <= Cardinality(WithStatus(c, "FAILED"))
    BY <2>2, <2>3, <2>4 DEF SentBefore, FailedBefore
  <2> QED
    BY <2>4, <2>5, <2>6, <2>7 DEF Undisturbed
<1>2. IInv /\ TInv /\ TInv' /\ DInv /\ PInv /\ [Next]_vars => PInv'
  BY NextPInv
<1>3. IInv /\ TInv /\ TInv' /\ DInv /\ [Next]_vars => DInv'
  BY NextDInv
<1> QED
  BY <1>1, <1>2, <1>3, InitIInv, NextIInv, InitTInv, NextTInv, InitDInv, InitPInv, PTL DEF Spec
==============================================================================
