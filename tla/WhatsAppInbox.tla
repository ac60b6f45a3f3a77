---------------------------- MODULE WhatsAppInbox ----------------------------
(***************************************************************************)
(* What one connected WhatsApp device does with its private chats: the     *)
(* store of the chats (SimpleStore), the handler that lets the chatbot     *)
(* answer incoming messages, the check that follows up on silent chats     *)
(* once a minute, and the requests of the inbox.                           *)
(*                                                                         *)
(* A contact has two ids, a hidden one (lid) and a phone number (pn), and  *)
(* writes under either; the store holds a chat for each and learns at some *)
(* point that they belong together. An operator with a parameter s is a    *)
(* method of the store, from a store to a store.                           *)
(*                                                                         *)
(* An action is the code from one await to the next. Nothing between the   *)
(* acceptance of a message and its answer looks at the store, so the       *)
(* random delay, the flow and the typing are one await here; a message     *)
(* that is sent, its echo in the store and the code behind the await of    *)
(* sendMessage are one step. Messages have distinct times: the time of a   *)
(* message is its place in the log, and a mark set now is later than every *)
(* message there is. The chatbot is active, its follow-ups are on.         *)
(***************************************************************************)
EXTENDS Naturals, Sequences, FiniteSets

CONSTANTS Contacts,
          Handlers,      \* how many messages are in the works at a time
          Checks,        \* how many follow-up checks run at a time
          NoJid,         \* the id of a message that was deleted
          MaxWrites,     \* bound: the messages of the customers
          MaxIncidents,  \* bound: how often a human steps in, a chat is deleted, a judgement
                         \* fails or outlasts the minute, the device reconnects or the hours pass
          MayRace        \* may a chat be deleted while the database looks for its chatbot?

Jid == Contacts \X {"lid", "pn"}

ASSUME InboxAssumption ==
    /\ NoJid \notin Jid
    /\ {MaxWrites, MaxIncidents} \subseteq Nat
    /\ MayRace \in BOOLEAN

VARIABLES
    store,     \* the store of the device: its chats in order, their messages, the mapping
    handler,   \* the messages in the works
    check,     \* the follow-up checks that run
    phase,     \* the time of day, see Open and Today
    horizon,   \* the messages up to here are older than followUpDelayMinutes
    held,      \* history: the ids a human took over
    awaySent,  \* history: the chats that got an away message today
    followUpAt,\* history: when a chat was last followed up, 0: never
    judgedAt,  \* history: when a chat was last decided on, 0: never
    split,     \* history: the contacts that had chats before their ids were known to be one, of
               \* which one chat was deleted on the phone, or whose pause was lifted while a
               \* check was past one of their chats
    writes, incidents

work    == <<handler, check>>
history == <<held, awaySent, followUpAt, judgedAt, split>>
spent   == <<writes, incidents>>
vars == <<store, handler, check, phase, horizon, held, awaySent, followUpAt, judgedAt,
          split, writes, incidents>>

Chat    == [paused : BOOLEAN, trigger : Nat, sentFor : Nat, followedAt : Nat, awayOn : Nat]
Message == [jid : Jid \cup {NoJid}, mine : BOOLEAN]
\* The Map of the chats keeps their order: place is when a chat came in, 0 if it is not there.
Store   == [chats : [Jid -> Chat], place : [Jid -> Nat], count : Nat,
            log : Seq(Message), mapped : SUBSET Contacts]

Fresh == [paused |-> FALSE, trigger |-> 0, sentFor |-> 0, followedAt |-> 0, awayOn |-> 0]

\* rec: the record of the chat that is kept over an await: it is still in the store, it was
\* deleted meanwhile, or there was none.
Handling == [stage : {"off", "resolving", "choosing", "replying", "away"},
             jid : Jid \cup {NoJid}, rec : {"kept", "lost", "none"}]
Judging  == [stage : {"off", "judging"}, jid : Jid \cup {NoJid}, rec : {"kept", "lost"},
             last : Nat, visited : SUBSET Jid, processed : SUBSET Jid]

Done  == [stage |-> "off", jid |-> NoJid, rec |-> "none"]
Ended == [stage |-> "off", jid |-> NoJid, rec |-> "lost", last |-> 0,
          visited |-> {}, processed |-> {}]

\* The working day, its evening and the next day before the business opens.
Open  == phase = 1
Today == IF phase = 3 THEN 2 ELSE 1

-----------------------------------------------------------------------------
(* The store *)

Other(j)    == IF j[2] = "lid" THEN <<j[1], "pn">> ELSE <<j[1], "lid">>
Known(s, j) == IF j[1] \in s.mapped THEN {j, Other(j)} ELSE {j}
Has(s, j)   == s.place[j] # 0

Upsert(s, j) ==
    IF Has(s, j) THEN s
    ELSE [s EXCEPT !.place[j] = s.count + 1, !.count = s.count + 1, !.chats[j] = Fresh]

SetPaused(s, js, b) ==
    [s EXCEPT !.chats = [j \in Jid |-> IF j \in js THEN [@[j] EXCEPT !.paused = b] ELSE @[j]]]

\* Mutant: only the mapping is recorded.
LearnBare(s, c) == [s EXCEPT !.mapped = @ \cup {c}]

\* recordMapping: the ids of a contact belong together. A pause goes for both.
Learn(s, c) ==
    LET lid == <<c, "lid">>
        pn  == <<c, "pn">>
        t   == [s EXCEPT !.mapped = @ \cup {c}]
    IN  IF \E j \in {lid, pn} : Has(s, j) /\ s.chats[j].paused
        THEN SetPaused(Upsert(Upsert(t, lid), pn), {lid, pn}, TRUE)
        ELSE t

\* pauseChat
Pause(s, j, b) ==
    LET t == Upsert(s, j)
    IN  SetPaused(IF j[1] \in s.mapped THEN Upsert(t, Other(j)) ELSE t, Known(s, j), b)

\* addMessage
Add(s, j, mine) ==
    Upsert([s EXCEPT !.log = Append(@, [jid |-> j, mine |-> mine])], j)

\* The chats of js and their messages go.
Remove(s, js) ==
    [s EXCEPT !.place = [j \in Jid |-> IF j \in js THEN 0 ELSE @[j]],
              !.chats = [j \in Jid |-> IF j \in js THEN Fresh ELSE @[j]],
              !.log   = [i \in DOMAIN @ |-> IF @[i].jid \in js
                                            THEN [@[i] EXCEPT !.jid = NoJid] ELSE @[i]]]

\* listMessages, as places in the log: the last message of a chat and the last of the
\* customer, 0 if there is none.
IsIn(s, j, i) ==
    s.log[i].jid = j \/ (j[1] \in s.mapped /\ s.log[i].jid = Other(j))
Last(s, j) ==
    CHOOSE i \in 0 .. Len(s.log) :
        /\ i = 0 \/ IsIn(s, j, i)
        /\ \A n \in i + 1 .. Len(s.log) : ~IsIn(s, j, n)
LastSpoken(s, j) ==
    CHOOSE i \in 0 .. Len(s.log) :
        /\ i = 0 \/ (IsIn(s, j, i) /\ ~s.log[i].mine)
        /\ \A n \in i + 1 .. Len(s.log) : s.log[n].mine \/ ~IsIn(s, j, n)

Paused(s, j) == \E i \in Known(s, j) : s.chats[i].paused

Init ==
    /\ store = [chats |-> [j \in Jid |-> Fresh], place |-> [j \in Jid |-> 0], count |-> 0,
                log |-> <<>>, mapped |-> {}]
    /\ handler = [h \in Handlers |-> Done]
    /\ check = [k \in Checks |-> Ended]
    /\ phase \in 1 .. 2
    /\ horizon = 0
    /\ held = {}
    /\ awaySent = {}
    /\ followUpAt = [j \in Jid |-> 0]
    /\ judgedAt = [j \in Jid |-> 0]
    /\ split = {}
    /\ writes = 0
    /\ incidents = 0

\* The next of the handlers or checks that are off.
Free(S, f) == CHOOSE i \in S : f[i].stage = "off"

Incident == incidents < MaxIncidents /\ incidents' = incidents + 1

-----------------------------------------------------------------------------
(* An incoming message *)

\* The contacts of chats in the store whose ids this step makes known to be the same.
LateMapped == {c \in store'.mapped \ store.mapped : Has(store, <<c, "lid">>) \/ Has(store, <<c, "pn">>)}

\* A customer writes. The store hears of it first, then the handler, which runs up to its
\* first await. A message may name the other id of its sender, and may have no text.
CustomerWrites(j) ==
    /\ writes < MaxWrites
    /\ \E named \in BOOLEAN :
          store' = Add(IF named THEN Learn(store, j[1]) ELSE store, j, FALSE)
    /\ \/ UNCHANGED handler     \* no text
       \/ Paused(store', j) /\ UNCHANGED handler
       \/ /\ ~Paused(store', j)
          /\ \E h \in Handlers : handler[h].stage = "off"
          /\ handler' = [handler EXCEPT ![Free(Handlers, handler)] = [Done EXCEPT
                 !.stage = IF j[2] = "lid" /\ j[1] \notin store'.mapped
                           THEN "resolving" ELSE "choosing",
                 !.jid = j]]
    /\ split' = split \cup LateMapped
    /\ writes' = writes + 1
    /\ UNCHANGED <<check, phase, horizon, held, awaySent, followUpAt, judgedAt, incidents>>

\* getPNForLID answers, with the number or without.
Resolve(h) ==
    /\ handler[h].stage = "resolving"
    /\ \E named \in BOOLEAN :
          store' = IF named THEN Learn(store, handler[h].jid[1]) ELSE store
    /\ handler' = [handler EXCEPT ![h].stage = "choosing"]
    /\ split' = split \cup LateMapped
    /\ UNCHANGED <<check, phase, horizon, held, awaySent, followUpAt, judgedAt, spent>>

Accept(h, stage, rec) ==
    handler' = [handler EXCEPT ![h].stage = stage, ![h].rec = rec]

\* Mutant: only the chat of the sender's id is looked at.
ToldToday(j) == store.chats[j].awayOn = Today

\* An away message was sent today, under either id.
AwayToday(j) == \E i \in Known(store, j) : store.chats[i].awayOn = Today

\* The chatbot is found: answer in the business hours, send the away message once a day out
\* of them.
Choose(h) ==
    LET j == handler[h].jid
    IN  /\ handler[h].stage = "choosing"
        /\ \/ Open /\ Accept(h, "replying", "none")
           \/ /\ ~Open /\ ~AwayToday(j)
              /\ Accept(h, "away", IF Has(store, j) THEN "kept" ELSE "none")
           \/ /\ ~Open /\ AwayToday(j)
              /\ handler' = [handler EXCEPT ![h] = Done]
        /\ UNCHANGED <<store, check, phase, horizon, history, spent>>

\* The flow has answered and the answer is sent.
Answer(h) ==
    /\ handler[h].stage = "replying"
    /\ store' = Add(store, handler[h].jid, TRUE)
    /\ handler' = [handler EXCEPT ![h] = Done]
    /\ UNCHANGED <<check, phase, horizon, history, spent>>

\* The away message is sent and marked in the chat. Without a record of the chat from
\* before, a new one takes the place of any there is.
SendAway(h) ==
    LET j == handler[h].jid
        s == Add(store, j, TRUE)
    IN  /\ handler[h].stage = "away"
        /\ store' = CASE handler[h].rec = "kept" -> [s EXCEPT !.chats[j].awayOn = Today]
                      [] handler[h].rec = "none" -> [s EXCEPT !.chats[j] = [Fresh EXCEPT !.awayOn = Today]]
                      [] OTHER -> s
        /\ handler' = [handler EXCEPT ![h] = Done]
        /\ awaySent' = IF handler[h].rec = "lost" THEN awaySent ELSE awaySent \cup {j}
        /\ UNCHANGED <<check, phase, horizon, held, followUpAt, judgedAt, split, spent>>

\* The chatbot is off, the rate limit is reached, the flow fails or a message cannot be sent.
GiveUp(h) ==
    /\ handler[h].stage \in {"choosing", "replying", "away"}
    /\ handler' = [handler EXCEPT ![h] = Done]
    /\ UNCHANGED <<store, check, phase, horizon, history, spent>>

-----------------------------------------------------------------------------
(* The human *)

\* A human writes, on the phone or in the inbox: the chatbot is paused in this chat.
HumanWrites(j) ==
    /\ Incident
    /\ store' = Pause(Add(store, j, TRUE), j, TRUE)
    /\ held' = held \cup {j}
    /\ UNCHANGED <<work, phase, horizon, awaySent, followUpAt, judgedAt, split, writes>>

\* A check is past one chat of the contact, and not past the other.
CheckBetween(j) ==
    \E k \in Checks : /\ Known(store, j) \cap check[k].visited # {}
                      /\ ~(Known(store, j) \subseteq check[k].visited)

\* toggleChatAI
ToggleChatAI(j, b) ==
    /\ Incident
    /\ Has(store, j)
    /\ store' = Pause(store, j, b)
    /\ held' = IF b THEN held \cup {j} ELSE held \ Known(store, j)
    /\ split' = IF ~b /\ CheckBetween(j) THEN split \cup {j[1]} ELSE split
    /\ UNCHANGED <<work, phase, horizon, awaySent, followUpAt, judgedAt, writes>>

\* The records of these chats that are kept over an await are no longer in the store.
Lose(js) ==
    /\ handler' = [h \in Handlers |-> IF handler[h].jid \in js /\ handler[h].rec = "kept"
                                      THEN [handler[h] EXCEPT !.rec = "lost"] ELSE handler[h]]
    /\ check' = [k \in Checks |-> [check[k] EXCEPT
                     !.rec = IF check[k].jid \in js THEN "lost" ELSE @,
                     !.visited = @ \ js]]

Forget(js) ==
    /\ held' = held \ js
    /\ awaySent' = awaySent \ js
    /\ followUpAt' = [j \in Jid |-> IF j \in js THEN 0 ELSE followUpAt[j]]

Deletable(j) ==
    /\ Incident
    /\ Has(store, j)
    /\ MayRace \/ \A h \in Handlers : handler[h].stage \notin {"resolving", "choosing"}

\* deleteChat: both chats of the contact go, and what is known of its ids.
DeleteChat(j) ==
    /\ Deletable(j)
    /\ store' = [Remove(store, Known(store, j)) EXCEPT !.mapped = @ \ {j[1]}]
    /\ Lose(Known(store, j))
    /\ Forget(Known(store, j))
    /\ judgedAt' = [i \in Jid |-> IF i \in Known(store, j) THEN 0 ELSE judgedAt[i]]
    /\ UNCHANGED <<phase, horizon, split, writes>>

\* chats.delete: the human deletes one chat on the phone.
PhoneDeletes(j) ==
    /\ Deletable(j)
    /\ store' = Remove(store, {j})
    /\ Lose({j})
    /\ Forget(Known(store, j))
    /\ judgedAt' = [judgedAt EXCEPT ![j] = 0]
    /\ split' = split \cup {j[1]}
    /\ UNCHANGED <<phase, horizon, writes>>

\* lid-mapping.update, contacts.upsert, contacts.update: WhatsApp tells the ids of a contact.
TellMapping(c) ==
    /\ c \notin store.mapped
    /\ store' = Learn(store, c)
    /\ split' = split \cup LateMapped
    /\ UNCHANGED <<work, phase, horizon, held, awaySent, followUpAt, judgedAt, spent>>

-----------------------------------------------------------------------------
(* The follow-up check *)

Unified(s, j) == IF j[1] \in s.mapped THEN <<j[1], "pn">> ELSE j

\* Mutant: a chat in which the customer has not spoken yet is never due.
DueSpoken(s, j) ==
    LET last == Last(s, j)
        chat == s.chats[j]
    IN  /\ LastSpoken(s, j) # 0
        /\ s.log[last].mine
        /\ last \notin {chat.sentFor, chat.trigger}
        /\ ~(chat.followedAt > 0 /\ chat.followedAt >= LastSpoken(s, j))
        /\ last <= horizon

\* The last message is ours and old, and nothing was decided on it or since the customer spoke.
Due(s, j) ==
    LET last == Last(s, j)
        chat == s.chats[j]
    IN  /\ last # 0
        /\ s.log[last].mine
        /\ last \notin {chat.sentFor, chat.trigger}
        /\ ~(chat.followedAt > 0 /\ chat.followedAt >= LastSpoken(s, j))
        /\ last <= horizon

\* The loop over the chats, on to the next one that is to be judged or to its end. It goes
\* over a live Map: a chat that comes while it awaits is gone over as well.
Scan(s, visited, processed) ==
    LET meets(j)   == Has(s, j) /\ j \notin visited /\ ~s.chats[j].paused
        first(j)   == \A i \in Jid : (meets(i) /\ s.place[i] < s.place[j])
                                        => Unified(s, i) # Unified(s, j)
        picks(j)   == meets(j) /\ Unified(s, j) \notin processed /\ first(j) /\ Due(s, j)
        next       == CHOOSE j \in Jid : picks(j) /\ \A i \in Jid : picks(i) => s.place[j] <= s.place[i]
        passed     == {i \in Jid : Has(s, i) /\ s.place[i] <= s.place[next]}
    IN  IF \A j \in Jid : ~picks(j) THEN Ended
        ELSE [stage     |-> "judging",
              jid       |-> next,
              rec       |-> "kept",
              last      |-> Last(s, next),
              visited   |-> visited \cup passed,
              processed |-> processed \cup {Unified(s, i) : i \in {i \in passed : meets(i)}}]

\* Once a minute. A check that takes longer goes on next to the new one.
StartCheck ==
    /\ \E k \in Checks : check[k].stage = "off"
    /\ IF \A k \in Checks : check[k].stage = "off" THEN UNCHANGED incidents ELSE Incident
    /\ check' = [check EXCEPT ![Free(Checks, check)] = Scan(store, {}, {})]
    /\ UNCHANGED <<store, handler, phase, horizon, history, writes>>

\* Mutant: the time of the follow-up is not marked.
MarkUntimed(s, k, sent) ==
    IF check[k].rec = "lost" THEN s
    ELSE [s EXCEPT !.chats[check[k].jid].trigger = check[k].last,
                   !.chats[check[k].jid].sentFor = check[k].last]

\* The chat is marked, if its record is still in the store.
Mark(s, k, sent) ==
    IF check[k].rec = "lost" THEN s
    ELSE [s EXCEPT !.chats[check[k].jid].trigger    = check[k].last,
                   !.chats[check[k].jid].sentFor    = sent,
                   !.chats[check[k].jid].followedAt = Len(s.log)]

\* The flow says yes and the follow-up is sent.
FollowUp(k) ==
    LET j == check[k].jid
        s == Add(store, j, TRUE)
    IN  /\ store' = Mark(s, k, Len(s.log))
        /\ followUpAt' = [i \in Jid |-> IF i \in Known(s, j) /\ check[k].rec = "kept"
                                        THEN Len(s.log) ELSE followUpAt[i]]
        /\ judgedAt' = [i \in Jid |-> IF i \in Known(s, j) THEN Len(s.log) ELSE judgedAt[i]]
        /\ UNCHANGED incidents

\* The flow says no.
LetBe(k) ==
    /\ store' = Mark(store, k, check[k].last)
    /\ judgedAt' = [i \in Jid |-> IF i \in Known(store, check[k].jid)
                                  THEN Len(store.log) ELSE judgedAt[i]]
    /\ UNCHANGED <<followUpAt, incidents>>

\* The flow or the sending fails: the chat is left to the next check.
Leave(k) ==
    /\ Incident
    /\ UNCHANGED <<store, judgedAt, followUpAt>>

\* A decision on a chat, and on with the loop.
Judge(k) ==
    /\ check[k].stage = "judging"
    /\ FollowUp(k) \/ LetBe(k) \/ Leave(k)
    /\ check' = [check EXCEPT ![k] = Scan(store', check[k].visited, check[k].processed)]
    /\ UNCHANGED <<handler, phase, horizon, held, awaySent, split, writes>>

-----------------------------------------------------------------------------
(* Time and the connection *)

HoursPass ==
    /\ phase < 3
    /\ Incident
    /\ phase' = phase + 1
    /\ awaySent' = IF phase = 2 THEN {} ELSE awaySent
    /\ UNCHANGED <<store, work, horizon, held, followUpAt, judgedAt, split, writes>>

\* The messages there are grow older than followUpDelayMinutes.
DelayPasses ==
    /\ horizon < Len(store.log)
    /\ horizon' = Len(store.log)
    /\ UNCHANGED <<store, work, phase, history, spent>>

\* The device loses its connection, or the server is restarted in order: the store is saved
\* and loaded again. What was in the works holds a socket that is closed, and fails.
Reconnect ==
    /\ Incident
    /\ handler' = [h \in Handlers |-> Done]
    /\ check' = [k \in Checks |-> Ended]
    /\ UNCHANGED <<store, phase, horizon, history, writes>>

Step(h) == Resolve(h) \/ Choose(h) \/ Answer(h) \/ SendAway(h) \/ GiveUp(h)

Next ==
    \/ \E j \in Jid : CustomerWrites(j) \/ HumanWrites(j) \/ DeleteChat(j) \/ PhoneDeletes(j)
    \/ \E j \in Jid, b \in BOOLEAN : ToggleChatAI(j, b)
    \/ \E c \in Contacts : TellMapping(c)
    \/ \E h \in Handlers : Step(h)
    \/ \E k \in Checks : Judge(k)
    \/ StartCheck
    \/ HoursPass \/ DelayPasses \/ Reconnect

\* The timer fires every minute, and the flow of a judgement answers or fails.
Fairness == WF_vars(StartCheck) /\ WF_vars(\E k \in Checks : Judge(k))

Spec == Init /\ [][Next]_vars /\ Fairness

-----------------------------------------------------------------------------
(* Properties *)

TypeOK ==
    /\ store \in Store
    /\ handler \in [Handlers -> Handling]
    /\ check \in [Checks -> Judging]
    /\ phase \in 1 .. 3
    /\ horizon \in 0 .. Len(store.log)
    /\ held \subseteq Jid /\ awaySent \subseteq Jid
    /\ split \subseteq Contacts
    /\ {followUpAt, judgedAt} \subseteq [Jid -> 0 .. Len(store.log)]
    /\ writes \in 0 .. MaxWrites
    /\ incidents \in 0 .. MaxIncidents

Accepts(h) == handler[h].stage = "off" /\ handler'[h].stage # "off"
Picks(k)   == ~(check'[k].visited \subseteq check[k].visited)

\* Once a human has taken over a chat, under either id the store knows to be the same contact,
\* the chatbot takes no further message of it and judges it in no check, until it is switched
\* on again or the chat is deleted. What is in the works already goes out.
TakeoverHolds ==
    [][/\ \A h \in Handlers : Accepts(h) => Known(store', handler'[h].jid) \cap held = {}
       /\ \A k \in Checks : Picks(k) => Known(store', check'[k].jid) \cap held = {}]_vars

\* "First message outside hours today -> send away message once": when an away message has
\* been sent, no message of the contact leads to another one on that day. (Two messages in
\* the works at the same time may each get one.)
AwayOnce ==
    [][\A h \in Handlers :
          (handler'[h].stage = "away" /\ handler[h].stage # "away")
              => Known(store', handler'[h].jid) \cap awaySent = {}]_vars

\* "We already followed up since the customer last spoke": a chat that was followed up is not
\* judged again before the customer speaks. Two checks that judge it at the same time may both
\* follow up. The marks are on the chat of one id, and nobody moves them to the other when the
\* store learns that they are one contact: that case is excepted. So is a pause that is lifted
\* while a check is past one chat of the contact: it skipped that chat as paused, marks the
\* other, and the next check does not find the mark.
FollowUpOnce ==
    [][\A k \in Checks : (Picks(k) /\ check'[k].jid[1] \notin split') =>
          LET j == check'[k].jid
          IN  followUpAt[j] = 0 \/ followUpAt[j] < LastSpoken(store', j)]_vars

Silent(j) ==
    LET last == Last(store, j)
    IN  /\ Has(store, j)
        /\ ~Paused(store, j)
        /\ last # 0 /\ store.log[last].mine /\ last <= horizon
        /\ \A i \in Known(store, j) :
              judgedAt[i] = 0 \/ judgedAt[i] < LastSpoken(store, j)

\* A chat that waits for its customer for longer than the delay is judged in the end, whatever
\* becomes of the judgements of others and of its own first ones: again and again there is no
\* chat that waits for its judgement.
SilenceIsJudged == []<>(\A j \in Jid : ~Silent(j))

=============================================================================
