----------------------- MODULE WhatsAppSession_proofs -----------------------
(***************************************************************************)
(* Theorems about WhatsAppSession for any number of sockets, requests,     *)
(* links, losses, crashes and failed calls: its type, and that until its   *)
(* deletion is asked for a device is never connected twice and its status  *)
(* is true.                                                                *)
(*                                                                         *)
(* The lock `initializing' protects a call of initSession until its socket *)
(* is the client, and the client protects the socket from then on. What    *)
(* has to be shown is that nobody takes either away from its owner: the    *)
(* handler of `open', which releases the lock after an await, does so      *)
(* while its own socket is still the client. For the status it has to be   *)
(* shown that nobody writes the row behind an open socket: not the handler *)
(* of a QR code, which saves it after an await, nor a request for one.     *)
(* A failed call leaves the lock with nobody, a dead socket as the client  *)
(* or an open one that still has the lock; none of these lets a second     *)
(* call in.                                                                *)
(***************************************************************************)
EXTENDS WhatsAppSession, FiniteSetTheorems, TLAPS

Places == stage \in [Sockets -> Stages] /\ opening \subseteq Sockets

Initing == {"reading", "loading", "fetching"}

\* At most one call or socket is under way ...
NoOther == \A s, t \in Sockets : stage[s] # "free" /\ stage[t] # "free" => s = t

\* ... it holds the lock until it is the client ...
Locked == \A s \in Sockets : stage[s] \in Initing => initializing /\ clients = {}

\* ... and is the client as long as there is a socket.
IsClient == \A s \in Sockets : stage[s] \notin Initing \cup {"free"} => clients = {s}

\* The socket whose `open' is being saved is still open.
OpeningIsOpen == \A s \in opening : stage[s] = "open"

Apart == NoOther /\ Locked /\ IsClient /\ OpeningIsOpen

IInv == Places /\ (~MayStall /\ deletion = "unasked" => Apart)

\* A step of the device before its deletion, with a database that answers in time.
Prompt == Places /\ Apart /\ ~MayStall

-----------------------------------------------------------------------------
(* What a step does to the places *)

\* The sockets stay where they are.
LEMMA Aside ==
    ASSUME IInv, UNCHANGED <<stage, opening, clients, initializing>>,
           deletion' = "unasked" => deletion = "unasked"
    PROVE  IInv'
BY DEF IInv, Places, Apart, NoOther, Locked, IsClient, OpeningIsOpen

\* A stage that is set to another one.
LEMMA Moves ==
    ASSUME Places, NEW s \in Sockets, NEW to \in Stages, stage' = [stage EXCEPT ![s] = to],
           opening' \subseteq Sockets
    PROVE  /\ Places'
           /\ stage'[s] = to
           /\ \A t \in Sockets \ {s} : stage'[t] = stage[t]
BY DEF Places

\* When a call passes the lock there is neither a call nor a socket.
LEMMA InitSessionApart ==
    ASSUME Places, InitSession, UNCHANGED <<opening, clients>>
    PROVE  Places' /\ (Apart => Apart')
<1>1. CASE clients # {} \/ initializing
  BY <1>1 DEF InitSession, Places, Apart, NoOther, Locked, IsClient, OpeningIsOpen
<1>2. CASE clients = {} /\ ~initializing
  <2>1. PICK s \in Free : initializing' = TRUE /\ stage' = [stage EXCEPT ![s] = "reading"]
    BY <1>2 DEF InitSession
  <2>2. s \in Sockets /\ s \notin opening
    BY <2>1 DEF Free
  <2>3. /\ Places'
        /\ stage'[s] = "reading"
        /\ \A t \in Sockets \ {s} : stage'[t] = stage[t]
    BY <2>1, <2>2, Moves DEF Places, Stages
  <2>4. ASSUME Apart PROVE Apart'
    <3>1. \A t \in Sockets : stage[t] = "free"
      BY <1>2, <2>4 DEF Apart, Locked, IsClient
    <3>2. \A t \in Sockets \ {s} : stage'[t] = "free"
      BY <2>3, <3>1
    <3> QED
      BY <1>2, <2>1, <2>3, <3>1, <3>2, <2>4
      DEF Apart, NoOther, Locked, IsClient, OpeningIsOpen, Initing, Places
  <2> QED
    BY <2>3, <2>4
<1> QED
  BY <1>1, <1>2

\* A socket that goes on as the client.
LEMMA ClientGoesOn ==
    ASSUME Prompt, NEW s \in Sockets, NEW to \in Stages \ (Initing \cup {"free"}),
           stage[s] \notin Initing \cup {"free"}, stage' = [stage EXCEPT ![s] = to],
           UNCHANGED clients, opening' = {} \/ (opening' = {s} /\ to = "open")
    PROVE  Apart'
<1>1. opening' \subseteq Sockets
  OBVIOUS
<1>2. stage'[s] = to /\ \A t \in Sockets \ {s} : stage'[t] = stage[t]
  BY <1>1, Moves DEF Prompt
<1>3. \A t \in Sockets \ {s} : stage[t] = "free"
  BY DEF Prompt, Apart, NoOther
<1> QED
  BY <1>2, <1>3 DEF Prompt, Apart, NoOther, Locked, IsClient, OpeningIsOpen, Initing

\* A call or a socket that ends.
LEMMA Ends ==
    ASSUME Prompt, NEW s \in Sockets, stage[s] # "free",
           stage' = [stage EXCEPT ![s] = "free"], opening' = {}
    PROVE  Apart'
<1>1. "free" \in Stages /\ opening' \subseteq Sockets
  BY DEF Stages
<1>2. stage'[s] = "free" /\ \A t \in Sockets \ {s} : stage'[t] = stage[t]
  BY <1>1, Moves DEF Prompt
<1>3. \A t \in Sockets \ {s} : stage[t] = "free"
  BY DEF Prompt, Apart, NoOther
<1> QED
  BY <1>2, <1>3 DEF Apart, NoOther, Locked, IsClient, OpeningIsOpen, Initing

-----------------------------------------------------------------------------
(* The steps *)

\* Every step leaves each call and socket at some stage.
LEMMA NextPlaces == ASSUME Places, [Next]_vars PROVE Places'
<1>1. ASSUME NEW s \in Sockets,
             Call(s) \/ Event(s) \/ OfferQR(s) \/ Link(s) \/ Lose(s) \/ Error(s)
      PROVE  Places'
  <2>1. opening' \subseteq Sockets
    BY <1>1 DEF Places, Call, Event, OfferQR, Link, Lose, ReadDevice, LoadCreds, MakeSocket,
       SaveQR, Open, Opened, Revoked, EndEvent, Leave, Close, Alone, Error, CallThrows,
       SaveQRFails, OpenFails, LeaveFails
  <2>2. stage' = stage \/ \E to \in Stages : stage' = [stage EXCEPT ![s] = to]
    <3>1. CASE Call(s)
      BY <3>1 DEF Call, ReadDevice, LoadCreds, MakeSocket, Stages
    <3>2. CASE SaveQR(s)
      BY <3>2 DEF SaveQR, Stages, Places
    <3>3. CASE Open(s) \/ Opened(s) \/ Leave(s) \/ OfferQR(s) \/ Link(s)
      BY <3>3 DEF Open, Opened, Leave, OfferQR, Link, Stages
    <3>4. CASE Revoked(s) \/ EndEvent(s) \/ Lose(s)
      BY <3>4 DEF Revoked, EndEvent, Lose, Close, Reconnect, LogOut, LogOutFails, Stages
    <3>5. CASE Error(s)
      BY <3>5 DEF Error, CallThrows, SaveQRFails, OpenFails, LeaveFails, Stages
    <3> QED
      BY <1>1, <3>1, <3>2, <3>3, <3>4, <3>5 DEF Event
  <2> QED
    BY <2>1, <2>2, Moves DEF Places
<1>2. CASE \/ TimerFires \/ AddDevice \/ Boot
           \/ \E p \in Polls : PollInit(p) \/ PollInitFails(p)
  <2>1. UNCHANGED <<opening, clients>>
    BY <1>2 DEF TimerFires, AddDevice, Boot, PollInit, PollInitFails, Alone
  <2>2. InitSession \/ UNCHANGED stage
    BY <1>2 DEF TimerFires, AddDevice, Boot, PollInit, PollInitFails
  <2> QED
    BY <2>1, <2>2, InitSessionApart DEF Places
<1>3. CASE CloseSession
  BY <1>3 DEF CloseSession, Places, Stages
<1>4. CASE Crash
  BY <1>4 DEF Crash, Places, Stages
<1>5. CASE \/ CloseDevice \/ RemoveFiles \/ DeleteDevice \/ Unlink
           \/ (\E p \in Polls : PollRead(p)) \/ UNCHANGED vars
           \/ AddDeviceFails \/ DeletionFails \/ BootFails
  BY <1>5 DEF CloseDevice, RemoveFiles, DeleteDevice, Unlink, PollRead, socket, vars, Places,
     AddDeviceFails, DeletionFails, BootFails
<1> QED
  BY <1>1, <1>2, <1>3, <1>4, <1>5 DEF Next

\* A call of initSession keeps the lock until its socket is the client.
LEMMA CallApart == ASSUME Prompt, NEW s \in Sockets, Call(s) PROVE Apart'
<1>1. /\ stage[s] \in Initing
      /\ UNCHANGED opening
  BY DEF Call, ReadDevice, LoadCreds, MakeSocket, Alone, Initing
<1>2. opening = {} /\ \A t \in Sockets \ {s} : stage[t] = "free"
  BY <1>1 DEF Prompt, Places, Apart, NoOther, OpeningIsOpen, Initing
<1>3. CASE ReadDevice(s) /\ row = NoRow
  BY <1>1, <1>2, <1>3, Ends DEF ReadDevice, Initing
<1>4. CASE (ReadDevice(s) /\ row # NoRow) \/ LoadCreds(s)
  <2>1. PICK to \in {"loading", "fetching"} : stage' = [stage EXCEPT ![s] = to]
    BY <1>4 DEF ReadDevice, LoadCreds
  <2>2. stage'[s] = to /\ \A t \in Sockets \ {s} : stage'[t] = stage[t]
    BY <2>1 DEF Prompt, Places
  <2>3. UNCHANGED <<initializing, clients>>
    BY <1>4 DEF ReadDevice, LoadCreds, Alone, memory
  <2> QED
    BY <1>1, <1>2, <2>2, <2>3
    DEF Prompt, Apart, NoOther, Locked, IsClient, OpeningIsOpen, Initing
<1>5. CASE MakeSocket(s)
  <2>1. stage'[s] = "connecting" /\ \A t \in Sockets \ {s} : stage'[t] = stage[t]
    BY <1>5 DEF MakeSocket, Prompt, Places
  <2>2. clients' = {s}
    BY <1>5 DEF MakeSocket
  <2> QED
    BY <1>1, <1>2, <2>1, <2>2
    DEF Apart, NoOther, Locked, IsClient, OpeningIsOpen, Initing
<1> QED
  BY <1>3, <1>4, <1>5 DEF Call

\* The end of a socket comes when the handler of its `open' is over.
LEMMA CloseApart ==
    ASSUME Prompt, NEW s \in Sockets, NEW shouldReconnect, Settled, Close(s, shouldReconnect),
           stage[s] \notin Initing \cup {"free"}
    PROVE  Apart'
<1>1. opening = {} /\ opening' = {}
  BY DEF Prompt, Settled, Close
<1>2. CASE Reconnect(s)
  BY <1>1, <1>2, Ends DEF Reconnect
<1>3. CASE LogOut(s)
  <2>1. "leaving" \in Stages \ (Initing \cup {"free"})
    BY DEF Stages, Initing
  <2> QED
    BY <1>1, <1>3, <2>1, ClientGoesOn DEF LogOut
<1>4. CASE LogOutFails(s)
  BY <1>1, <1>4, Ends DEF LogOutFails
<1> QED
  BY <1>2, <1>3, <1>4 DEF Close

\* The handlers of a socket leave the lock and the client to their owner.
LEMMA EventApart ==
    ASSUME Prompt, NEW s \in Sockets, Event(s) \/ Link(s) \/ Lose(s)
    PROVE  Apart'
<1>1. CASE Revoked(s) \/ EndEvent(s) \/ Lose(s)
  <2>1. stage[s] \notin Initing \cup {"free"} /\ Settled
    BY <1>1 DEF Revoked, EndEvent, Lose, Live, Initing
  <2>2. Close(s, TRUE) \/ Close(s, FALSE)
    BY <1>1 DEF Revoked, EndEvent, Lose
  <2> QED
    BY <2>1, <2>2, CloseApart
<1>2. CASE Open(s) \/ Link(s)
  <2>1. /\ opening = {}
        /\ \/ opening' = {s} /\ stage' = [stage EXCEPT ![s] = "open"]
           \/ opening' = {} /\ stage' = [stage EXCEPT ![s] = "restarting"]
    BY <1>2 DEF Open, Link, Settled, Prompt
  <2>2. stage[s] \notin Initing \cup {"free"} /\ UNCHANGED clients
    BY <1>2 DEF Open, Link, Initing, memory
  <2>3. {"open", "restarting"} \subseteq Stages \ (Initing \cup {"free"})
    BY DEF Stages, Initing
  <2> QED
    BY <2>1, <2>2, <2>3, ClientGoesOn
<1>3. CASE Opened(s)
  <2>1. stage[s] = "open" /\ UNCHANGED <<stage, clients>> /\ opening' \subseteq opening
    BY <1>3 DEF Opened, Prompt, Apart, OpeningIsOpen
  <2>2. \A t \in Sockets : stage[t] \notin Initing
    BY <2>1 DEF Prompt, Apart, NoOther, Initing
  <2> QED
    BY <2>1, <2>2 DEF Prompt, Apart, NoOther, Locked, IsClient, OpeningIsOpen
<1>4. CASE Leave(s)
  <2>1. stage[s] = "leaving" /\ UNCHANGED opening
    BY <1>4 DEF Leave
  <2>2. opening' = {}
    BY <2>1 DEF Prompt, Places, Apart, NoOther, OpeningIsOpen
  <2> QED
    BY <1>4, <2>1, <2>2, Ends DEF Leave
<1>5. CASE SaveQR(s)
  <2>1. UNCHANGED <<opening, clients, initializing>>
    BY <1>5 DEF SaveQR, memory
  <2>2. CASE stage[s] = "connecting"
    <3>1. stage'[s] = "scanning" /\ \A t \in Sockets \ {s} : stage'[t] = stage[t]
      BY <1>5, <2>2 DEF SaveQR, Prompt, Places
    <3> QED
      BY <2>1, <2>2, <3>1 DEF Prompt, Places, Apart, NoOther, Locked, IsClient, OpeningIsOpen,
         Initing
  <2>3. CASE stage[s] # "connecting"
    <3>1. stage' = stage
      BY <1>5, <2>3 DEF SaveQR, Prompt, Places
    <3> QED
      BY <2>1, <3>1 DEF Prompt, Apart, NoOther, Locked, IsClient, OpeningIsOpen
  <2> QED
    BY <2>2, <2>3
<1> QED
  BY <1>1, <1>2, <1>3, <1>4, <1>5 DEF Event

\* A call or a handler that an error ends takes nothing from another one.
LEMMA ErrorApart == ASSUME Prompt, NEW s \in Sockets, Error(s) PROVE Apart'
<1>1. CASE CallThrows(s) \/ LeaveFails(s)
  <2>1. stage[s] \in Initing \cup {"leaving"} /\ UNCHANGED opening
    BY <1>1 DEF CallThrows, LeaveFails, Alone, Initing
  <2>2. stage[s] # "free" /\ opening' = {}
    BY <2>1 DEF Prompt, Places, Apart, NoOther, OpeningIsOpen, Initing
  <2> QED
    BY <1>1, <2>2, Ends DEF CallThrows, LeaveFails
<1>2. CASE SaveQRFails(s)
  <2>1. UNCHANGED <<stage, opening, clients, initializing>>
    BY <1>2 DEF SaveQRFails, memory
  <2> QED
    BY <2>1 DEF Prompt, Apart, NoOther, Locked, IsClient, OpeningIsOpen
<1>3. CASE OpenFails(s)
  <2>1. /\ stage[s] = "connecting" /\ UNCHANGED clients /\ opening' = {}
        /\ stage' = [stage EXCEPT ![s] = "open"]
    BY <1>3 DEF OpenFails, Settled, Prompt, Alone, memory
  <2>2. stage[s] \notin Initing \cup {"free"} /\ "open" \in Stages \ (Initing \cup {"free"})
    BY <2>1 DEF Stages, Initing
  <2> QED
    BY <2>1, <2>2, ClientGoesOn
<1> QED
  BY <1>1, <1>2, <1>3 DEF Error

\* The inductive step.
LEMMA NextIInv == ASSUME IInv, [Next]_vars PROVE IInv'
<1>1. Places /\ Places'
  BY NextPlaces DEF IInv
<1>2. SUFFICES ASSUME ~MayStall, deletion' = "unasked" PROVE Apart'
  BY <1>1 DEF IInv
<1>3. CASE Crash
  BY <1>3 DEF Crash, Apart, NoOther, Locked, IsClient, OpeningIsOpen, Initing
<1>4. CASE CloseSession \/ CloseDevice \/ RemoveFiles \/ DeleteDevice \/ DeletionFails
  BY <1>2, <1>4 DEF CloseSession, CloseDevice, RemoveFiles, DeleteDevice, DeletionFails
<1>5. ASSUME NEW s \in Sockets, Call(s) \/ Event(s) \/ Link(s) \/ Lose(s) \/ Error(s)
      PROVE  Apart'
  <2>1. deletion = "unasked"
    BY <1>2, <1>5 DEF Call, Event, Link, Lose, ReadDevice, LoadCreds, MakeSocket, SaveQR, Open,
       Opened, Revoked, EndEvent, Leave, Error, CallThrows, SaveQRFails, OpenFails, LeaveFails, user
  <2>2. Prompt
    BY <1>1, <1>2, <2>1 DEF IInv, Prompt
  <2> QED
    BY <1>5, <2>2, CallApart, EventApart, ErrorApart
<1>6. CASE \/ TimerFires \/ AddDevice \/ Boot
           \/ \E p \in Polls : PollInit(p) \/ PollInitFails(p)
  <2>1. UNCHANGED <<opening, clients, deletion>>
    BY <1>6 DEF TimerFires, AddDevice, Boot, PollInit, PollInitFails, Alone, user
  <2>2. InitSession \/ UNCHANGED <<stage, initializing>>
    BY <1>6 DEF TimerFires, AddDevice, Boot, PollInit, PollInitFails
  <2>3. Apart
    BY <1>2, <2>1 DEF IInv
  <2> QED
    BY <1>1, <2>1, <2>2, <2>3, InitSessionApart
    DEF Apart, NoOther, Locked, IsClient, OpeningIsOpen
<1>7. CASE \/ \E s \in Sockets : OfferQR(s)
           \/ Unlink \/ (\E p \in Polls : PollRead(p)) \/ UNCHANGED vars
           \/ AddDeviceFails \/ BootFails
  <2>1. UNCHANGED <<stage, opening, clients, initializing, deletion>>
    BY <1>7 DEF OfferQR, Unlink, PollRead, socket, memory, user, vars, AddDeviceFails, BootFails
  <2> QED
    BY <1>2, <2>1, Aside DEF IInv
<1> QED
  BY <1>3, <1>4, <1>5, <1>6, <1>7 DEF Next

\* As long as the database answers before the next event of WhatsApp and nobody deletes the
\* device, initSession never connects it twice, whoever calls it (initSession, getDeviceQR,
\* the reconnections, initializeAllSessions).
THEOREM ConnectedOnce == Spec => [](~MayStall => OneSocket)
<1>1. Init => IInv
  BY DEF Init, IInv, Places, Stages, Apart, NoOther, Locked, IsClient, OpeningIsOpen, Initing
<1>2. IInv => (~MayStall => OneSocket)
  BY DEF IInv, OneSocket, Apart, IsClient, Live, Initing
<1> QED
  BY <1>1, <1>2, NextIInv, PTL DEF Spec

-----------------------------------------------------------------------------
(* Types *)

\* A socket has a copy of the row from the time initSession has read it, and a handler that is
\* encoding a QR code has the one of its socket.
HasCopy == \A s \in Sockets : stage[s] \notin {"free", "reading"} \/ s \in encoding => copy[s] \in Copy

TInv == TypeOK /\ HasCopy

LEMMA SavedIsDevice == ASSUME TypeOK, NEW c \in Copy PROVE Saved(c) \in Device
<1>1. c.status \in Statuses /\ (c.connectedAt # Undefined => c.connectedAt \in Nat)
  BY DEF Copy
<1>2. row # NoRow => row.connectedAt \in Nat
  BY DEF TypeOK, Device
<1> QED
  BY <1>1, <1>2 DEF Saved, Device

LEMMA DeviceIsCopy == Device \subseteq Copy
BY DEF Device, Copy

LEMMA OneClient == Cardinality({}) <= 1 /\ \A s : Cardinality({s}) <= 1
BY FS_EmptySet, FS_Singleton

LEMMA NoLink == ASSUME TypeOK PROVE 0 \in 0 .. links
BY SessionAssumption DEF TypeOK

LEMMA InitSessionTyped ==
    ASSUME TInv, InitSession, UNCHANGED <<clients, copy, encoding>>
    PROVE  initializing' \in BOOLEAN /\ stage' \in [Sockets -> Stages] /\ HasCopy'
<1>1. CASE clients # {} \/ initializing
  BY <1>1 DEF InitSession, TInv, TypeOK, HasCopy
<1>2. CASE ~(clients # {} \/ initializing)
  <2>1. PICK s \in Free : initializing' = TRUE /\ stage' = [stage EXCEPT ![s] = "reading"]
    BY <1>2 DEF InitSession
  <2> QED
    BY <2>1 DEF TInv, TypeOK, HasCopy, Stages
<1> QED
  BY <1>1, <1>2

LEMMA FailsTyped == ASSUME TypeOK, Fails PROVE errors' \in 0 .. MaxErrors
BY SessionAssumption DEF TypeOK, Fails

\* connection = `close', for any of its reasons.
LEMMA CloseTyped ==
    ASSUME TInv, NEW s \in Sockets, NEW shouldReconnect \in BOOLEAN, Close(s, shouldReconnect),
           UNCHANGED <<user, links, unlinked, crashes, givenUp>>, losses' \in 0 .. MaxLosses
    PROVE  TInv'
<1>1. CASE Reconnect(s) /\ UNCHANGED errors
  <2>1. HasCopy' /\ stage' \in [Sockets -> Stages]
    BY <1>1 DEF Close, Reconnect, TInv, TypeOK, HasCopy, Stages
  <2>2. clients' = {} /\ Cardinality(clients') <= 1 /\ timers' \in Nat
    BY <1>1, OneClient DEF Reconnect, TInv, TypeOK
  <2> QED
    BY <1>1, <2>1, <2>2 DEF Close, Reconnect, user, TInv, TypeOK
<1>2. CASE LogOut(s) /\ UNCHANGED errors
  <2> DEFINE c == [status |-> "DISCONNECTED", connectedAt |-> Undefined]
  <2>1. c \in Copy
    BY DEF Copy, Statuses
  <2> HIDE DEF c
  <2>2. copy' = [copy EXCEPT ![s] = c] /\ row' = Saved(copy'[s])
    BY <1>2 DEF LogOut, c
  <2>3. copy' \in [Sockets -> Copy \cup {NoRow}] /\ copy'[s] = c /\ row' \in Device
    BY <2>1, <2>2, SavedIsDevice DEF TInv, TypeOK
  <2>4. HasCopy'
    BY <1>2, <2>1, <2>2, <2>3 DEF LogOut, Close, TInv, TypeOK, HasCopy
  <2> QED
    BY <1>2, <2>3, <2>4 DEF LogOut, Close, user, TInv, TypeOK, Stages
<1>3. CASE LogOutFails(s)
  <2> DEFINE c == [status |-> "DISCONNECTED", connectedAt |-> Undefined]
  <2>1. c \in Copy
    BY DEF Copy, Statuses
  <2> HIDE DEF c
  <2>2. copy' = [copy EXCEPT ![s] = c] /\ row' \in {row, Saved(copy'[s])}
    BY <1>3 DEF LogOutFails, c
  <2>3. /\ copy' \in [Sockets -> Copy \cup {NoRow}] /\ copy'[s] = c
        /\ row' \in Device \cup {NoRow}
    BY <2>1, <2>2, SavedIsDevice DEF TInv, TypeOK
  <2>4. HasCopy'
    BY <1>3, <2>1, <2>2, <2>3 DEF LogOutFails, Close, TInv, TypeOK, HasCopy
  <2>5. errors' \in 0 .. MaxErrors
    BY <1>3, FailsTyped DEF LogOutFails, TInv
  <2> QED
    BY <1>3, <2>3, <2>4, <2>5 DEF LogOutFails, Close, user, TInv, TypeOK, Stages
<1> QED
  BY <1>1, <1>2, <1>3 DEF Close

LEMMA CallTyped == ASSUME TInv, NEW s \in Sockets, Call(s) PROVE TInv'
<1>1. CASE ReadDevice(s) /\ row = NoRow
  BY <1>1 DEF ReadDevice, Alone, user, world, TInv, TypeOK, HasCopy, Stages
<1>2. CASE ReadDevice(s) /\ row # NoRow
  <2> DEFINE c == [row EXCEPT !.status = "INITIALIZING"]
  <2>1. c \in Copy
    BY <1>2 DEF TInv, TypeOK, Device, Copy, Statuses
  <2> HIDE DEF c
  <2>2. copy' = [copy EXCEPT ![s] = c] /\ row' = Saved(copy'[s])
    BY <1>2 DEF ReadDevice, c
  <2>3. copy' \in [Sockets -> Copy \cup {NoRow}] /\ copy'[s] = c /\ row' \in Device
    BY <2>1, <2>2, SavedIsDevice DEF TInv, TypeOK
  <2>4. HasCopy'
    BY <1>2, <2>1, <2>2, <2>3 DEF ReadDevice, Alone, TInv, TypeOK, HasCopy
  <2> QED
    BY <1>2, <2>3, <2>4 DEF ReadDevice, Alone, user, world, TInv, TypeOK, Stages
<1>3. CASE LoadCreds(s)
  BY <1>3 DEF LoadCreds, memory, user, world, TInv, TypeOK, HasCopy, Stages
<1>4. CASE MakeSocket(s)
  BY <1>4, OneClient DEF MakeSocket, Alone, user, world, TInv, TypeOK, HasCopy, Stages
<1> QED
  BY <1>1, <1>2, <1>3, <1>4 DEF Call

LEMMA EventTyped == ASSUME TInv, NEW s \in Sockets, Event(s) PROVE TInv'
<1>1. CASE SaveQR(s)
  <2>1. copy[s] \in Copy /\ s \in encoding
    BY <1>1 DEF SaveQR, TInv, HasCopy
  <2>2. copy' = [copy EXCEPT ![s] = [copy[s] EXCEPT !.status = "QR"]] /\ row' = Saved(copy'[s])
    BY <1>1, <2>1 DEF SaveQR, TInv, TypeOK
  <2>3. [copy[s] EXCEPT !.status = "QR"] \in Copy
    BY <2>1 DEF Copy, Statuses
  <2>4. copy' \in [Sockets -> Copy \cup {NoRow}] /\ copy'[s] \in Copy /\ row' \in Device
    BY <2>2, <2>3, SavedIsDevice DEF TInv, TypeOK
  <2>5. stage' \in [Sockets -> Stages] /\ encoding' \subseteq encoding
    BY <1>1 DEF SaveQR, TInv, TypeOK, Stages
  <2>6. HasCopy'
    BY <1>1, <2>2, <2>4, <2>5 DEF SaveQR, TInv, TypeOK, HasCopy
  <2> QED
    BY <1>1, <2>4, <2>5, <2>6 DEF SaveQR, memory, user, world, TInv, TypeOK
<1>2. CASE Open(s)
  <2> DEFINE c == [status |-> "CONNECTED",
                   connectedAt |-> IF copy[s].connectedAt \in {0, Undefined} THEN links
                                   ELSE copy[s].connectedAt]
  <2>1. copy[s] \in Copy /\ links \in Nat
    BY <1>2, SessionAssumption DEF Open, TInv, TypeOK, HasCopy
  <2>2. c \in Copy
    BY <2>1 DEF Copy, Statuses
  <2>3. copy' = [copy EXCEPT ![s] = c] /\ row' = Saved(copy'[s])
    BY <1>2 DEF Open
  <2> HIDE DEF c
  <2>4. copy' \in [Sockets -> Copy \cup {NoRow}] /\ copy'[s] = c /\ row' \in Device
    BY <2>2, <2>3, SavedIsDevice DEF TInv, TypeOK
  <2>5. HasCopy'
    BY <1>2, <2>2, <2>3, <2>4 DEF Open, TInv, TypeOK, HasCopy
  <2> QED
    BY <1>2, <2>4, <2>5 DEF Open, memory, user, world, TInv, TypeOK, Stages
<1>3. CASE Opened(s)
  BY <1>3 DEF Opened, user, world, TInv, TypeOK, HasCopy
<1>4. CASE Revoked(s) \/ EndEvent(s)
  <2>1. Close(s, TRUE) \/ Close(s, FALSE)
    BY <1>4 DEF Revoked, EndEvent
  <2>2. UNCHANGED <<user, links, unlinked, crashes, givenUp>> /\ losses' \in 0 .. MaxLosses
    BY <1>4 DEF Revoked, EndEvent, world, TInv, TypeOK
  <2> QED
    BY <2>1, <2>2, CloseTyped
<1>5. CASE Leave(s)
  <2>1. HasCopy' /\ stage' \in [Sockets -> Stages]
    BY <1>5 DEF Leave, TInv, TypeOK, HasCopy, Stages
  <2>2. clients' = {} /\ Cardinality(clients') <= 1 /\ auth' \in 0 .. links
    BY <1>5, OneClient, NoLink DEF Leave, TInv, TypeOK
  <2> QED
    BY <1>5, <2>1, <2>2 DEF Leave, user, world, TInv, TypeOK
<1> QED
  BY <1>1, <1>2, <1>3, <1>4, <1>5 DEF Event

LEMMA RequestTyped ==
    ASSUME TInv, \/ TimerFires \/ AddDevice \/ Boot
                 \/ \E p \in Polls : PollRead(p) \/ PollInit(p)
    PROVE  TInv'
<1>1. CASE TimerFires
  <2>1. initializing' \in BOOLEAN /\ stage' \in [Sockets -> Stages] /\ HasCopy'
    BY <1>1, InitSessionTyped DEF TimerFires, Alone
  <2> QED
    BY <1>1, <2>1 DEF TimerFires, Alone, user, world, TInv, TypeOK
<1>2. CASE AddDevice
  <2>1. initializing' \in BOOLEAN /\ stage' \in [Sockets -> Stages] /\ HasCopy'
    BY <1>2, InitSessionTyped DEF AddDevice, Alone
  <2>2. row' \in Device
    BY <1>2 DEF AddDevice, Device, Statuses
  <2> QED
    BY <1>2, <2>1, <2>2 DEF AddDevice, Alone, user, world, TInv, TypeOK
<1>3. CASE Boot
  <2>1. UNCHANGED <<clients, copy, encoding>>
    BY <1>3 DEF Boot, Alone
  <2>2. InitSession \/ UNCHANGED <<initializing, stage>>
    BY <1>3 DEF Boot
  <2>3. initializing' \in BOOLEAN /\ stage' \in [Sockets -> Stages] /\ HasCopy'
    BY <2>1, <2>2, InitSessionTyped DEF TInv, TypeOK, HasCopy
  <2>4. row' \in Device \cup {NoRow}
    BY <1>3 DEF Boot, TInv, TypeOK, Device, Statuses
  <2> QED
    BY <1>3, <2>3, <2>4 DEF Boot, Alone, world, TInv, TypeOK
<1>4. ASSUME NEW p \in Polls, PollRead(p) PROVE TInv'
  BY <1>4 DEF PollRead, memory, socket, world, TInv, TypeOK, HasCopy
<1>5. ASSUME NEW p \in Polls, PollInit(p) PROVE TInv'
  <2> DEFINE c == [poll[p] EXCEPT !.status = "INITIALIZING"]
  <2>1. c \in Copy
    BY <1>5 DEF PollInit, TInv, TypeOK, Device, Copy, Statuses
  <2>2. row' = Saved(c)
    BY <1>5 DEF PollInit
  <2> HIDE DEF c
  <2>3. row' \in Device
    BY <2>1, <2>2, SavedIsDevice DEF TInv
  <2>4. initializing' \in BOOLEAN /\ stage' \in [Sockets -> Stages] /\ HasCopy'
    BY <1>5, InitSessionTyped DEF PollInit, Alone
  <2> QED
    BY <1>5, <2>3, <2>4 DEF PollInit, Alone, world, TInv, TypeOK
<1> QED
  BY <1>1, <1>2, <1>3, <1>4, <1>5

\* What an error leaves behind.
LEMMA ErrorTyped ==
    ASSUME TInv, \/ \E s \in Sockets : Error(s)
                 \/ AddDeviceFails \/ DeletionFails \/ BootFails
                 \/ \E p \in Polls : PollInitFails(p)
    PROVE  TInv'
<1>1. errors' \in 0 .. MaxErrors
  BY FailsTyped DEF TInv, Error, CallThrows, SaveQRFails, OpenFails, LeaveFails, AddDeviceFails,
     DeletionFails, BootFails, PollInitFails
<1>2. row # NoRow => \A st \in Statuses : [row EXCEPT !.status = st] \in Device
  BY DEF TInv, TypeOK, Device
<1>3. ASSUME NEW s \in Sockets, CallThrows(s) PROVE TInv'
  <2>1. row' \in Device \cup {NoRow}
    BY <1>2, <1>3 DEF CallThrows, TInv, TypeOK, Statuses
  <2> QED
    BY <1>1, <1>3, <2>1 DEF CallThrows, memory, user, Alone, TInv, TypeOK, HasCopy, Stages
<1>4. ASSUME NEW s \in Sockets, SaveQRFails(s) PROVE TInv'
  BY <1>1, <1>4 DEF SaveQRFails, memory, user, TInv, TypeOK, HasCopy
<1>5. ASSUME NEW s \in Sockets, OpenFails(s) PROVE TInv'
  <2> DEFINE c == [status |-> "CONNECTED",
                   connectedAt |-> IF copy[s].connectedAt \in {0, Undefined} THEN links
                                   ELSE copy[s].connectedAt]
  <2>1. copy[s] \in Copy /\ links \in Nat
    BY <1>5, SessionAssumption DEF OpenFails, TInv, TypeOK, HasCopy
  <2>2. c \in Copy
    BY <2>1 DEF Copy, Statuses
  <2>3. copy' = [copy EXCEPT ![s] = c] /\ row' \in {row, Saved(copy'[s])}
    BY <1>5 DEF OpenFails
  <2> HIDE DEF c
  <2>4. /\ copy' \in [Sockets -> Copy \cup {NoRow}] /\ copy'[s] = c
        /\ row' \in Device \cup {NoRow}
    BY <2>2, <2>3, SavedIsDevice DEF TInv, TypeOK
  <2>5. HasCopy'
    BY <1>5, <2>2, <2>3, <2>4 DEF OpenFails, Alone, TInv, TypeOK, HasCopy
  <2> QED
    BY <1>1, <1>5, <2>4, <2>5 DEF OpenFails, memory, user, Alone, TInv, TypeOK, Stages
<1>6. ASSUME NEW s \in Sockets, LeaveFails(s) PROVE TInv'
  <2>1. HasCopy' /\ stage' \in [Sockets -> Stages]
    BY <1>6 DEF LeaveFails, Alone, TInv, TypeOK, HasCopy, Stages
  <2>2. clients' = {} /\ Cardinality(clients') <= 1
    BY <1>6, OneClient DEF LeaveFails
  <2> QED
    BY <1>1, <1>6, <2>1, <2>2 DEF LeaveFails, user, Alone, TInv, TypeOK
<1>7. CASE AddDeviceFails
  <2>1. row' \in Device
    BY <1>7 DEF AddDeviceFails, Device, Statuses
  <2> QED
    BY <1>1, <1>7, <2>1 DEF AddDeviceFails, memory, socket, user, TInv, TypeOK, HasCopy
<1>8. CASE DeletionFails
  <2>1. row' \in Device \cup {NoRow}
    BY <1>2, <1>8 DEF DeletionFails, TInv, TypeOK, Statuses
  <2> QED
    BY <1>1, <1>8, <2>1 DEF DeletionFails, memory, socket, TInv, TypeOK, HasCopy
<1>9. CASE BootFails
  BY <1>1, <1>9 DEF BootFails, memory, socket, TInv, TypeOK, HasCopy
<1>10. ASSUME NEW p \in Polls, PollInitFails(p) PROVE TInv'
  <2>1. initializing' \in BOOLEAN /\ stage' \in [Sockets -> Stages] /\ HasCopy'
    BY <1>10, InitSessionTyped DEF PollInitFails, Alone
  <2> QED
    BY <1>1, <1>10, <2>1 DEF PollInitFails, Alone, TInv, TypeOK
<1> QED
  BY <1>3, <1>4, <1>5, <1>6, <1>7, <1>8, <1>9, <1>10 DEF Error

LEMMA NextTyped == ASSUME TInv, [Next]_vars PROVE TInv'
<1>1. ASSUME NEW s \in Sockets, OfferQR(s) PROVE TInv'
  BY <1>1 DEF OfferQR, memory, user, world, TInv, TypeOK, HasCopy
<1>2. ASSUME NEW s \in Sockets, Link(s) PROVE TInv'
  <2>1. links' = links + 1 /\ links' \in 0 .. MaxLinks /\ 0 .. links \subseteq 0 .. links' /\ links' \in 0 .. links'
        /\ 1 .. links \subseteq 1 .. links'
    BY <1>2, SessionAssumption DEF Link, TInv, TypeOK
  <2>2. creds' \in [Sockets -> 0 .. links'] /\ auth' \in 0 .. links' /\ unlinked' \subseteq 1 .. links'
    BY <1>2, <2>1 DEF Link, TInv, TypeOK
  <2>3. stage' \in [Sockets -> Stages] /\ HasCopy'
    BY <1>2 DEF Link, TInv, TypeOK, HasCopy, Stages
  <2> QED
    BY <1>2, <2>1, <2>2, <2>3 DEF Link, memory, user, TInv, TypeOK
<1>3. ASSUME NEW s \in Sockets, Lose(s) PROVE TInv'
  <2>1. losses' \in 0 .. MaxLosses
    BY <1>3, SessionAssumption DEF Lose, TInv, TypeOK
  <2> QED
    BY <1>3, <2>1, CloseTyped DEF Lose
<1>4. CASE CloseSession
  BY <1>4, OneClient DEF CloseSession, world, TInv, TypeOK, HasCopy, Stages, Live
<1>5. CASE CloseDevice
  <2>1. [status |-> "DISCONNECTED", connectedAt |-> Undefined] \in Copy
    BY DEF Copy, Statuses
  <2>2. row' \in Device \cup {NoRow}
    BY <1>5, <2>1, SavedIsDevice DEF CloseDevice, TInv
  <2> QED
    BY <1>5, <2>2 DEF CloseDevice, memory, socket, world, TInv, TypeOK, HasCopy
<1>6. CASE RemoveFiles \/ DeleteDevice
  BY <1>6, NoLink DEF RemoveFiles, DeleteDevice, memory, socket, world, TInv, TypeOK, HasCopy
<1>7. CASE Unlink
  BY <1>7 DEF Unlink, memory, socket, user, TInv, TypeOK, HasCopy
<1>8. CASE Crash
  <2>1. crashes' \in 0 .. MaxCrashes
    BY <1>8, SessionAssumption DEF Crash, TInv, TypeOK
  <2> QED
    BY <1>8, <2>1, OneClient DEF Crash, TInv, TypeOK, HasCopy, Stages
<1>9. CASE UNCHANGED vars
  BY <1>9 DEF vars, TInv, TypeOK, HasCopy
<1> QED
  BY <1>1, <1>2, <1>3, <1>4, <1>5, <1>6, <1>7, <1>8, <1>9, CallTyped, EventTyped, RequestTyped,
     ErrorTyped DEF Next

LEMMA InitTyped == Init => TInv
<1> SUFFICES ASSUME Init PROVE TInv
  OBVIOUS
<1>1. 0 \in 0 .. 0 /\ 0 \in 0 .. MaxLinks /\ 0 \in 0 .. MaxLosses /\ 0 \in 0 .. MaxCrashes
      /\ 0 \in 0 .. MaxErrors
  BY SessionAssumption
<1> QED
  BY <1>1, OneClient DEF Init, TInv, TypeOK, HasCopy, Stages

\* Whatever happens to the device, and however late the database answers, there is at most one
\* client, a row is saved with all its fields, and what is read as a copy is one.
THEOREM SessionTyped == Spec => []TypeOK
<1>1. TInv => TypeOK
  BY DEF TInv
<1> QED
  BY <1>1, InitTyped, NextTyped, PTL DEF Spec

-----------------------------------------------------------------------------
(* The status *)

Connected == row # NoRow /\ row.status = "CONNECTED"

\* After a crash nothing is under way until initializeAllSessions has run.
Asleep == ~booted => /\ \A s \in Sockets : stage[s] = "free"
                     /\ encoding = {} /\ opening = {} /\ \A p \in Polls : poll[p] = NoRow
                     /\ clients = {} /\ ~initializing /\ timers = 0

\* A QR code is encoded for a socket that nobody has linked yet ...
EncodingIsNew == \A s \in encoding : stage[s] \in {"connecting", "scanning"}

\* ... and a request for one goes on only while the device is not connected.
PollingIsClosed == (\E p \in Polls : poll[p] # NoRow) => \A s \in Sockets : stage[s] # "open"

\* Who finds the lock taken or a client, finds a call or a socket, or what an error left.
LockHasOwner == initializing \/ clients # {} =>
    givenUp \/ Stranded \/ \E s \in Sockets : stage[s] # "free"

\* A device whose socket comes online is not shown as disconnected: nobody asks for its code.
InUse == {"loading", "fetching", "connecting", "scanning", "restarting", "open"}

InUseIsShown == \A s \in Sockets : stage[s] \in InUse => row # NoRow /\ row.status # "DISCONNECTED"

\* A socket that is not open yet has the lock.
LockIsKept == \A s \in Sockets : stage[s] \in {"connecting", "scanning"} => initializing

OpenIsConnected == \A s \in Sockets : stage[s] = "open" /\ ~Unsaved(s) => Connected

ConnectedIsOpen == Connected =>
    /\ \A t \in Sockets : stage[t] \in {"free", "reading", "open"}
    /\ booted => \/ timers > 0
                 \/ \E s \in Sockets : stage[s] \in {"open", "reading"}
                 \/ givenUp
                 \/ Stranded

Truth == /\ Asleep /\ EncodingIsNew /\ PollingIsClosed /\ LockHasOwner /\ InUseIsShown
         /\ LockIsKept /\ OpenIsConnected /\ ConnectedIsOpen

SInv == TInv /\ IInv /\ (~MayStall /\ deletion = "unasked" => Truth)

\* A step of the device before its deletion.
Told == SInv /\ TInv' /\ Apart /\ Truth /\ ~MayStall

LEMMA PlacesTyped == ASSUME TInv PROVE Places
BY DEF TInv, TypeOK, Places

\* A socket that moves is the only one there is.
LEMMA OnlyOne ==
    ASSUME Told, NEW s \in Sockets, stage[s] # "free"
    PROVE  \A t \in Sockets \ {s} : stage[t] = "free"
BY DEF Told, Apart, NoOther

\* The only socket moves to another stage; the row is connected if and only if the socket is
\* open, unless the save of `open' failed.
LEMMA OnlyMoves ==
    ASSUME Told, NEW s \in Sockets, NEW to \in Stages \ {"free", "reading"}, stage[s] # "free",
           stage' = [stage EXCEPT ![s] = to], UNCHANGED <<booted, poll>>,
           to = "open" => \A p \in Polls : poll[p] = NoRow,
           Connected' => to = "open",
           to = "open" => Connected' \/ (initializing' /\ s \notin opening'),
           to \in {"connecting", "scanning"} => initializing',
           to \in InUse => row' # NoRow /\ row'.status # "DISCONNECTED",
           encoding' \subseteq encoding \cup {s},
           s \in encoding' => to \in {"connecting", "scanning"}
    PROVE  Truth'
<1>1. booted /\ booted' /\ \A t \in Sockets \ {s} : stage[t] = "free"
  BY OnlyOne DEF Told, Truth, Asleep
<1>2. stage'[s] = to /\ \A t \in Sockets \ {s} : stage'[t] = "free"
  BY <1>1, PlacesTyped DEF Told, SInv, Places
<1>3. encoding \subseteq {s}
  BY <1>1 DEF Told, Truth, EncodingIsNew, SInv, TInv, TypeOK
<1>4. Asleep' /\ EncodingIsNew'
  BY <1>1, <1>2, <1>3 DEF Asleep, EncodingIsNew
<1>5. PollingIsClosed' /\ LockHasOwner'
  BY <1>2 DEF PollingIsClosed, LockHasOwner
<1>6. OpenIsConnected'
  BY <1>2 DEF OpenIsConnected, Unsaved
<1>8. InUseIsShown'
  BY <1>2 DEF InUseIsShown, InUse
<1>9. LockIsKept'
  BY <1>2 DEF LockIsKept
<1>7. ConnectedIsOpen'
  BY <1>1, <1>2 DEF ConnectedIsOpen
<1> QED
  BY <1>4, <1>5, <1>6, <1>7, <1>8, <1>9 DEF Truth

\* The only socket goes. The lock or a client is left behind, or the row connected without a
\* timer, by an error only.
LEMMA OnlyGoes ==
    ASSUME Told, NEW s \in Sockets, stage[s] # "free", s \notin encoding,
           stage' = [stage EXCEPT ![s] = "free"], UNCHANGED <<booted, poll, encoding>>,
           initializing' \/ clients' # {} => givenUp' \/ s \in clients',
           Connected' => timers' > 0 \/ givenUp' \/ s \in clients'
    PROVE  Truth'
<1>1. booted /\ booted' /\ \A t \in Sockets \ {s} : stage[t] = "free"
  BY OnlyOne DEF Told, Truth, Asleep
<1>2. \A t \in Sockets : stage'[t] = "free"
  BY <1>1, PlacesTyped DEF Told, SInv, Places
<1>3. encoding = {}
  BY <1>1 DEF Told, Truth, EncodingIsNew, SInv, TInv, TypeOK
<1>4. s \in clients' => Stranded'
  BY <1>2 DEF Stranded
<1> QED
  BY <1>1, <1>2, <1>3, <1>4
  DEF Truth, Asleep, EncodingIsNew, PollingIsClosed, LockHasOwner, InUseIsShown, InUse,
      LockIsKept, OpenIsConnected, ConnectedIsOpen

\* initSession is called: by a timer, a request or at the start.
LEMMA InitSessionTold ==
    ASSUME Told, InitSession, UNCHANGED <<clients, encoding, opening, givenUp>>, booted',
           \A p \in Polls : poll'[p] = NoRow \/ poll'[p] = poll[p],
           Connected' => Connected,
           (\E s \in Sockets : stage[s] = "open") /\ Connected => Connected',
           (\E s \in Sockets : stage[s] \in InUse) => row' # NoRow /\ row'.status # "DISCONNECTED"
    PROVE  Truth'
<1>1. CASE clients # {} \/ initializing
  <2>1. UNCHANGED <<initializing, stage>>
    BY <1>1 DEF InitSession
  <2>2. givenUp \/ Stranded \/ \E s \in Sockets : stage[s] # "free"
    BY <1>1 DEF Told, Truth, LockHasOwner
  <2>3. ConnectedIsOpen'
    BY <2>1, <2>2 DEF Told, Truth, ConnectedIsOpen, Stranded
  <2>4. OpenIsConnected' /\ InUseIsShown' /\ LockIsKept'
    BY <2>1 DEF Told, Truth, OpenIsConnected, Unsaved, InUseIsShown, LockIsKept
  <2> QED
    BY <2>1, <2>3, <2>4 DEF Told, Truth, Asleep, EncodingIsNew, PollingIsClosed, LockHasOwner, Stranded
<1>2. CASE ~(clients # {} \/ initializing)
  <2>1. PICK s \in Free : initializing' = TRUE /\ stage' = [stage EXCEPT ![s] = "reading"]
    BY <1>2 DEF InitSession
  <2>2. \A t \in Sockets : stage[t] = "free"
    BY <1>2 DEF Told, Apart, Locked, IsClient
  <2>3. s \in Sockets /\ stage'[s] = "reading" /\ \A t \in Sockets \ {s} : stage'[t] = "free"
    BY <2>1, <2>2, PlacesTyped DEF Free, Told, SInv, Places
  <2>4. encoding = {}
    BY <2>2 DEF Told, Truth, EncodingIsNew, SInv, TInv, TypeOK
  <2> QED
    BY <2>3, <2>4
    DEF Truth, Asleep, EncodingIsNew, PollingIsClosed, LockHasOwner, InUseIsShown, InUse,
        LockIsKept, OpenIsConnected, ConnectedIsOpen
<1> QED
  BY <1>1, <1>2

LEMMA SavedIsRow == ASSUME TypeOK, NEW c \in Copy PROVE Saved(c) # NoRow
BY SavedIsDevice, NoRowAssumption

LEMMA SavedStatus == ASSUME NEW c PROVE Saved(c).status = c.status
BY DEF Saved

LEMMA CallTold == ASSUME Told, NEW s \in Sockets, Call(s) PROVE Truth'
<1>1. stage[s] \in Initing /\ UNCHANGED <<booted, poll, encoding>>
  BY DEF Call, ReadDevice, LoadCreds, MakeSocket, Alone, Initing, user
<1>2. stage[s] # "free" /\ s \notin encoding
  BY <1>1 DEF Initing, Told, Truth, EncodingIsNew
<1>3. CASE ReadDevice(s) /\ row = NoRow
  <2>1. clients = {} /\ UNCHANGED clients /\ ~initializing' /\ stage' = [stage EXCEPT ![s] = "free"] /\ ~Connected'
    BY <1>1, <1>3 DEF ReadDevice, Told, Apart, Locked, Connected
  <2> QED
    BY <1>1, <1>2, <2>1, OnlyGoes
<1>4. CASE ReadDevice(s) /\ row # NoRow
  <2> DEFINE c == [row EXCEPT !.status = "INITIALIZING"]
  <2>1. c.status = "INITIALIZING"
    BY <1>4 DEF Told, SInv, TInv, TypeOK, Device
  <2> HIDE DEF c
  <2>2. copy'[s] = c /\ row' = Saved(copy'[s])
    BY <1>4 DEF ReadDevice, c, Told, SInv, TInv, TypeOK
  <2>3. row'.status = "INITIALIZING" /\ ~Connected'
    BY <2>1, <2>2, SavedStatus DEF Connected
  <2>4. row' # NoRow
    <3>1. c \in Copy
      BY <1>4 DEF c, Told, SInv, TInv, TypeOK, Device, Copy, Statuses
    <3> QED
      BY <2>2, <3>1, SavedIsRow DEF Told, SInv, TInv
  <2> QED
    BY <1>1, <1>2, <1>4, <2>3, <2>4, OnlyMoves DEF ReadDevice, Stages
<1>5. CASE LoadCreds(s) \/ MakeSocket(s)
  <2>1. stage[s] \in {"loading", "fetching"} /\ UNCHANGED row
    BY <1>5 DEF LoadCreds, MakeSocket
  <2>2. ~Connected'
    BY <2>1 DEF Told, Truth, ConnectedIsOpen, Connected
  <2>3. row' # NoRow /\ row'.status # "DISCONNECTED"
    BY <2>1 DEF Told, Truth, InUseIsShown, InUse
  <2>4. initializing'
    BY <1>1, <1>5 DEF LoadCreds, MakeSocket, Alone, memory, Told, Apart, Locked
  <2> QED
    BY <1>1, <1>2, <1>5, <2>2, <2>3, <2>4, OnlyMoves DEF LoadCreds, MakeSocket, Stages
<1> QED
  BY <1>3, <1>4, <1>5 DEF Call

LEMMA CloseTold ==
    ASSUME Told, NEW s \in Sockets, NEW shouldReconnect, Settled, Close(s, shouldReconnect),
           stage[s] \notin Initing \cup {"free"}, UNCHANGED <<booted, poll>>
    PROVE  Truth'
<1>1. encoding = {} /\ UNCHANGED encoding
  BY DEF Told, Settled, Close
<1>2. CASE Reconnect(s)
  <2>1. timers' > 0
    BY <1>2 DEF Reconnect, Told, SInv, TInv, TypeOK
  <2> QED
    BY <1>1, <1>2, <2>1, OnlyGoes DEF Reconnect
<1>3. CASE LogOut(s)
  <2>1. copy'[s].status = "DISCONNECTED" /\ row' = Saved(copy'[s])
    BY <1>3 DEF LogOut, Told, SInv, TInv, TypeOK
  <2>2. ~Connected'
    BY <2>1, SavedStatus DEF Connected
  <2>3. "leaving" \in Stages \ {"free", "reading"} /\ encoding' = {}
    BY <1>1 DEF Stages
  <2> QED
    BY <1>3, <2>2, <2>3, OnlyMoves DEF LogOut, InUse
<1>4. CASE LogOutFails(s)
  <2>1. clients' = {s}
    BY <1>4 DEF LogOutFails, Told, Apart, IsClient
  <2> QED
    BY <1>1, <1>4, <2>1, OnlyGoes DEF LogOutFails
<1> QED
  BY <1>2, <1>3, <1>4 DEF Close

LEMMA EventTold == ASSUME Told, NEW s \in Sockets, Event(s) \/ Link(s) \/ Lose(s) PROVE Truth'
<1>1. CASE Revoked(s) \/ EndEvent(s) \/ Lose(s)
  <2>1. stage[s] \notin Initing \cup {"free"} /\ Settled /\ UNCHANGED <<booted, poll>>
    BY <1>1 DEF Revoked, EndEvent, Lose, Live, user, Initing
  <2>2. Close(s, TRUE) \/ Close(s, FALSE)
    BY <1>1 DEF Revoked, EndEvent, Lose
  <2> QED
    BY <2>1, <2>2, CloseTold
<1>2. CASE Open(s)
  <2>1. encoding = {} /\ \A p \in Polls : poll[p] = NoRow
    BY <1>2 DEF Open, Settled, Told
  <2>2. copy'[s].status = "CONNECTED" /\ row' = Saved(copy'[s])
    BY <1>2 DEF Open, Told, SInv, TInv, TypeOK
  <2>3. row' \in Device
    <3>1. copy'[s] \in Copy /\ TypeOK
      BY <1>2, PlacesTyped DEF Open, Told, SInv, TInv, HasCopy, TypeOK
    <3> QED
      BY <2>2, <3>1, SavedIsDevice
  <2>4. Connected' /\ row'.status # "DISCONNECTED"
    BY <2>2, <2>3, SavedStatus, NoRowAssumption DEF Connected
  <2> QED
    BY <1>2, <2>1, <2>4, OnlyMoves DEF Open, Stages, user, Connected
<1>3. CASE Link(s)
  <2>1. encoding = {} /\ ~Connected'
    BY <1>3 DEF Link, Settled, Told, Truth, ConnectedIsOpen, Connected
  <2>2. "restarting" \in Stages \ {"free", "reading"} /\ encoding' = {} /\ UNCHANGED <<booted, poll>>
    BY <1>3, <2>1 DEF Link, Stages, user
  <2>3. row' # NoRow /\ row'.status # "DISCONNECTED"
    BY <1>3 DEF Link, Told, Truth, InUseIsShown, InUse
  <2> QED
    BY <1>3, <2>1, <2>2, <2>3, OnlyMoves DEF Link
<1>4. CASE Opened(s)
  <2>1. /\ stage[s] = "open" /\ s \in opening
        /\ UNCHANGED <<row, booted, poll, encoding, clients, stage, timers, givenUp>>
    BY <1>4 DEF Opened, Told, Apart, OpeningIsOpen, user, world
  <2>2. Connected /\ \A t \in Sockets \ {s} : stage[t] = "free"
    BY <2>1, OnlyOne DEF Told, Truth, OpenIsConnected, Unsaved
  <2>3. LockIsKept' /\ OpenIsConnected' /\ ConnectedIsOpen'
    BY <2>1, <2>2 DEF Told, Truth, LockIsKept, OpenIsConnected, ConnectedIsOpen, Connected
  <2>4. booted' /\ LockHasOwner'
    BY <2>1 DEF Told, Truth, Asleep, LockHasOwner
  <2>5. Asleep' /\ EncodingIsNew' /\ PollingIsClosed'
    BY <2>1, <2>4 DEF Told, Truth, Asleep, EncodingIsNew, PollingIsClosed
  <2>6. InUseIsShown'
    BY <2>1 DEF Told, Truth, InUseIsShown
  <2> QED
    BY <2>3, <2>4, <2>5, <2>6 DEF Truth
<1>5. CASE Leave(s)
  <2>1. stage[s] = "leaving" /\ UNCHANGED <<row, booted, poll, encoding>>
    BY <1>5 DEF Leave, user
  <2>2. ~Connected' /\ s \notin encoding
    BY <2>1 DEF Told, Truth, ConnectedIsOpen, EncodingIsNew, Connected
  <2>3. clients' = {} /\ ~initializing' /\ stage' = [stage EXCEPT ![s] = "free"] /\ ~Connected'
    BY <1>5, <2>1, <2>2 DEF Leave, Connected
  <2> QED
    BY <2>1, <2>2, <2>3, OnlyGoes
<1>6. CASE SaveQR(s)
  <2>1. s \in encoding /\ stage[s] \in {"connecting", "scanning"} /\ copy[s] \in Copy
    BY <1>6 DEF SaveQR, Told, Truth, EncodingIsNew, SInv, TInv, HasCopy
  <2>2. copy'[s].status = "QR" /\ row' = Saved(copy'[s])
    BY <1>6, <2>1 DEF SaveQR, Copy, Told, SInv, TInv, TypeOK
  <2>3. row'.status = "QR" /\ ~Connected'
    BY <2>2, SavedStatus DEF Connected
  <2>4. stage' = [stage EXCEPT ![s] = "scanning"]
    BY <1>6, <2>1 DEF SaveQR
  <2>5. row' # NoRow
    <3>1. copy'[s] \in Copy
      BY <1>6, <2>1 DEF SaveQR, Copy, Statuses, Told, SInv, TInv, TypeOK
    <3> QED
      BY <2>2, <3>1, SavedIsRow DEF Told, SInv, TInv
  <2>6. initializing'
    BY <1>6, <2>1 DEF SaveQR, memory, Told, Truth, LockIsKept
  <2> QED
    BY <1>6, <2>1, <2>3, <2>4, <2>5, <2>6, OnlyMoves DEF SaveQR, Stages, user
<1> QED
  BY <1>1, <1>2, <1>3, <1>4, <1>5, <1>6 DEF Event

\* An error leaves a status that tells the truth, or one of its traces.
LEMMA ErrorTold == ASSUME Told, NEW s \in Sockets, Error(s) PROVE Truth'
<1>1. CASE CallThrows(s)
  <2>1. /\ stage[s] \in {"reading", "loading"} /\ givenUp'
        /\ stage' = [stage EXCEPT ![s] = "free"] /\ UNCHANGED <<booted, poll, encoding>>
    BY <1>1 DEF CallThrows, Alone, user
  <2>2. s \notin encoding
    BY <2>1 DEF Told, Truth, EncodingIsNew
  <2> QED
    BY <2>1, <2>2, OnlyGoes
<1>2. CASE SaveQRFails(s)
  <2>1. /\ encoding' \subseteq encoding
        /\ UNCHANGED <<row, booted, poll, stage, opening, clients, initializing, timers, givenUp>>
    BY <1>2 DEF SaveQRFails, memory, user
  <2> QED
    BY <2>1, <1>2 DEF SaveQRFails, Connected, Stranded, Unsaved, Told, Truth, Asleep, EncodingIsNew,
       PollingIsClosed, LockHasOwner, InUseIsShown, LockIsKept, OpenIsConnected, ConnectedIsOpen
<1>3. CASE OpenFails(s)
  <2>1. /\ stage[s] = "connecting" /\ stage' = [stage EXCEPT ![s] = "open"]
        /\ UNCHANGED <<booted, poll, encoding, initializing, opening>>
        /\ encoding = {} /\ opening = {} /\ \A p \in Polls : poll[p] = NoRow
    BY <1>3 DEF OpenFails, Alone, memory, user, Settled, Told
  <2>2. row' \in {row, Saved(copy'[s])} /\ copy'[s] \in Copy /\ copy'[s].status = "CONNECTED"
    BY <1>3, PlacesTyped DEF OpenFails, Told, SInv, TInv, TypeOK, HasCopy
  <2>3. row' # NoRow /\ row'.status # "DISCONNECTED"
    <3>1. CASE row' = row
      BY <2>1, <3>1 DEF Told, Truth, InUseIsShown, InUse
    <3>2. CASE row' = Saved(copy'[s])
      BY <2>2, <3>2, SavedIsRow, SavedStatus DEF Told, SInv, TInv
    <3> QED
      BY <2>2, <3>1, <3>2
  <2>4. initializing
    BY <2>1 DEF Told, Truth, LockIsKept
  <2> QED
    BY <2>1, <2>3, <2>4, OnlyMoves DEF Stages
<1>4. CASE LeaveFails(s)
  <2>1. /\ stage[s] = "leaving" /\ UNCHANGED <<row, booted, poll, encoding>>
        /\ clients' = {} /\ ~initializing' /\ stage' = [stage EXCEPT ![s] = "free"]
    BY <1>4 DEF LeaveFails, user, Alone
  <2>2. ~Connected' /\ s \notin encoding
    BY <2>1 DEF Told, Truth, ConnectedIsOpen, EncodingIsNew, Connected
  <2> QED
    BY <2>1, <2>2, OnlyGoes
<1> QED
  BY <1>1, <1>2, <1>3, <1>4 DEF Error

LEMMA RequestTold ==
    ASSUME Told, \/ TimerFires \/ AddDevice \/ AddDeviceFails \/ Boot \/ BootFails
                 \/ \E p \in Polls : PollRead(p) \/ PollInit(p) \/ PollInitFails(p)
    PROVE  Truth'
<1>0. (\E s \in Sockets : stage[s] \in InUse) => row # NoRow /\ row.status # "DISCONNECTED"
  BY DEF Told, Truth, InUseIsShown
<1>1. CASE TimerFires
  <2>1. booted /\ UNCHANGED <<booted, row, poll, clients, encoding, opening, givenUp>>
    BY <1>1 DEF TimerFires, Alone, user, world, Told, Truth, Asleep
  <2> QED
    BY <1>0, <1>1, <2>1, InitSessionTold DEF TimerFires, Connected
<1>2. CASE AddDevice
  <2>1. /\ booted /\ UNCHANGED <<booted, poll, clients, encoding, opening, givenUp>>
        /\ ~Connected /\ ~Connected'
    BY <1>2 DEF AddDevice, Alone, user, world, Connected
  <2> QED
    BY <1>0, <1>2, <2>1, InitSessionTold DEF AddDevice
<1>3. CASE AddDeviceFails
  <2>1. /\ booted /\ row = NoRow /\ ~Connected'
        /\ UNCHANGED <<booted, poll, stage, encoding, opening, clients, initializing, timers, givenUp>>
    BY <1>3 DEF AddDeviceFails, socket, memory, user, Connected
  <2>2. \A s \in Sockets : stage[s] \notin InUse
    BY <1>0, <2>1
  <2> QED
    BY <2>1, <2>2 DEF InUse, Stranded, Told, Truth, Asleep, EncodingIsNew, PollingIsClosed,
       LockHasOwner, InUseIsShown, LockIsKept, OpenIsConnected, ConnectedIsOpen
<1>4. CASE Boot \/ BootFails
  <2>1. ~booted /\ booted' /\ UNCHANGED <<poll, clients, encoding, opening, timers>>
    BY <1>4 DEF Boot, BootFails, Alone, socket, memory
  <2>2. /\ \A s \in Sockets : stage[s] = "free"
        /\ encoding = {} /\ \A p \in Polls : poll[p] = NoRow
        /\ clients = {} /\ ~initializing
    BY <2>1 DEF Told, Truth, Asleep
  <2>3. CASE Boot /\ Connected
    <3>1. InitSession /\ UNCHANGED <<row, givenUp>>
      BY <2>3 DEF Boot, Connected, world
    <3> QED
      BY <1>0, <2>1, <2>2, <2>3, <3>1, InitSessionTold DEF Connected
  <2>4. CASE (Boot /\ ~Connected) \/ BootFails
    <3>1. UNCHANGED <<initializing, stage>> /\ (Connected' => givenUp')
      BY <2>4 DEF Boot, BootFails, socket, memory, Connected, Told, SInv, TInv, TypeOK, Device
    <3> QED
      BY <2>1, <2>2, <3>1
      DEF Truth, Asleep, EncodingIsNew, PollingIsClosed, LockHasOwner, InUseIsShown, InUse,
          LockIsKept, OpenIsConnected, ConnectedIsOpen
  <2> QED
    BY <1>4, <2>3, <2>4
<1>5. ASSUME NEW p \in Polls, PollRead(p) PROVE Truth'
  <2>1. /\ booted /\ ~Connected /\ row # NoRow /\ row.status = "DISCONNECTED"
        /\ UNCHANGED <<row, booted, stage, encoding, opening, clients, initializing, timers, givenUp>>
    BY <1>5 DEF PollRead, Connected, socket, memory, world
  <2>2. \A s \in Sockets : stage[s] # "open"
    BY <1>0, <2>1 DEF InUse
  <2> QED
    BY <2>1, <2>2 DEF Connected, Stranded, Told, Truth, Asleep, EncodingIsNew, PollingIsClosed,
       LockHasOwner, InUseIsShown, LockIsKept, OpenIsConnected, ConnectedIsOpen
<1>6. ASSUME NEW p \in Polls, PollInit(p) \/ PollInitFails(p) PROVE Truth'
  <2>1. /\ booted /\ \A s \in Sockets : stage[s] # "open"
    BY <1>6 DEF PollInit, PollInitFails, Told, Truth, Asleep, PollingIsClosed
  <2>2. /\ UNCHANGED <<booted, clients, encoding, opening, givenUp>>
        /\ \A q \in Polls : poll'[q] = NoRow \/ poll'[q] = poll[q]
    BY <1>6 DEF PollInit, PollInitFails, Alone, world, Told, SInv, TInv, TypeOK
  <2>3. CASE PollInit(p)
    <3> DEFINE c == [poll[p] EXCEPT !.status = "INITIALIZING"]
    <3>1. c.status = "INITIALIZING" /\ c \in Copy
      BY <2>3 DEF PollInit, Told, SInv, TInv, TypeOK, Device, Copy, Statuses
    <3> HIDE DEF c
    <3>2. row' = Saved(c)
      BY <2>3 DEF PollInit, c
    <3>3. row'.status = "INITIALIZING" /\ row' # NoRow
      BY <3>1, <3>2, SavedStatus, SavedIsRow DEF Told, SInv, TInv
    <3> QED
      BY <2>1, <2>2, <2>3, <3>3, InitSessionTold DEF PollInit, Connected
  <2>4. CASE PollInitFails(p)
    BY <1>0, <2>1, <2>2, <2>4, InitSessionTold DEF PollInitFails, Connected
  <2> QED
    BY <1>6, <2>3, <2>4
<1> QED
  BY <1>1, <1>2, <1>3, <1>4, <1>5, <1>6

LEMMA NextSInv == ASSUME SInv, [Next]_vars PROVE SInv'
<1>1. TInv' /\ IInv'
  BY NextTyped, NextIInv DEF SInv
<1>2. SUFFICES ASSUME ~MayStall, deletion' = "unasked" PROVE Truth'
  BY <1>1 DEF SInv
<1>3. CASE Crash
  <2>1. /\ \A s \in Sockets : stage'[s] = "free"
        /\ encoding' = {} /\ opening' = {} /\ \A p \in Polls : poll'[p] = NoRow
        /\ clients' = {} /\ ~initializing' /\ timers' = 0 /\ ~booted'
    BY <1>3 DEF Crash
  <2> QED
    BY <2>1
    DEF Truth, Asleep, EncodingIsNew, PollingIsClosed, LockHasOwner, InUseIsShown, InUse,
        LockIsKept, OpenIsConnected, ConnectedIsOpen
<1>4. CASE CloseSession \/ CloseDevice \/ RemoveFiles \/ DeleteDevice \/ DeletionFails
  BY <1>2, <1>4 DEF CloseSession, CloseDevice, RemoveFiles, DeleteDevice, DeletionFails
<1>5. ASSUME deletion = "unasked" PROVE Told
  BY <1>1, <1>2, <1>5 DEF Told, SInv, IInv
<1>6. ASSUME NEW s \in Sockets, Call(s) \/ Event(s) \/ Link(s) \/ Lose(s) \/ Error(s) PROVE Truth'
  <2>1. deletion = "unasked"
    BY <1>2, <1>6 DEF Call, Event, Link, Lose, ReadDevice, LoadCreds, MakeSocket, SaveQR, Open,
       Opened, Revoked, EndEvent, Leave, Error, CallThrows, SaveQRFails, OpenFails, LeaveFails, user
  <2> QED
    BY <1>5, <1>6, <2>1, CallTold, EventTold, ErrorTold
<1>7. CASE \/ TimerFires \/ AddDevice \/ AddDeviceFails \/ Boot \/ BootFails
           \/ \E p \in Polls : PollRead(p) \/ PollInit(p) \/ PollInitFails(p)
  <2>1. deletion = "unasked"
    BY <1>2, <1>7 DEF TimerFires, AddDevice, AddDeviceFails, Boot, BootFails, PollRead, PollInit,
       PollInitFails, user
  <2> QED
    BY <1>5, <1>7, <2>1, RequestTold
<1>8. ASSUME NEW s \in Sockets, OfferQR(s) PROVE Truth'
  <2>1. /\ stage[s] \in {"connecting", "scanning"} /\ encoding' = encoding \cup {s}
        /\ UNCHANGED <<row, deletion, booted, poll, stage, opening, clients, initializing, timers,
                       givenUp>>
    BY <1>8 DEF OfferQR, memory, user, world
  <2>2. Truth
    BY <1>2, <1>5, <2>1 DEF Told
  <2>3. booted
    BY <2>1, <2>2 DEF Truth, Asleep
  <2> QED
    BY <2>1, <2>2, <2>3 DEF Connected, Stranded, Unsaved, Truth, Asleep, EncodingIsNew,
       PollingIsClosed, LockHasOwner, InUseIsShown, LockIsKept, OpenIsConnected, ConnectedIsOpen
<1>9. CASE Unlink \/ UNCHANGED vars
  <2>1. UNCHANGED <<row, deletion, booted, poll, stage, encoding, opening, clients, initializing, timers,
                 givenUp>>
    BY <1>9 DEF Unlink, memory, socket, user, vars
  <2>2. Truth
    BY <1>2, <1>5, <2>1 DEF Told
  <2> QED
    BY <2>1, <2>2 DEF Connected, Stranded, Unsaved, Truth, Asleep, EncodingIsNew, PollingIsClosed,
       LockHasOwner, InUseIsShown, LockIsKept, OpenIsConnected, ConnectedIsOpen
<1> QED
  BY <1>3, <1>4, <1>6, <1>7, <1>8, <1>9 DEF Next

\* As long as the database answers before the next event of WhatsApp and until the device is
\* deleted, the campaigns may believe its status: a device whose socket is open is CONNECTED, and
\* a CONNECTED one is online or about to be, through every QR code, loss, logout and crash and
\* any number of failed calls, but for the saves and the throws that StatusIsTrue names.
THEOREM StatusTells == Spec => [](~MayStall => StatusIsTrue)
<1>1. Init => SInv
  <2> SUFFICES ASSUME Init PROVE SInv
    OBVIOUS
  <2>1. IInv
    BY DEF Init, IInv, Places, Stages, Apart, NoOther, Locked, IsClient, OpeningIsOpen, Initing
  <2> QED
    BY <2>1, InitTyped DEF Init, SInv, Truth, Asleep, EncodingIsNew, PollingIsClosed, LockHasOwner,
       InUseIsShown, InUse, LockIsKept, OpenIsConnected, ConnectedIsOpen, Connected
<1>2. SInv => (~MayStall => StatusIsTrue)
  BY DEF SInv, Truth, LockIsKept, OpenIsConnected, ConnectedIsOpen, Connected, StatusIsTrue
<1> QED
  BY <1>1, <1>2, NextSInv, PTL DEF Spec
=============================================================================
