--------------------------- MODULE WhatsAppSession ---------------------------
(***************************************************************************)
(* The session of one WhatsApp device: initSession, the connection events  *)
(* of its sockets, the reconnection timers, closeSession and the requests  *)
(* that call them. All maps of WhatsAppSessionManager are keyed by device, *)
(* so one device shows everything.                                         *)
(*                                                                         *)
(* A call of initSession and the socket it makes are one thing here, with  *)
(* an id that is free again when both are over. Each holds its own copy of *)
(* the device row, as it was when initSession read it. An action is the    *)
(* code from one await to the next and a database call takes effect when   *)
(* it is made; save() leaves out the fields of a copy that are undefined   *)
(* and inserts a row that is not there.                                    *)
(*                                                                         *)
(* Time is counted in links: connectedAt is the number of links there were *)
(* by then, null is 0. The phone, the network and the user are the         *)
(* environment, and so is Baileys: it ends a socket whose credentials were *)
(* revoked with loggedOut and a socket that was just linked with           *)
(* restartRequired, and the close event follows end() at some later time.  *)
(*                                                                         *)
(* A call of the database or of the file system may fail. Nothing is tried *)
(* again, and most errors end what they happen in: the section Errors and  *)
(* LogOutFails say what each leaves behind. A save that fails may still    *)
(* have reached the row.                                                   *)
(***************************************************************************)
EXTENDS Naturals, FiniteSets

CONSTANTS Sockets,     \* how many calls of initSession and sockets exist at a time
          Polls,       \* bound: the requests for the QR code at a time
          NoRow,       \* no row in the table, or no copy of one
          Undefined,   \* a field of a copy that save() leaves out
          MaxLinks,    \* bound: how often the user scans a code
          MaxUnlinks,  \* bound: how often the user removes the device on the phone
          MaxLosses,   \* bound: how often a connection is lost
          MaxCrashes,  \* bound: how often the server crashes
          MaxErrors,   \* bound: how often a call of the database or the files fails
          MayDelete,   \* is the device deleted?
          MayStall     \* may a database call outlast the next event of WhatsApp?

ASSUME SessionAssumption ==
    /\ IsFiniteSet(Sockets)
    /\ {MaxLinks, MaxUnlinks, MaxLosses, MaxCrashes, MaxErrors} \subseteq Nat
    /\ {MayDelete, MayStall} \subseteq BOOLEAN
    /\ Undefined \notin Nat

VARIABLES
    row,              \* the row of the device
    auth,             \* the credentials on disk, as the link they are of; 0: not linked
    clients,          \* clients.get(deviceId), as a set of at most one socket
    initializing,     \* initializing.has(deviceId)
    explicitlyClosed, \* explicitlyClosed.has(deviceId)
    timers,           \* the reconnections that are scheduled
    stage,            \* where each call of initSession or its socket is
    copy,             \* its copy of the row (device)
    creds,            \* the credentials of a socket (state)
    encoding,         \* the sockets whose QR code is being encoded
    opening,          \* the sockets whose `open' is being saved
    poll,             \* the copies of the requests for the QR code that go on
    deletion,         \* where deleteDevice is
    booted,           \* initializeAllSessions has run
    links, unlinked, losses, crashes, errors,
    givenUp           \* history: since the last start, an error has ended a call that was to
                      \* bring the device online

memory == <<clients, initializing, explicitlyClosed, timers>>
socket == <<stage, copy, creds, encoding, opening>>
user   == <<poll, deletion, booted>>
world  == <<links, unlinked, losses, crashes, errors, givenUp>>
vars == <<row, auth, clients, initializing, explicitlyClosed, timers, stage, copy, creds,
          encoding, opening, poll, deletion, booted, links, unlinked, losses, crashes, errors,
          givenUp>>

Statuses == {"DISCONNECTED", "INITIALIZING", "QR", "CONNECTED"}
Device   == [status : Statuses, connectedAt : Nat]
Copy     == [status : Statuses, connectedAt : Nat \cup {Undefined}]

ASSUME NoRowAssumption == NoRow \notin Device

\* Mutant: undefined fields are saved as well.
SavedWhole(c) == c

\* save(): the defined fields of the copy go into the row.
Saved(c) ==
    [status |-> c.status,
     connectedAt |-> IF c.connectedAt # Undefined THEN c.connectedAt
                     ELSE IF row = NoRow THEN 0 ELSE row.connectedAt]

\* A call fails.
Fails == errors < MaxErrors /\ errors' = errors + 1

Valid(link) == link \in 1 .. links \ unlinked

\* The next event of WhatsApp, the user or a timer comes when the calls under way are
\* answered, unless the database stalls.
Settled ==
    \/ MayStall
    \/ /\ encoding \cup opening = {}
       /\ \A s \in Sockets : stage[s] # "leaving"
       /\ \A p \in Polls : poll[p] = NoRow

Live  == {"connecting", "scanning", "open"}
Free  == {s \in Sockets : stage[s] = "free" /\ s \notin encoding \cup opening}
Alone == UNCHANGED <<auth, explicitlyClosed, creds, encoding, opening>>

Init ==
    /\ row = NoRow
    /\ auth = 0
    /\ clients = {}
    /\ initializing = FALSE
    /\ explicitlyClosed = FALSE
    /\ timers = 0
    /\ stage = [s \in Sockets |-> "free"]
    /\ copy = [s \in Sockets |-> NoRow]
    /\ creds = [s \in Sockets |-> 0]
    /\ encoding = {}
    /\ opening = {}
    /\ poll = [p \in Polls |-> NoRow]
    /\ deletion = "unasked"
    /\ booted = TRUE
    /\ links = 0
    /\ unlinked = {}
    /\ losses = 0
    /\ crashes = 0
    /\ errors = 0
    /\ givenUp = FALSE

-----------------------------------------------------------------------------
(* initSession *)

\* Mutant: the lock is not looked at.
InitUnlocked ==
    IF clients # {}
    THEN UNCHANGED <<initializing, stage>>
    ELSE \E s \in Free :
            /\ initializing' = TRUE
            /\ stage' = [stage EXCEPT ![s] = "reading"]

\* A call returns when there is a client or another call is at work; else it takes the lock.
InitSession ==
    IF clients # {} \/ initializing
    THEN UNCHANGED <<initializing, stage>>
    ELSE \E s \in Free :
            /\ initializing' = TRUE
            /\ stage' = [stage EXCEPT ![s] = "reading"]

\* The row is read, or the call throws when it is gone.
ReadDevice(s) ==
    /\ stage[s] = "reading"
    /\ IF row = NoRow
       THEN /\ initializing' = FALSE
            /\ stage' = [stage EXCEPT ![s] = "free"]
            /\ UNCHANGED <<row, copy>>
       ELSE /\ copy' = [copy EXCEPT ![s] = [row EXCEPT !.status = "INITIALIZING"]]
            /\ row' = Saved(copy'[s])
            /\ stage' = [stage EXCEPT ![s] = "loading"]
            /\ UNCHANGED initializing
    /\ UNCHANGED <<clients, timers, user, world>>
    /\ Alone

\* useMultiFileAuthState
LoadCreds(s) ==
    /\ stage[s] = "loading"
    /\ creds' = [creds EXCEPT ![s] = auth]
    /\ stage' = [stage EXCEPT ![s] = "fetching"]
    /\ UNCHANGED <<row, auth, memory, copy, encoding, opening, user, world>>

\* The version is fetched, or not, and the socket is made.
MakeSocket(s) ==
    /\ stage[s] = "fetching"
    /\ clients' = {s}
    /\ stage' = [stage EXCEPT ![s] = "connecting"]
    /\ UNCHANGED <<row, initializing, timers, copy, user, world>>
    /\ Alone

-----------------------------------------------------------------------------
(* The connection events *)

\* An unlinked socket offers a QR code, again and again; it is encoded ...
OfferQR(s) ==
    /\ stage[s] \in {"connecting", "scanning"}
    /\ creds[s] = 0
    /\ encoding' = encoding \cup {s}
    /\ UNCHANGED <<row, auth, memory, stage, copy, creds, opening, user, world>>

\* ... and saved, whatever became of the socket by then.
SaveQR(s) ==
    /\ s \in encoding
    /\ encoding' = encoding \ {s}
    /\ copy' = [copy EXCEPT ![s].status = "QR"]
    /\ row' = Saved(copy'[s])
    /\ stage' = [stage EXCEPT ![s] = IF @ = "connecting" THEN "scanning" ELSE @]
    /\ UNCHANGED <<auth, memory, creds, opening, user, world>>

\* The user scans the code: the credentials are saved and the socket is to be restarted.
Link(s) ==
    /\ stage[s] = "scanning"
    /\ Settled
    /\ links < MaxLinks
    /\ links' = links + 1
    /\ creds' = [creds EXCEPT ![s] = links']
    /\ auth' = links'
    /\ stage' = [stage EXCEPT ![s] = "restarting"]
    /\ UNCHANGED <<row, memory, copy, encoding, opening, user, unlinked, losses, crashes,
                   errors, givenUp>>

\* connection = `open': connectedAt is set on the first connection of the device only.
Open(s) ==
    /\ stage[s] = "connecting"
    /\ Valid(creds[s])
    /\ Settled
    /\ copy' = [copy EXCEPT ![s] = [status |-> "CONNECTED",
            connectedAt |-> IF @.connectedAt \in {0, Undefined} THEN links ELSE @.connectedAt]]
    /\ row' = Saved(copy'[s])
    /\ opening' = opening \cup {s}
    /\ stage' = [stage EXCEPT ![s] = "open"]
    /\ UNCHANGED <<auth, memory, creds, encoding, user, world>>

\* After the save the lock is released.
Opened(s) ==
    /\ s \in opening
    /\ opening' = opening \ {s}
    /\ initializing' = FALSE
    /\ UNCHANGED <<row, auth, clients, explicitlyClosed, timers, stage, copy, creds, encoding,
                   user, world>>

\* Mutant: the lock stays when a connection is lost.
ReconnectLocked(s) ==
    /\ clients' = {}
    /\ timers' = timers + 1
    /\ stage' = [stage EXCEPT ![s] = "free"]
    /\ UNCHANGED <<row, copy, initializing>>

Reconnect(s) ==
    /\ initializing' = FALSE
    /\ clients' = {}
    /\ timers' = timers + 1
    /\ stage' = [stage EXCEPT ![s] = "free"]
    /\ UNCHANGED <<row, copy>>

\* Mutants: the maps are cleared before the row is saved; the row is not saved.
LogOutEarly(s) ==
    /\ copy' = [copy EXCEPT ![s] = [status |-> "DISCONNECTED", connectedAt |-> Undefined]]
    /\ row' = Saved(copy'[s])
    /\ stage' = [stage EXCEPT ![s] = "leaving"]
    /\ initializing' = FALSE
    /\ clients' = {}
    /\ UNCHANGED timers

LogOutUnsaved(s) ==
    /\ copy' = [copy EXCEPT ![s] = [status |-> "DISCONNECTED", connectedAt |-> Undefined]]
    /\ stage' = [stage EXCEPT ![s] = "leaving"]
    /\ UNCHANGED <<row, initializing, clients, timers>>

\* The device is logged out or was closed: the row is saved first.
LogOut(s) ==
    /\ copy' = [copy EXCEPT ![s] = [status |-> "DISCONNECTED", connectedAt |-> Undefined]]
    /\ row' = Saved(copy'[s])
    /\ stage' = [stage EXCEPT ![s] = "leaving"]
    /\ UNCHANGED <<initializing, clients, timers>>

\* That save fails: the handler ends there, and the maps and the files are as they were. The
\* dead socket stays the client.
LogOutFails(s) ==
    /\ Fails
    /\ copy' = [copy EXCEPT ![s] = [status |-> "DISCONNECTED", connectedAt |-> Undefined]]
    /\ row' \in {row, Saved(copy'[s])}
    /\ stage' = [stage EXCEPT ![s] = "free"]
    /\ UNCHANGED <<initializing, clients, timers>>

\* connection = `close'
Close(s, shouldReconnect) ==
    /\ explicitlyClosed' = FALSE
    /\ IF shouldReconnect /\ ~explicitlyClosed
       THEN Reconnect(s) /\ UNCHANGED errors
       ELSE (LogOut(s) /\ UNCHANGED errors) \/ LogOutFails(s)
    /\ UNCHANGED <<auth, creds, encoding, opening>>

\* The connection is lost, the server is not reached, or nobody scans the code.
Lose(s) ==
    /\ stage[s] \in Live
    /\ Settled
    /\ losses < MaxLosses
    /\ losses' = losses + 1
    /\ Close(s, TRUE)
    /\ UNCHANGED <<user, links, unlinked, crashes, givenUp>>

\* The phone has revoked the credentials.
Revoked(s) ==
    /\ stage[s] \in Live
    /\ Settled
    /\ creds[s] # 0
    /\ ~Valid(creds[s])
    /\ Close(s, FALSE)
    /\ UNCHANGED <<user, links, unlinked, losses, crashes, givenUp>>

\* The end of a socket that was just linked (restartRequired), or was ended by closeSession.
EndEvent(s) ==
    /\ stage[s] \in {"restarting", "ending"}
    /\ Settled
    /\ Close(s, TRUE)
    /\ UNCHANGED <<user, links, unlinked, losses, crashes, givenUp>>

\* After that save the maps and the files are cleared.
Leave(s) ==
    /\ stage[s] = "leaving"
    /\ initializing' = FALSE
    /\ clients' = {}
    /\ auth' = 0
    /\ stage' = [stage EXCEPT ![s] = "free"]
    /\ UNCHANGED <<row, explicitlyClosed, timers, copy, creds, encoding, opening, user, world>>

\* The timer of a reconnection, which nothing cancels, fires after ten seconds or more.
TimerFires ==
    /\ timers > 0
    /\ Settled
    /\ timers' = timers - 1
    /\ InitSession
    /\ UNCHANGED <<row, clients, copy, user, world>>
    /\ Alone

-----------------------------------------------------------------------------
(* The requests *)

AddDevice ==
    /\ booted
    /\ row = NoRow
    /\ deletion = "unasked"
    /\ row' = [status |-> "INITIALIZING", connectedAt |-> 0]
    /\ InitSession
    /\ UNCHANGED <<clients, timers, copy, user, world>>
    /\ Alone

\* getDeviceQR reads the row; only a disconnected one makes it do more.
PollRead(p) ==
    /\ booted
    /\ poll[p] = NoRow
    /\ row # NoRow
    /\ row.status = "DISCONNECTED"
    /\ poll' = [poll EXCEPT ![p] = row]
    /\ UNCHANGED <<row, auth, memory, socket, deletion, booted, world>>

PollInit(p) ==
    /\ poll[p] # NoRow
    /\ InitSession
    /\ row' = Saved([poll[p] EXCEPT !.status = "INITIALIZING"])
    /\ poll' = [poll EXCEPT ![p] = NoRow]
    /\ UNCHANGED <<clients, timers, copy, deletion, booted, world>>
    /\ Alone

\* deleteDevice: closeSession ends the client and takes it out of the map, ...
CloseSession ==
    /\ MayDelete
    /\ booted
    /\ deletion \in {"unasked", "failed"}
    /\ row # NoRow
    /\ explicitlyClosed' = TRUE
    /\ stage' = [s \in Sockets |-> IF s \in clients /\ stage[s] \in Live THEN "ending"
                                   ELSE stage[s]]
    /\ clients' = {}
    /\ deletion' = "closing"
    /\ UNCHANGED <<row, auth, initializing, timers, copy, creds, encoding, opening, poll, booted,
                   world>>

\* ... saves the row as disconnected, ...
CloseDevice ==
    /\ deletion = "closing"
    /\ row' = IF row = NoRow THEN NoRow
              ELSE Saved([status |-> "DISCONNECTED", connectedAt |-> Undefined])
    /\ deletion' = "removing"
    /\ UNCHANGED <<auth, memory, socket, poll, booted, world>>

\* ... removes the files, ...
RemoveFiles ==
    /\ deletion = "removing"
    /\ auth' = 0
    /\ deletion' = "deleting"
    /\ UNCHANGED <<row, memory, socket, poll, booted, world>>

\* ... and the row is deleted.
DeleteDevice ==
    /\ deletion = "deleting"
    /\ row' = NoRow
    /\ deletion' = "deleted"
    /\ UNCHANGED <<auth, memory, socket, poll, booted, world>>

-----------------------------------------------------------------------------
(* The environment *)

Unlink ==
    /\ Cardinality(unlinked) < MaxUnlinks
    /\ \E n \in 1 .. links \ unlinked : unlinked' = unlinked \cup {n}
    /\ UNCHANGED <<row, auth, memory, socket, user, links, losses, crashes, errors, givenUp>>

\* The server goes down: the row and the files stay.
Crash ==
    /\ crashes < MaxCrashes
    /\ crashes' = crashes + 1
    /\ booted' = FALSE
    /\ clients' = {}
    /\ initializing' = FALSE
    /\ explicitlyClosed' = FALSE
    /\ timers' = 0
    /\ stage' = [s \in Sockets |-> "free"]
    /\ encoding' = {}
    /\ opening' = {}
    /\ poll' = [p \in Polls |-> NoRow]
    /\ deletion' = IF deletion = "deleted" THEN "deleted" ELSE "unasked"
    /\ givenUp' = FALSE
    /\ UNCHANGED <<row, auth, copy, creds, links, unlinked, losses, errors>>

\* initializeAllSessions: a connected device is restored, a half-way one is disconnected.
Boot ==
    /\ ~booted
    /\ booted' = TRUE
    /\ IF row # NoRow /\ row.status = "CONNECTED"
       THEN InitSession /\ UNCHANGED row
       ELSE /\ row' = IF row # NoRow /\ row.status \in {"QR", "INITIALIZING"}
                      THEN [row EXCEPT !.status = "DISCONNECTED"] ELSE row
            /\ UNCHANGED <<initializing, stage>>
    /\ UNCHANGED <<clients, timers, copy, poll, deletion, world>>
    /\ Alone

-----------------------------------------------------------------------------
(* Errors *)

\* initSession throws while it reads or saves the row or loads the files. Its callers log the
\* error: the lock stays, and no timer is set.
CallThrows(s) ==
    /\ stage[s] \in {"reading", "loading"}
    /\ Fails
    /\ \/ row' = row
       \/ /\ stage[s] = "reading" /\ row # NoRow
          /\ row' = [row EXCEPT !.status = "INITIALIZING"]
    /\ stage' = [stage EXCEPT ![s] = "free"]
    /\ givenUp' = TRUE
    /\ UNCHANGED <<memory, copy, user, links, unlinked, losses, crashes>>
    /\ Alone

\* The code could not be encoded or saved; the error is logged and the next code is awaited.
\* (With a save that reached the row all the same it is SaveQR.)
SaveQRFails(s) ==
    /\ s \in encoding
    /\ Fails
    /\ encoding' = encoding \ {s}
    /\ UNCHANGED <<row, auth, memory, stage, copy, creds, opening, user, links, unlinked, losses,
                   crashes, givenUp>>

\* The socket is open, and the handler ends before it releases the lock.
OpenFails(s) ==
    /\ stage[s] = "connecting"
    /\ Valid(creds[s])
    /\ Settled
    /\ Fails
    /\ copy' = [copy EXCEPT ![s] = [status |-> "CONNECTED",
            connectedAt |-> IF @.connectedAt \in {0, Undefined} THEN links ELSE @.connectedAt]]
    /\ row' \in {row, Saved(copy'[s])}
    /\ stage' = [stage EXCEPT ![s] = "open"]
    /\ UNCHANGED <<memory, user, links, unlinked, losses, crashes, givenUp>>
    /\ Alone

\* The maps are cleared and the files stay.
LeaveFails(s) ==
    /\ stage[s] = "leaving"
    /\ Fails
    /\ initializing' = FALSE
    /\ clients' = {}
    /\ stage' = [stage EXCEPT ![s] = "free"]
    /\ UNCHANGED <<row, timers, copy, user, links, unlinked, losses, crashes, givenUp>>
    /\ Alone

\* The row is there, and initSession is not called.
AddDeviceFails ==
    /\ booted
    /\ row = NoRow
    /\ deletion = "unasked"
    /\ Fails
    /\ row' = [status |-> "INITIALIZING", connectedAt |-> 0]
    /\ UNCHANGED <<auth, memory, socket, user, links, unlinked, losses, crashes, givenUp>>

\* initSession is called, and the row stays as it was, or it is PollInit.
PollInitFails(p) ==
    /\ poll[p] # NoRow
    /\ Fails
    /\ InitSession
    /\ poll' = [poll EXCEPT ![p] = NoRow]
    /\ UNCHANGED <<row, clients, timers, copy, deletion, booted, links, unlinked, losses, crashes,
                   givenUp>>
    /\ Alone

\* The request fails where it is, and can be made again.
DeletionFails ==
    /\ deletion \in {"closing", "removing", "deleting"}
    /\ Fails
    /\ row' \in {row} \cup (IF deletion = "closing" /\ row # NoRow
                           THEN {[row EXCEPT !.status = "DISCONNECTED"]} ELSE {})
    /\ deletion' = "failed"
    /\ UNCHANGED <<auth, memory, socket, poll, booted, links, unlinked, losses, crashes, givenUp>>

\* The devices cannot be read, or the save of a device before this one fails: the loop ends.
BootFails ==
    /\ ~booted
    /\ Fails
    /\ booted' = TRUE
    /\ givenUp' = (row # NoRow /\ row.status # "DISCONNECTED")
    /\ UNCHANGED <<row, auth, memory, socket, poll, deletion, links, unlinked, losses, crashes>>

Error(s) == CallThrows(s) \/ SaveQRFails(s) \/ OpenFails(s) \/ LeaveFails(s)

Call(s)  == ReadDevice(s) \/ LoadCreds(s) \/ MakeSocket(s)
Event(s) == SaveQR(s) \/ Open(s) \/ Opened(s) \/ Revoked(s) \/ EndEvent(s) \/ Leave(s)

Next ==
    \/ \E s \in Sockets : Call(s) \/ Event(s) \/ OfferQR(s) \/ Link(s) \/ Lose(s) \/ Error(s)
    \/ TimerFires
    \/ AddDevice
    \/ \E p \in Polls : PollRead(p) \/ PollInit(p)
    \/ CloseSession \/ CloseDevice \/ RemoveFiles \/ DeleteDevice
    \/ Unlink
    \/ Crash
    \/ Boot
    \/ AddDeviceFails
    \/ \E p \in Polls : PollInitFails(p)
    \/ DeletionFails
    \/ BootFails

Spec == Init /\ [][Next]_vars

\* Calls and requests go on, the timers fire, and Baileys connects or ends a socket that is
\* linked. Nothing has to fail.
FairSpec ==
    /\ Spec
    /\ \A s \in Sockets : WF_vars(Call(s)) /\ WF_vars(Event(s))
    /\ WF_vars(TimerFires)
    /\ \A p \in Polls : WF_vars(PollInit(p))
    /\ WF_vars(Boot)

-----------------------------------------------------------------------------
(* Properties *)

Stages == {"free", "reading", "loading", "fetching", "connecting", "scanning", "restarting",
           "open", "ending", "leaving"}

TypeOK ==
    /\ row \in Device \cup {NoRow}
    /\ auth \in 0 .. links
    /\ clients \subseteq Sockets
    /\ Cardinality(clients) <= 1
    /\ initializing \in BOOLEAN
    /\ explicitlyClosed \in BOOLEAN
    /\ timers \in Nat
    /\ stage \in [Sockets -> Stages]
    /\ copy \in [Sockets -> Copy \cup {NoRow}]
    /\ creds \in [Sockets -> 0 .. links]
    /\ encoding \subseteq Sockets
    /\ opening \subseteq Sockets
    /\ poll \in [Polls -> Device \cup {NoRow}]
    /\ deletion \in {"unasked", "closing", "removing", "deleting", "failed", "deleted"}
    /\ booted \in BOOLEAN
    /\ links \in 0 .. MaxLinks
    /\ unlinked \subseteq 1 .. links
    /\ losses \in 0 .. MaxLosses
    /\ crashes \in 0 .. MaxCrashes
    /\ errors \in 0 .. MaxErrors
    /\ givenUp \in BOOLEAN

\* Until its deletion is asked for, a device is never connected twice, and its socket is the
\* one that getClient returns and closeSession ends: no handler of an old socket takes away
\* the client of the next one, and no two calls of initSession pass the lock.
OneSocket ==
    deletion = "unasked" => \A s \in Sockets : stage[s] \in Live => clients = {s}

\* The handler of `open' ended at its save (line 909): the lock is held and nobody releases it.
Unsaved(s) == stage[s] = "open" /\ s \notin opening /\ initializing

\* The handler of a logout ended at its save (line 947): the client is a socket that is gone.
Stranded == \E s \in clients : stage[s] = "free"

\* Until then the status tells the campaigns the truth: a device whose socket is open is
\* CONNECTED, unless that save failed; and a CONNECTED one is online or about to reconnect,
\* unless the save of its logout failed or an error has ended its initSession (lines 823 and
\* 833) or the start of the server: then it stays CONNECTED until the next start.
StatusIsTrue ==
    deletion = "unasked" /\ booted =>
        /\ \A s \in Sockets :
              stage[s] = "open" /\ ~Unsaved(s) => row # NoRow /\ row.status = "CONNECTED"
        /\ row # NoRow /\ row.status = "CONNECTED" =>
              \/ timers > 0
              \/ \E s \in Sockets : stage[s] \in {"open", "reading"}
              \/ givenUp
              \/ Stranded

\* A linked device comes online again after every loss, or is shown as disconnected: no other
\* caller, socket or failed save keeps the lock from it or leaves it without a timer. The one
\* thing that does is excepted, and is over with the next start: an error in initSession
\* (lines 823 to 844) leaves the lock behind and sets no timer, and an error in
\* initializeAllSessions (lines 785 to 805) restores nobody.
ComesBack ==
    deletion = "unasked" /\ Valid(auth)
        ~> \/ \E s \in Sockets : stage[s] = "open"
           \/ ~Valid(auth)
           \/ deletion # "unasked"
           \/ row.status = "DISCONNECTED"
           \/ givenUp

\* Does not hold: save() leaves out a field that is undefined.
\* "Reset connectedAt on logout so next link starts fresh": connectedAt is of the link that
\* is online.
LinkIsFresh ==
    \A s \in Sockets : stage[s] = "open" => copy[s].connectedAt >= creds[s]
==============================================================================
