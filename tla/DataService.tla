---------------------------- MODULE DataService ----------------------------
(***************************************************************************)
(* The browser's FakeMexDataService (frontend/src/app/services/            *)
(* fakemex-data.service.ts) and what app.ts lets a user do with it, beside *)
(* a backend reduced to what the page can tell of it.                      *)
(*                                                                         *)
(* JavaScript runs one callback at a time: every action of the page is one *)
(* whole callback (a click, an HTTP reply, a websocket event, a timer).    *)
(* Replies of different HTTP requests arrive in any order; the messages of *)
(* one websocket arrive in order.  Sockets and calls are objects, reused   *)
(* once nothing can happen to them any more.                               *)
(***************************************************************************)
EXTENDS Naturals

CONSTANTS
  Symbols,       (* what the user may select; every network lists them     *)
  DefaultSymbol, (* selectedSymbol's first value, and the first demo       *)
                 (* market ('BTC')                                         *)
  DemoSymbols,   (* the symbols of demoSnapshot.markets                    *)
  Sockets,       (* WebSocket objects                                      *)
  NoSocket,      (* this.socket is null                                    *)
  NoTimer,       (* this.reconnectTimer is null                            *)
  Calls,         (* HTTP requests in flight                                *)
  FoundArmed,    (* an earlier user left trading armed                     *)
  MaxSequence,   (* bound: messages of one stream                          *)
  MaxMoves,      (* bound: what users do, here and in other windows        *)
  MaxFaults      (* bound: failures of the network and of the backend      *)

ASSUME PageAssumption ==
  /\ DefaultSymbol \in DemoSymbols
  /\ DemoSymbols \subseteq Symbols
  /\ NoSocket \notin Sockets
  /\ NoTimer \notin Symbols
  /\ FoundArmed \in BOOLEAN
  /\ MaxSequence \in Nat \ {0}
  /\ MaxMoves \in Nat
  /\ MaxFaults \in Nat

VARIABLES
  srv,            (* the backend's network and trading toggle              *)
  status,         (* tradingStatus and networkStatus, which agree          *)
  selected,       (* selectedSymbol                                        *)
  markets,        (* the symbols of the markets signal                     *)
  account,        (* where positions, orders and margin come from          *)
  isDemo,         (* isDemo                                                *)
  phase,          (* connection().phase                                    *)
  sequenceByType, (* last sequence applied, 0 for undefined                *)
  socket,         (* this.socket                                           *)
  timer,          (* the symbol reconnectTimer will open a stream for      *)
  intentional,    (* intentionalCloseSockets                               *)
  sock,           (* the WebSocket objects and their server side           *)
  calls,          (* the HTTP requests in flight                           *)
  destroyed,      (* destroy() was called                                  *)
  disturbed,      (* history: see StreamFollowsSelection                   *)
  moves, faults   (* what is left of the bounds                            *)

view == <<selected, markets, account, isDemo, sequenceByType, disturbed>>
stream == <<phase, socket, timer, intentional, sock>>
budget == <<moves, faults>>
vars == <<srv, status, view, stream, calls, destroyed, budget>>

Networks == {"testnet", "mainnet"}
Status == [network : Networks, enabled : BOOLEAN]
AtStart == [network |-> "testnet", enabled |-> FALSE]

(* The account data shown: none yet, the demo's, the zeros and empty lists *)
(* of a stream's snapshot, or the configured account's.                    *)
Accounts == {"none", "demo", "empty", "real"}
Phases == {"offline", "reconnecting", "online"}

(* "data" stands for markets, book, trades, candle, assetContext, fills,   *)
(* funding and orders, which the page treats alike here.                   *)
EventTypes == {"data", "account", "connection"}
Types == EventTypes \union {"snapshot", "error"}
NothingApplied == [t \in Types |-> 0]

(* A WebSocket: "connecting"; "open" when upgraded; "live" once the server *)
(* subscribed it, "refused" when it could not; "ended" by the server or    *)
(* the network; "aborted" and "closing" by close() while connecting and    *)
(* later; "closed" after its close event.  count is the number of messages *)
(* it delivered, upstream the last connection status among them.           *)
SockStates == {"free", "connecting", "open", "live", "refused", "ended",
               "aborted", "closing", "closed"}
Sock == [state : SockStates, symbol : Symbols, count : 0..MaxSequence,
         upstream : {"none", "connected", "disconnected"}]
Fresh(s) ==
  [state |-> "connecting", symbol |-> s, count |-> 0, upstream |-> "none"]
FreeSock == [Fresh(DefaultSymbol) EXCEPT !.state = "free"]

(* The requests answered by a status of the backend.                       *)
StatusKinds == {"trading", "arm", "network", "health"}

(* An HTTP request; overtaken is history: a later bootstrap was sent.      *)
Kinds == {"none", "bootstrap", "trading", "arm", "network", "health",
          "write"}
Args == Symbols \union Networks \union {"none", "on", "off"}
Call == [kind : Kinds, arg : Args, stage : {"free", "sent", "answered"},
         answer : Status, overtaken : BOOLEAN]
NewCall(kind, arg) ==
  [kind |-> kind, arg |-> arg, stage |-> "sent", answer |-> AtStart,
   overtaken |-> FALSE]
FreeCall == [NewCall("none", "none") EXCEPT !.stage = "free"]

Pending(kind) == {c \in Calls : calls[c].kind = kind}
-----------------------------------------------------------------------------
(* The pieces of the handlers.                                             *)

Send(base, kind, arg) ==
  \E c \in Calls :
    /\ base[c].stage = "free"
    /\ calls' = [base EXCEPT ![c] = NewCall(kind, arg)]

SendBootstrap(base, s) ==
  Send([c \in Calls |->
          [base[c] EXCEPT !.overtaken = base[c].kind = "bootstrap"]],
       "bootstrap", s)

(* Only a live socket has messages to count.                               *)
In(state, r) == IF state = "free" THEN FreeSock
                                  ELSE [Fresh(r.symbol) EXCEPT !.state = state]
Becomes(k, state) == sock' = [sock EXCEPT ![k] = In(state, @)]

(* What close() leaves of a socket.                                        *)
AfterClose(r) ==
  CASE r.state = "connecting" -> In("aborted", r)
    [] r.state \in {"open", "live", "refused", "ended"} -> In("closing", r)
    [] r.state = "closed" -> FreeSock
    [] OTHER -> r

(* Mutant: closeSocket only forgets the socket.                            *)
SockLeftOpen == sock

(* closeSocket(true).  The set matters while a close event is to come.     *)
SockAfterClose ==
  IF socket = NoSocket THEN sock
                       ELSE [sock EXCEPT ![socket] = AfterClose(@)]
Remembered ==
  intentional \union
    {k \in Sockets : k = socket /\ sock[k].state # "closed"}

(* Mutant: closeSocket leaves the reconnect timer.                         *)
TimerKept == timer

TimerAfterClose == NoTimer

OpenStream(s) ==
  /\ \E k \in Sockets :
       /\ SockAfterClose[k].state = "free"
       /\ sock' = [SockAfterClose EXCEPT ![k] = Fresh(s)]
       /\ socket' = k
  /\ intentional' = Remembered
  /\ timer' = TimerAfterClose
  /\ phase' = "reconnecting"

(* bootstrap(): ask for a snapshot and open a stream.                      *)
Bootstrap(base, s) ==
  /\ SendBootstrap(base, s)
  /\ OpenStream(s)
  /\ disturbed' = FALSE

(* Mutant: a snapshot does not clear the sequences.                        *)
AppliedKept == sequenceByType

AppliedAfterSnapshot == NothingApplied

ApplySnapshot(s, listed, from, demo, shown) ==
  /\ markets' = listed
  /\ selected' = s
  /\ account' = from
  /\ isDemo' = demo
  /\ sequenceByType' = AppliedAfterSnapshot
  /\ phase' = shown

(* Mutant: the sequence expected next is recorded.                         *)
AppliedNext(type, sequence) == [sequenceByType EXCEPT ![type] = sequence + 1]

ShouldApply(type, sequence) == sequence > sequenceByType[type]
Applied(type, sequence) == [sequenceByType EXCEPT ![type] = sequence]

FindMarket(s) == IF s \in markets THEN s ELSE DefaultSymbol

(* The page reads `online` of a connection event; the manager sends        *)
(* `status` (and a detail).                                                *)
ConnectionData(s) == [status |-> s]
Online(data) == IF "online" \in DOMAIN data THEN data.online ELSE FALSE

Move == moves > 0 /\ moves' = moves - 1 /\ UNCHANGED faults
Fault == faults > 0 /\ faults' = faults - 1 /\ UNCHANGED moves
-----------------------------------------------------------------------------
(* What a user does.                                                       *)

(* The constructor: a bootstrap, the trading status and the health watch.  *)
Init ==
  /\ srv = [AtStart EXCEPT !.enabled = FoundArmed]
  /\ status = AtStart
  /\ selected = DefaultSymbol
  /\ markets = {}
  /\ account = "none"
  /\ isDemo = FALSE
  /\ phase = "reconnecting"
  /\ sequenceByType = NothingApplied
  /\ \E k \in Sockets :
       /\ socket = k
       /\ sock = [[j \in Sockets |-> FreeSock] EXCEPT
                    ![k] = Fresh(DefaultSymbol)]
  /\ timer = NoTimer
  /\ intentional = {}
  /\ \E b, t \in Calls :
       /\ b # t
       /\ calls = [[c \in Calls |-> FreeCall] EXCEPT
                     ![b] = NewCall("bootstrap", DefaultSymbol),
                     ![t] = NewCall("trading", "none")]
  /\ destroyed = FALSE
  /\ disturbed = FALSE
  /\ moves = MaxMoves
  /\ faults = MaxFaults

User == ~destroyed /\ Move

SetSymbol(s) ==
  /\ User
  /\ s \in markets \ {selected}
  /\ selected' = s
  /\ Bootstrap(calls, s)
  /\ UNCHANGED <<srv, status, markets, account, isDemo, sequenceByType,
                 destroyed>>

SetInterval ==
  /\ User
  /\ Bootstrap(calls, selected)
  /\ UNCHANGED <<srv, status, selected, markets, account, isDemo,
                 sequenceByType, destroyed>>

ScheduleReconnect(s) == timer' = s /\ phase' = "reconnecting"

SetRefreshInterval ==
  /\ User
  /\ phase # "online"
  /\ ScheduleReconnect(selected)
  /\ UNCHANGED <<srv, status, view, socket, intentional, sock, calls,
                 destroyed>>

(* The two toggles of app.ts exclude each other while one is pending.      *)
NotBusy == Pending("arm") \union Pending("network") = {}

SetTradingEnabled(choice) ==
  /\ User
  /\ NotBusy
  /\ Send(calls, "arm", choice)
  /\ UNCHANGED <<srv, status, view, stream, destroyed>>

SetNetwork(n) ==
  /\ User
  /\ NotBusy
  /\ n # status.network
  /\ Send(calls, "network", n)
  /\ UNCHANGED <<srv, status, view, stream, destroyed>>

(* submitOrder and the other writes, behind guardTrading.                  *)
SubmitOrder ==
  /\ User
  /\ status.enabled
  /\ ~isDemo
  /\ Send(calls, "write", "none")
  /\ UNCHANGED <<srv, status, view, stream, destroyed>>

(* app.ts ends its own requests and the health watch, then closes.         *)
Destroy ==
  /\ User
  /\ destroyed' = TRUE
  /\ calls' = [c \in Calls |->
                 IF calls[c].kind \in {"bootstrap", "trading"}
                   THEN calls[c] ELSE FreeCall]
  /\ sock' = SockAfterClose
  /\ intentional' = Remembered
  /\ timer' = TimerAfterClose
  /\ socket' = NoSocket
  /\ UNCHANGED <<srv, status, view, phase>>
-----------------------------------------------------------------------------
(* The backend: it answers the requests, and serves or ends the streams.   *)

(* What none of this changes.                                              *)
PageUnchanged ==
  UNCHANGED <<status, view, phase, socket, timer, intentional, destroyed>>

(* A switch closes the subscriptions of the previous network.              *)
EndedBy(n) ==
  [k \in Sockets |->
     IF sock[k].state = "live" /\ n # srv.network
       THEN In("ended", sock[k]) ELSE sock[k]]

Switch(n) ==
  /\ srv' = [network |-> n, enabled |-> FALSE]
  /\ sock' = EndedBy(n)

Toggle(choice) ==
  /\ srv' = [srv EXCEPT !.enabled = (choice = "on")]
  /\ UNCHANGED sock

Serve(c) ==
  /\ calls[c].stage = "sent"
  /\ CASE calls[c].kind = "network" -> Switch(calls[c].arg)
       [] calls[c].kind = "arm" -> Toggle(calls[c].arg)
       [] OTHER -> UNCHANGED <<srv, sock>>
  /\ calls' = [calls EXCEPT ![c].stage = "answered",
                           ![c].answer = IF calls[c].kind \in StatusKinds
                                           THEN srv' ELSE @]
  /\ PageUnchanged
  /\ UNCHANGED budget

(* Another window of the page, or a restart of the backend.                *)
OtherWindow ==
  /\ Move
  /\ \/ \E n \in Networks : Switch(n)
     \/ \E choice \in {"on", "off"} : Toggle(choice)
  /\ PageUnchanged
  /\ UNCHANGED calls

Restart ==
  /\ Fault
  /\ srv' = AtStart
  /\ sock' = [k \in Sockets |->
                IF sock[k].state \in {"open", "live", "refused"}
                  THEN In("ended", sock[k]) ELSE sock[k]]
  /\ PageUnchanged
  /\ UNCHANGED calls

ServeStream(k) ==
  /\ sock[k].state = "open"
  /\ Becomes(k, "live")
  /\ PageUnchanged
  /\ UNCHANGED <<srv, calls, budget>>

RefuseStream(k) ==
  /\ sock[k].state = "open"
  /\ Fault
  /\ Becomes(k, "refused")
  /\ PageUnchanged
  /\ UNCHANGED <<srv, calls>>

(* The connection or the stream breaks.                                    *)
BreakStream(k) ==
  /\ sock[k].state \in {"open", "live", "refused"}
  /\ Fault
  /\ Becomes(k, "ended")
  /\ PageUnchanged
  /\ UNCHANGED <<srv, calls>>
-----------------------------------------------------------------------------
(* The replies.  A reply frees its request.                                *)

Done(c) == [calls EXCEPT ![c] = FreeCall]
Answered(c, kind) == calls[c].kind = kind /\ calls[c].stage = "answered"

(* The account is read apart from the snapshot, and may be unavailable.    *)
BootstrapArrives(c) ==
  /\ Answered(c, "bootstrap")
  /\ \/ /\ ApplySnapshot(calls[c].arg, Symbols, "real", FALSE, "online")
        /\ UNCHANGED budget
     \/ /\ ApplySnapshot(calls[c].arg, Symbols, "empty", FALSE, "online")
        /\ Fault
  /\ disturbed' = (disturbed \/ calls[c].overtaken)
  /\ calls' = Done(c)
  /\ UNCHANGED <<srv, status, socket, timer, intentional, sock, destroyed>>

(* The demo fallback.                                                      *)
BootstrapFails(c) ==
  LET shown == FindMarket(calls[c].arg) IN
  /\ calls[c].kind = "bootstrap"
  /\ Fault
  /\ ApplySnapshot(shown, DemoSymbols, "demo", TRUE, "offline")
  /\ disturbed' = (disturbed \/ calls[c].overtaken \/ shown # calls[c].arg)
  /\ calls' = Done(c)
  /\ UNCHANGED <<srv, status, socket, timer, intentional, sock, destroyed>>

StatusArrives(c) ==
  /\ Answered(c, "trading") \/ Answered(c, "arm")
  /\ status' = calls[c].answer
  /\ calls' = Done(c)
  /\ UNCHANGED <<srv, view, stream, destroyed, budget>>

NetworkArrives(c) ==
  /\ Answered(c, "network")
  /\ status' = calls[c].answer
  /\ sequenceByType' = AppliedAfterSnapshot
  /\ Bootstrap(Done(c), selected)
  /\ UNCHANGED <<srv, selected, markets, account, isDemo, destroyed, budget>>

(* The toggles ask for the status again; the others change nothing.        *)
CallFails(c) ==
  /\ calls[c].kind \in {"trading", "arm", "network", "health", "write"}
  /\ Fault
  /\ calls' = IF calls[c].kind \in {"arm", "network"}
                THEN [calls EXCEPT ![c] = NewCall("trading", "none")]
                ELSE Done(c)
  /\ UNCHANGED <<srv, status, view, stream, destroyed>>

WriteArrives(c) ==
  /\ Answered(c, "write")
  /\ calls' = Done(c)
  /\ UNCHANGED <<srv, status, view, stream, destroyed, budget>>

(* The health watch: a poll cancels the one before it (switchMap).         *)
PollHealth ==
  /\ ~destroyed
  /\ \E c \in Calls :
       /\ \/ calls[c].kind = "health"
          \/ Pending("health") = {} /\ calls[c].stage = "free"
       /\ calls' = [calls EXCEPT ![c] = NewCall("health", "none")]
  /\ UNCHANGED <<srv, status, view, stream, destroyed, budget>>

(* Mutant: only the network is taken from the health reply.                *)
NetworkOnly(c) == [status EXCEPT !.network = calls[c].answer.network]

ToldByHealth(c) == calls[c].answer

HealthArrives(c) ==
  /\ Answered(c, "health")
  /\ status' = ToldByHealth(c)
  /\ IF calls[c].answer.network # status.network
       THEN Bootstrap(Done(c), selected)
       ELSE /\ calls' = Done(c)
            /\ UNCHANGED <<stream, disturbed>>
  /\ UNCHANGED <<srv, selected, markets, account, isDemo, sequenceByType,
                 destroyed, budget>>
-----------------------------------------------------------------------------
(* The events of a socket, and the timer.                                  *)

SocketOpens(k) ==
  /\ sock[k].state = "connecting"
  /\ Becomes(k, "open")
  /\ isDemo' = FALSE
  /\ phase' = "online"
  /\ UNCHANGED <<srv, status, selected, markets, account, sequenceByType,
                 disturbed, socket, timer, intentional, calls, destroyed,
                 budget>>

(* A snapshot is applied whatever its sequence is, unless it is of another *)
(* symbol than the one selected.                                           *)
SnapshotArrives(k) ==
  /\ sock[k].state = "live"
  /\ sock[k].count = 0
  /\ sock' = [sock EXCEPT ![k].count = 1]
  /\ IF sock[k].symbol = selected
       THEN ApplySnapshot(selected, Symbols, "empty", FALSE, "online")
       ELSE UNCHANGED <<markets, selected, account, isDemo, sequenceByType,
                        phase>>
  /\ UNCHANGED <<srv, status, disturbed, socket, timer, intentional, calls,
                 destroyed, budget>>

Apply(t, n, s) ==
  /\ sequenceByType' = Applied(t, n)
  /\ account' = IF t = "account" THEN "real" ELSE account
  /\ phase' = IF t # "connection" THEN phase
              ELSE IF Online(ConnectionData(s)) THEN "online" ELSE "offline"

EventArrives(k, t, s) ==
  LET n == sock[k].count + 1 IN
  /\ sock[k].state = "live"
  /\ n \in 2..MaxSequence
  /\ sock' = [sock EXCEPT ![k].count = n,
                          ![k].upstream = IF t = "connection" THEN s ELSE @]
  /\ IF sock[k].symbol = selected /\ ShouldApply(t, n)
       THEN Apply(t, n, s)
       ELSE UNCHANGED <<sequenceByType, account, phase>>
  /\ UNCHANGED <<srv, status, selected, markets, isDemo, disturbed, socket,
                 timer, intentional, calls, destroyed, budget>>

(* The error of a refused stream names no symbol; the server then closes.  *)
ErrorArrives(k) ==
  /\ sock[k].state = "refused"
  /\ Becomes(k, "ended")
  /\ IF ShouldApply("error", 1)
       THEN /\ sequenceByType' = Applied("error", 1)
            /\ phase' = "offline"
       ELSE UNCHANGED <<sequenceByType, phase>>
  /\ UNCHANGED <<srv, status, selected, markets, account, isDemo, disturbed,
                 socket, timer, intentional, calls, destroyed, budget>>

(* Mutant: one flag for all sockets, which a late close event would use up *)
(* for another socket's.                                                   *)
ClosedByFlag(k) == intentional # {}

ClosedOnPurpose(k) == k \in intentional
ReconnectsAfter(k) == ~ClosedOnPurpose(k) /\ ~destroyed

(* The close event, after the error event of a socket that never opened.   *)
CloseEvent(k, failed) ==
  /\ Becomes(k, IF k = socket THEN "closed" ELSE "free")
  /\ intentional' = intentional \ {k}
  /\ IF ReconnectsAfter(k)
       THEN ScheduleReconnect(sock[k].symbol)
       ELSE /\ phase' = IF failed THEN "offline" ELSE phase
            /\ UNCHANGED timer
  /\ UNCHANGED <<srv, status, view, socket, calls, destroyed>>

ConnectFails(k) ==
  /\ sock[k].state = "connecting"
  /\ Fault
  /\ CloseEvent(k, TRUE)

AbortedCloses(k) ==
  /\ sock[k].state = "aborted"
  /\ CloseEvent(k, TRUE)
  /\ UNCHANGED budget

SocketCloses(k) ==
  /\ sock[k].state \in {"ended", "closing"}
  /\ CloseEvent(k, FALSE)
  /\ UNCHANGED budget

TimerFires ==
  /\ timer # NoTimer
  /\ OpenStream(timer)
  /\ UNCHANGED <<srv, status, view, calls, destroyed, budget>>
-----------------------------------------------------------------------------
UserNext ==
  \/ \E s \in Symbols : SetSymbol(s)
  \/ SetInterval
  \/ SetRefreshInterval
  \/ \E choice \in {"on", "off"} : SetTradingEnabled(choice)
  \/ \E n \in Networks : SetNetwork(n)
  \/ SubmitOrder
  \/ Destroy

BackendNext ==
  \/ \E c \in Calls : Serve(c)
  \/ OtherWindow
  \/ Restart
  \/ \E k \in Sockets : ServeStream(k) \/ RefuseStream(k) \/ BreakStream(k)

ReplyNext ==
  \/ PollHealth
  \/ \E c \in Calls :
       \/ BootstrapArrives(c) \/ BootstrapFails(c)
       \/ StatusArrives(c) \/ NetworkArrives(c) \/ HealthArrives(c)
       \/ WriteArrives(c) \/ CallFails(c)

SocketNext ==
  \/ TimerFires
  \/ \E k \in Sockets :
       \/ SocketOpens(k) \/ SnapshotArrives(k) \/ ErrorArrives(k)
       \/ \E t \in EventTypes, s \in {"connected", "disconnected"} :
            EventArrives(k, t, s)
       \/ ConnectFails(k) \/ AbortedCloses(k) \/ SocketCloses(k)

Next == UserNext \/ BackendNext \/ ReplyNext \/ SocketNext

SafetySpec == Init /\ [][Next]_vars
-----------------------------------------------------------------------------
(* What the network, the browser and the backend owe the page: requests    *)
(* and upgrades are answered or fail, events are delivered, timers fire,   *)
(* and a health reply is not overtaken by the next poll for ever.          *)
Fairness ==
  /\ WF_vars(TimerFires)
  /\ WF_vars(PollHealth)
  /\ \A c \in Calls :
       /\ WF_vars(Serve(c))
       /\ WF_vars(BootstrapArrives(c) \/ StatusArrives(c) \/ WriteArrives(c))
       /\ WF_vars(NetworkArrives(c))
  /\ SF_vars(\E c \in Calls : HealthArrives(c))
  /\ \A k \in Sockets :
       /\ WF_vars(SocketOpens(k))
       /\ WF_vars(ServeStream(k))
       /\ WF_vars(SnapshotArrives(k))
       /\ WF_vars(ErrorArrives(k))
       /\ WF_vars(AbortedCloses(k) \/ SocketCloses(k))

Spec == SafetySpec /\ Fairness
-----------------------------------------------------------------------------
(* Type invariant of the page's state and of what is in flight.            *)
TypeOK ==
  /\ srv \in Status
  /\ status \in Status
  /\ selected \in Symbols
  /\ markets \in {{}, DemoSymbols, Symbols}
  /\ account \in Accounts
  /\ isDemo \in BOOLEAN
  /\ phase \in Phases
  /\ sequenceByType \in [Types -> 0..MaxSequence]
  /\ socket \in Sockets \union {NoSocket}
  /\ timer \in Symbols \union {NoTimer}
  /\ intentional \subseteq Sockets
  /\ sock \in [Sockets -> Sock]
  /\ calls \in [Calls -> Call]
  /\ destroyed \in BOOLEAN
  /\ disturbed \in BOOLEAN
  /\ moves \in 0..MaxMoves
  /\ faults \in 0..MaxFaults

Dead == {"free", "aborted", "closing"}

(* A page has one stream: whatever the order of clicks, timers and close   *)
(* events, every other WebSocket was closed by the page and is remembered  *)
(* as such, so that its late close event opens no second stream.           *)
OneStream ==
  /\ \A k \in Sockets \ {socket} : sock[k].state \in Dead
  /\ intentional =
       {k \in Sockets : sock[k].state \in {"aborted", "closing"}}

Trying == {"connecting", "open", "live", "refused", "ended"}

(* A page that lives is never without a future: it has a socket whose      *)
(* close event will schedule a reconnect, or a timer that will open one.   *)
NeverStranded ==
  ~destroyed =>
    \/ timer # NoTimer
    \/ /\ socket # NoSocket
       /\ sock[socket].state \in Trying
       /\ socket \notin intentional

(* The stream, or the one a timer will open, is of the selected symbol, as *)
(* long as since the last bootstrap() no reply to an earlier bootstrap and *)
(* no demo snapshot of another symbol replaced the selection (disturbed).  *)
StreamFollowsSelection ==
  ~destroyed /\ ~disturbed =>
    /\ timer # NoTimer => timer = selected
    /\ socket # NoSocket => sock[socket].symbol = selected

(* No event of a stream is taken for an old one: what the page remembers   *)
(* of the sequences, which restart with every connection, is never ahead   *)
(* of the stream it watches.                                               *)
NoEventSkipped ==
  socket # NoSocket =>
    LET r == sock[socket] IN
    r.state = "live" /\ r.count > 0 /\ r.symbol = selected =>
      \A t \in Types : sequenceByType[t] <= r.count

(* After destroy() no callback that is still to come opens a stream or     *)
(* arms a timer.                                                           *)
QuietAfterDestroy ==
  destroyed => timer = NoTimer /\ socket = NoSocket

(* Once users and failures leave it alone, the page streams again.         *)
Streaming ==
  socket # NoSocket /\ sock[socket].state = "live" /\ sock[socket].count > 0
StreamRecovers == <>[](destroyed \/ Streaming)

(* ... and it shows the network and the toggle the backend really has,     *)
(* whatever order the replies that carry them came in.                     *)
StatusConverges == <>[](destroyed \/ status = srv)

(* What api-contract.md says of a stream's first message, "a complete      *)
(* snapshot" with which clients "replace state": it does not replace the   *)
(* configured account by an empty one.                                     *)
AccountIsKept == [][account = "real" => account' # "empty"]_vars

(* What api-contract.md says of connection events: they mark changes of    *)
(* the upstream connection.  One that says connected shows the page online.*)
ConnectedIsShown ==
  (/\ socket # NoSocket
   /\ sock[socket].upstream = "connected"
   /\ sock[socket].symbol = selected) => phase = "online"
=============================================================================
