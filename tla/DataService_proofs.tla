------------------------- MODULE DataService_proofs -------------------------
(***************************************************************************)
(* Proofs about DataService for any symbols, sockets, requests and bounds. *)
(*                                                                         *)
(* The argument: closeSocket leaves no socket but the current one that     *)
(* could still deliver, and the sockets that will deliver a close event    *)
(* unasked for are exactly those it did not remember.  A page therefore    *)
(* has one socket or one timer to hope for, both of the selected symbol    *)
(* until a late reply moves the selection, and the sequences it remembers  *)
(* are those of that socket since its snapshot.                            *)
(***************************************************************************)
EXTENDS DataService, TLAPS

(* What a request carries fits its kind, and only the requests of the      *)
(* service itself outlive the page.                                        *)
Requests ==
  /\ \A c \in Calls :
       /\ calls[c].kind = "bootstrap" => calls[c].arg \in Symbols
       /\ calls[c].kind = "network" => calls[c].arg \in Networks
  /\ destroyed =>
       \A c \in Calls : calls[c].kind \in {"none", "bootstrap", "trading"}

(* The current socket was not closed by the page.                          *)
Current ==
  socket # NoSocket => sock[socket].state \in Trying \union {"closed"}

(* Selection and stream agree, and so does the reply that is expected.     *)
Selection ==
  /\ StreamFollowsSelection
  /\ ~destroyed /\ ~disturbed =>
       \A c \in Calls :
         calls[c].kind = "bootstrap" /\ ~calls[c].overtaken =>
           calls[c].arg = selected

(* The inductive invariant.                                                *)
PInv == /\ TypeOK
        /\ Requests
        /\ Current
        /\ OneStream
        /\ NeverStranded
        /\ Selection
        /\ NoEventSkipped
        /\ QuietAfterDestroy

-----------------------------------------------------------------------------
(* The operators on sockets.                                               *)

LEMMA FreshSock ==
  ASSUME PageAssumption, NEW s \in Symbols
  PROVE  /\ Fresh(s) \in Sock
         /\ Fresh(s).state = "connecting"
         /\ Fresh(s).symbol = s
         /\ Fresh(s).count = 0
         /\ Fresh(s).upstream = "none"
  BY DEF PageAssumption, Fresh, Sock, SockStates

LEMMA FreeSockType ==
  ASSUME PageAssumption
  PROVE  FreeSock \in Sock /\ FreeSock.state = "free"
  <1>1. DefaultSymbol \in Symbols
    BY DEF PageAssumption
  <1> QED BY <1>1, FreshSock DEF FreeSock, Sock, SockStates, Fresh

(* A socket moves to a state; one that is not given up keeps its symbol.   *)
LEMMA InSock ==
  ASSUME PageAssumption, NEW r \in Sock, NEW state \in SockStates
  PROVE  /\ In(state, r) \in Sock
         /\ In(state, r).state = state
         /\ state # "free" => /\ In(state, r).symbol = r.symbol
                              /\ In(state, r).count = 0
  <1>1. r.symbol \in Symbols
    BY DEF Sock
  <1>2. CASE state = "free"
    BY <1>2, FreeSockType DEF In
  <1>3. CASE state # "free"
    BY <1>1, <1>3, FreshSock DEF In, Fresh, Sock
  <1> QED BY <1>2, <1>3

(* close() leaves a socket that delivers nothing but its close event.      *)
LEMMA AfterCloseSock ==
  ASSUME PageAssumption, NEW r \in Sock
  PROVE  /\ AfterClose(r) \in Sock
         /\ AfterClose(r).state \in Dead
         /\ AfterClose(r).state = "free" <=> r.state \in {"free", "closed"}
  <1>1. CASE r.state = "connecting"
    BY <1>1, InSock DEF AfterClose, SockStates, Dead
  <1>2. CASE r.state \in {"open", "live", "refused", "ended"}
    BY <1>2, InSock DEF AfterClose, SockStates, Dead
  <1>3. CASE r.state = "closed"
    BY <1>3, FreeSockType DEF AfterClose, Dead
  <1>4. CASE r.state \in {"free", "aborted", "closing"}
    BY <1>4 DEF AfterClose, Dead
  <1>5. r.state \in SockStates
    BY DEF Sock
  <1> QED BY <1>1, <1>2, <1>3, <1>4, <1>5 DEF SockStates

(* closeSocket: what is left, and what is remembered.                      *)
LEMMA CloseSocketStep ==
  ASSUME PageAssumption, TypeOK, Current, OneStream
  PROVE  /\ SockAfterClose \in [Sockets -> Sock]
         /\ \A k \in Sockets : SockAfterClose[k].state \in Dead
         /\ Remembered =
              {k \in Sockets :
                 SockAfterClose[k].state \in {"aborted", "closing"}}
  <1>1. CASE socket = NoSocket
    <2>1. SockAfterClose = sock
      BY <1>1 DEF SockAfterClose
    <2>2. Remembered = intentional
      BY <1>1 DEF Remembered, PageAssumption
    <2>3. \A k \in Sockets : k # socket
      BY <1>1 DEF PageAssumption
    <2> QED BY <2>1, <2>2, <2>3 DEF OneStream, TypeOK
  <1>2. CASE socket # NoSocket
    <2>1. socket \in Sockets /\ sock \in [Sockets -> Sock]
      BY <1>2 DEF TypeOK
    <2>2. SockAfterClose = [sock EXCEPT ![socket] = AfterClose(sock[socket])]
      BY <1>2 DEF SockAfterClose
    <2>3. /\ AfterClose(sock[socket]) \in Sock
          /\ AfterClose(sock[socket]).state \in Dead
          /\ AfterClose(sock[socket]).state = "free"
               <=> sock[socket].state \in {"free", "closed"}
      BY <2>1, AfterCloseSock
    <2>4. sock[socket].state # "free"
      BY <1>2 DEF Current, Trying
    <2>5. ASSUME NEW k \in Sockets
          PROVE  k \in Remembered
                   <=> SockAfterClose[k].state \in {"aborted", "closing"}
      <3>1. CASE k = socket
        BY <2>1, <2>2, <2>3, <2>4, <3>1 DEF Remembered, Dead, OneStream,
           Current, Trying
      <3>2. CASE k # socket
        BY <2>1, <2>2, <3>2 DEF Remembered, OneStream
      <3> QED BY <3>1, <3>2
    <2>6. Remembered \subseteq Sockets
      BY DEF Remembered, OneStream
    <2>7. \A k \in Sockets : SockAfterClose[k].state \in Dead
      BY <2>1, <2>2, <2>3 DEF OneStream
    <2> QED BY <2>1, <2>2, <2>3, <2>5, <2>6, <2>7
  <1> QED BY <1>1, <1>2

(* openStream: the new socket is the only one alive.                       *)
LEMMA OpenStreamStep ==
  ASSUME PageAssumption, TypeOK, Current, OneStream, NEW s \in Symbols,
         OpenStream(s)
  PROVE  /\ socket' \in Sockets
         /\ sock' \in [Sockets -> Sock]
         /\ sock'[socket'] = Fresh(s)
         /\ timer' = NoTimer
         /\ phase' = "reconnecting"
         /\ intentional' \subseteq Sockets
         /\ Current'
         /\ OneStream'
         /\ socket' \notin intentional'
  <1>1. PICK k \in Sockets :
          /\ SockAfterClose[k].state = "free"
          /\ sock' = [SockAfterClose EXCEPT ![k] = Fresh(s)]
          /\ socket' = k
    BY DEF OpenStream
  <1>2. /\ intentional' = Remembered
        /\ timer' = NoTimer
        /\ phase' = "reconnecting"
    BY DEF OpenStream, TimerAfterClose
  <1>3. /\ SockAfterClose \in [Sockets -> Sock]
        /\ \A j \in Sockets : SockAfterClose[j].state \in Dead
        /\ Remembered =
             {j \in Sockets :
                SockAfterClose[j].state \in {"aborted", "closing"}}
    BY CloseSocketStep
  <1>4. sock' \in [Sockets -> Sock] /\ sock'[k] = Fresh(s)
    BY <1>1, <1>3, FreshSock
  <1>5. \A j \in Sockets \ {k} : sock'[j] = SockAfterClose[j]
    BY <1>1, <1>3
  <1>6. Fresh(s).state = "connecting"
    BY FreshSock
  <1>7. k \notin intentional'
    BY <1>1, <1>2, <1>3
  <1>8. intentional' =
          {j \in Sockets : sock'[j].state \in {"aborted", "closing"}}
    BY <1>2, <1>3, <1>4, <1>5, <1>6, <1>7
  <1>9. OneStream'
    BY <1>1, <1>3, <1>5, <1>8 DEF OneStream, Dead
  <1>10. Current'
    BY <1>1, <1>4, <1>6 DEF Current, Trying
  <1> QED BY <1>1, <1>2, <1>4, <1>7, <1>8, <1>9, <1>10
-----------------------------------------------------------------------------
(* The steps, as the proofs split them.  Steps of a kind share a case: a   *)
(* request is sent, the page opens a stream, a socket makes progress, a    *)
(* close event is delivered, a snapshot is applied.                        *)

Sends == \/ \E choice \in {"on", "off"} : SetTradingEnabled(choice)
         \/ \E n \in Networks : SetNetwork(n)
         \/ SubmitOrder
         \/ PollHealth

Replied(c) == \/ StatusArrives(c) \/ WriteArrives(c) \/ CallFails(c)
              \/ /\ HealthArrives(c)
                 /\ calls[c].answer.network = status.network

Reopens(c) == \/ NetworkArrives(c)
              \/ /\ HealthArrives(c)
                 /\ calls[c].answer.network # status.network

ServerSide == \/ OtherWindow \/ Restart
              \/ \E k \in Sockets :
                   ServeStream(k) \/ RefuseStream(k) \/ BreakStream(k)

Closes(k) == ConnectFails(k) \/ AbortedCloses(k) \/ SocketCloses(k)

LEMMA StepCases ==
  ASSUME NEW ACTION P, Next,
         ASSUME NEW s \in Symbols, SetSymbol(s) PROVE P,
         ASSUME SetInterval PROVE P,
         ASSUME SetRefreshInterval PROVE P,
         ASSUME Sends PROVE P,
         ASSUME Destroy PROVE P,
         ASSUME NEW c \in Calls, Serve(c) PROVE P,
         ASSUME ServerSide PROVE P,
         ASSUME NEW c \in Calls, BootstrapArrives(c) PROVE P,
         ASSUME NEW c \in Calls, BootstrapFails(c) PROVE P,
         ASSUME NEW c \in Calls, Replied(c) PROVE P,
         ASSUME NEW c \in Calls, Reopens(c) PROVE P,
         ASSUME TimerFires PROVE P,
         ASSUME NEW k \in Sockets, SocketOpens(k) PROVE P,
         ASSUME NEW k \in Sockets, SnapshotArrives(k) PROVE P,
         ASSUME NEW k \in Sockets, NEW t \in EventTypes,
                NEW s \in {"connected", "disconnected"}, EventArrives(k, t, s)
         PROVE P,
         ASSUME NEW k \in Sockets, ErrorArrives(k) PROVE P,
         ASSUME NEW k \in Sockets, Closes(k) PROVE P
  PROVE  P
  <1>1. CASE UserNext
    BY <1>1 DEF UserNext, Sends
  <1>2. CASE BackendNext
    BY <1>2 DEF BackendNext, ServerSide
  <1>3. CASE ReplyNext
    <2>1. ASSUME NEW c \in Calls, HealthArrives(c) PROVE P
      BY <2>1 DEF HealthArrives, Replied, Reopens
    <2> QED BY <1>3, <2>1 DEF ReplyNext, Sends, Replied, Reopens
  <1>4. CASE SocketNext
    BY <1>4 DEF SocketNext, Closes
  <1> QED BY <1>1, <1>2, <1>3, <1>4 DEF Next

(* A socket that is not given up makes progress, or loses the server.      *)
Progress ==
  /\ UNCHANGED <<socket, timer, intentional, destroyed>>
  /\ sock' \in [Sockets -> Sock]
  /\ \A k \in Sockets :
       /\ sock'[k].symbol = sock[k].symbol
       /\ \/ sock'[k] = sock[k]
          \/ sock[k].state \in Trying /\ sock'[k].state \in Trying

LEMMA BecomesProgress ==
  ASSUME PageAssumption, TypeOK, NEW k \in Sockets, NEW state \in Trying,
         sock[k].state \in Trying, Becomes(k, state),
         UNCHANGED <<socket, timer, intentional, destroyed>>
  PROVE  Progress /\ sock'[k].count = 0
  <1>1. sock \in [Sockets -> Sock] /\ sock[k] \in Sock
    BY DEF TypeOK
  <1>2. state \in SockStates /\ state # "free"
    BY DEF Trying, SockStates
  <1>3. sock' = [sock EXCEPT ![k] = In(state, sock[k])]
    BY DEF Becomes
  <1>4. /\ In(state, sock[k]) \in Sock
        /\ In(state, sock[k]).state = state
        /\ In(state, sock[k]).symbol = sock[k].symbol
        /\ In(state, sock[k]).count = 0
    BY <1>1, <1>2, InSock
  <1>5. sock' \in [Sockets -> Sock]
    BY <1>1, <1>3, <1>4
  <1>6. sock'[k] = In(state, sock[k])
    BY <1>1, <1>3
  <1>7. \A j \in Sockets \ {k} : sock'[j] = sock[j]
    BY <1>1, <1>3
  <1>8. \A j \in Sockets :
          /\ sock'[j].symbol = sock[j].symbol
          /\ \/ sock'[j] = sock[j]
             \/ sock[j].state \in Trying /\ sock'[j].state \in Trying
    BY <1>4, <1>6, <1>7
  <1> QED BY <1>4, <1>5, <1>6, <1>8 DEF Progress

(* Sockets that all lose the server.                                       *)
LEMMA EndingProgress ==
  ASSUME PageAssumption, TypeOK, NEW Lost \in SUBSET Sockets,
         \A k \in Lost : sock[k].state \in Trying,
         sock' = [k \in Sockets |-> IF k \in Lost THEN In("ended", sock[k])
                                                  ELSE sock[k]],
         UNCHANGED <<socket, timer, intentional, destroyed>>
  PROVE  /\ Progress
         /\ \A k \in Sockets : sock'[k].state = "live" => sock'[k] = sock[k]
  <1>1. \A k \in Sockets : sock[k] \in Sock
    BY DEF TypeOK
  <1>2. "ended" \in SockStates /\ "ended" # "free" /\ "ended" \in Trying
    BY DEF SockStates, Trying
  <1>3. \A k \in Sockets :
          /\ In("ended", sock[k]) \in Sock
          /\ In("ended", sock[k]).state = "ended"
          /\ In("ended", sock[k]).symbol = sock[k].symbol
    BY <1>1, <1>2, InSock
  <1> QED BY <1>1, <1>2, <1>3 DEF Progress

(* Every step of the other side is progress, and makes no socket live that *)
(* has messages behind it.                                                 *)
LEMMA ServerSideProgress ==
  ASSUME PageAssumption, TypeOK,
         ServerSide \/ \E c \in Calls : Serve(c)
  PROVE  /\ Progress
         /\ UNCHANGED view
         /\ \A k \in Sockets :
              sock'[k].state = "live" =>
                sock'[k] = sock[k] \/ sock'[k].count = 0
  <1>1. ASSUME NEW n, sock' = EndedBy(n), PageUnchanged
        PROVE  /\ Progress
               /\ \A k \in Sockets : sock'[k].state = "live" =>
                                       sock'[k] = sock[k]
    <2> DEFINE Lost == {k \in Sockets : sock[k].state = "live"
                                          /\ n # srv.network}
    <2>1. \A k \in Lost : sock[k].state \in Trying
      BY DEF Trying
    <2>2. sock' = [k \in Sockets |-> IF k \in Lost THEN In("ended", sock[k])
                                                   ELSE sock[k]]
      BY <1>1 DEF EndedBy
    <2>3. UNCHANGED <<socket, timer, intentional, destroyed>>
      BY <1>1 DEF PageUnchanged
    <2> HIDE DEF Lost
    <2>4. Lost \in SUBSET Sockets
      BY DEF Lost
    <2> QED BY <2>1, <2>2, <2>3, <2>4, EndingProgress
  <1>2. ASSUME UNCHANGED sock, PageUnchanged
        PROVE  /\ Progress
               /\ \A k \in Sockets : sock'[k] = sock[k]
    BY <1>2 DEF Progress, PageUnchanged, TypeOK
  <1>3. ASSUME NEW c \in Calls, Serve(c)
        PROVE  /\ PageUnchanged
               /\ \/ UNCHANGED sock
                  \/ \E n \in {calls[c].arg} : sock' = EndedBy(n)
    BY <1>3 DEF Serve, Switch, Toggle
  <1>4. CASE OtherWindow
    BY <1>1, <1>2, <1>4 DEF OtherWindow, Switch, Toggle, PageUnchanged
  <1>5. CASE Restart
    <2> DEFINE Lost ==
          {k \in Sockets : sock[k].state \in {"open", "live", "refused"}}
    <2>1. \A k \in Lost : sock[k].state \in Trying
      BY DEF Trying
    <2>2. sock' = [k \in Sockets |-> IF k \in Lost THEN In("ended", sock[k])
                                                   ELSE sock[k]]
      BY <1>5 DEF Restart
    <2>3. UNCHANGED <<socket, timer, intentional, destroyed, view>>
      BY <1>5 DEF Restart, PageUnchanged
    <2> HIDE DEF Lost
    <2>4. Lost \in SUBSET Sockets
      BY DEF Lost
    <2> QED BY <2>1, <2>2, <2>3, <2>4, EndingProgress
  <1>6. ASSUME NEW k \in Sockets,
               ServeStream(k) \/ RefuseStream(k) \/ BreakStream(k)
        PROVE  /\ Progress
               /\ UNCHANGED view
               /\ sock'[k].count = 0
               /\ \A j \in Sockets \ {k} : sock'[j] = sock[j]
    <2>1. PICK state \in {"live", "refused", "ended"} : Becomes(k, state)
      BY <1>6 DEF ServeStream, RefuseStream, BreakStream
    <2>2. /\ sock[k].state \in Trying
          /\ PageUnchanged
      BY <1>6 DEF ServeStream, RefuseStream, BreakStream, Trying
    <2>3. Progress /\ sock'[k].count = 0
      BY <2>1, <2>2, BecomesProgress DEF Trying, PageUnchanged
    <2>4. \A j \in Sockets \ {k} : sock'[j] = sock[j]
      BY <2>1 DEF Becomes, TypeOK
    <2> QED BY <2>2, <2>3, <2>4 DEF PageUnchanged
  <1>7. ASSUME NEW c \in Calls, Serve(c)
        PROVE  /\ Progress /\ UNCHANGED view
               /\ \A k \in Sockets : sock'[k].state = "live" =>
                                       sock'[k] = sock[k]
    BY <1>1, <1>2, <1>3, <1>7 DEF PageUnchanged
  <1>8. CASE ServerSide
    BY <1>4, <1>5, <1>6, <1>8 DEF ServerSide, OtherWindow, PageUnchanged
  <1> QED BY <1>7, <1>8

(* The page opens streams only while it lives, and of known symbols.       *)
PageOpens ==
  \/ \E s \in Symbols : SetSymbol(s)
  \/ SetInterval
  \/ \E c \in Calls : Reopens(c)
  \/ TimerFires

LEMMA OpensWhileAlive ==
  ASSUME PInv, PageOpens
  PROVE  /\ ~destroyed /\ ~destroyed'
         /\ \E s \in Symbols : OpenStream(s)
  <1>1. selected \in Symbols /\ timer \in Symbols \union {NoTimer}
    BY DEF PInv, TypeOK
  <1>2. ASSUME NEW c \in Calls, Reopens(c)
        PROVE  ~destroyed /\ ~destroyed' /\ OpenStream(selected)
    <2>1. calls[c].kind \in {"network", "health"}
      BY <1>2 DEF Reopens, NetworkArrives, HealthArrives, Answered
    <2>2. ~destroyed
      BY <2>1 DEF PInv, Requests
    <2>3. UNCHANGED destroyed /\ OpenStream(selected)
      BY <1>2 DEF Reopens, NetworkArrives, HealthArrives, Bootstrap
    <2> QED BY <2>2, <2>3
  <1>3. CASE TimerFires
    <2>1. timer # NoTimer /\ OpenStream(timer) /\ UNCHANGED destroyed
      BY <1>3 DEF TimerFires
    <2>2. ~destroyed
      BY <2>1 DEF PInv, QuietAfterDestroy
    <2> QED BY <1>1, <2>1, <2>2
  <1>4. CASE SetInterval
    BY <1>1, <1>4 DEF SetInterval, User, Bootstrap
  <1>5. ASSUME NEW s \in Symbols, SetSymbol(s)
        PROVE  ~destroyed /\ ~destroyed' /\ OpenStream(s)
    BY <1>5 DEF SetSymbol, User, Bootstrap
  <1> QED BY <1>1, <1>2, <1>3, <1>4, <1>5 DEF PageOpens

(* The events of a socket that is alive.                                   *)
LEMMA SocketProgress ==
  ASSUME PageAssumption, TypeOK, NEW k \in Sockets,
         \/ SocketOpens(k) \/ SnapshotArrives(k) \/ ErrorArrives(k)
         \/ \E t \in EventTypes, s \in {"connected", "disconnected"} :
              EventArrives(k, t, s)
  PROVE  Progress
  <1>1. sock \in [Sockets -> Sock] /\ sock[k] \in Sock
    BY DEF TypeOK
  <1>2. CASE SocketOpens(k)
    BY <1>2, BecomesProgress DEF SocketOpens, Trying
  <1>3. CASE ErrorArrives(k)
    BY <1>3, BecomesProgress DEF ErrorArrives, Trying
  <1>4. CASE SnapshotArrives(k)
    <2>1. sock' = [sock EXCEPT ![k] = [sock[k] EXCEPT !.count = 1]]
      BY <1>4 DEF SnapshotArrives
    <2>2. [sock[k] EXCEPT !.count = 1] \in Sock
      BY <1>1 DEF Sock, PageAssumption
    <2>3. sock[k].state = "live" /\ [sock[k] EXCEPT !.count = 1].state = "live"
          /\ [sock[k] EXCEPT !.count = 1].symbol = sock[k].symbol
      BY <1>1, <1>4 DEF SnapshotArrives, Sock
    <2>4. UNCHANGED <<socket, timer, intentional, destroyed>>
      BY <1>4 DEF SnapshotArrives
    <2> QED BY <1>1, <2>1, <2>2, <2>3, <2>4 DEF Progress, Trying
  <1>5. ASSUME NEW t \in EventTypes, NEW s \in {"connected", "disconnected"},
               EventArrives(k, t, s)
        PROVE  Progress
    <2> DEFINE n == sock[k].count + 1
               u == IF t = "connection" THEN s ELSE sock[k].upstream
               r == [sock[k] EXCEPT !.count = n, !.upstream = u]
    <2>1. sock' = [sock EXCEPT ![k] = r]
      BY <1>5 DEF EventArrives
    <2>2. n \in 0..MaxSequence /\ sock[k].state = "live"
      BY <1>5 DEF EventArrives, PageAssumption
    <2>3. r \in Sock /\ r.state = "live" /\ r.symbol = sock[k].symbol
      BY <1>1, <2>2 DEF Sock
    <2>4. UNCHANGED <<socket, timer, intentional, destroyed>>
      BY <1>5 DEF EventArrives
    <2> HIDE DEF r
    <2> QED BY <1>1, <2>1, <2>2, <2>3, <2>4 DEF Progress, Trying
  <1> QED BY <1>2, <1>3, <1>4, <1>5

-----------------------------------------------------------------------------
(* The sockets.                                                            *)

SocketInv == Current /\ OneStream /\ NeverStranded /\ QuietAfterDestroy

LEMMA ProgressKeeps ==
  ASSUME TypeOK, SocketInv, Progress
  PROVE  SocketInv'
  <1>1. UNCHANGED <<socket, timer, intentional, destroyed>>
    BY DEF Progress
  <1>2. \A k \in Sockets :
          \/ sock'[k].state = sock[k].state
          \/ sock[k].state \in Trying /\ sock'[k].state \in Trying
    BY DEF Progress
  <1>3. socket \in Sockets \union {NoSocket}
    BY DEF TypeOK
  <1>4. Current' /\ NeverStranded'
    BY <1>1, <1>2, <1>3 DEF SocketInv, Current, NeverStranded, Trying
  <1>5. OneStream'
    BY <1>1, <1>2 DEF SocketInv, OneStream, Trying, Dead
  <1>6. QuietAfterDestroy'
    BY <1>1 DEF SocketInv, QuietAfterDestroy
  <1> QED BY <1>4, <1>5, <1>6 DEF SocketInv

(* A close event: the page schedules a reconnect unless it closed.         *)
LEMMA CloseEventKeeps ==
  ASSUME PageAssumption, TypeOK, SocketInv, NEW k \in Sockets, Closes(k)
  PROVE  /\ SocketInv'
         /\ sock' \in [Sockets -> Sock]
         /\ timer' \in Symbols \union {NoTimer}
         /\ timer' # timer => timer' = sock[k].symbol /\ k = socket
         /\ socket # NoSocket => sock'[socket].symbol = sock[socket].symbol
         /\ \A j \in Sockets : sock'[j].state = "live" => sock'[j] = sock[j]
  <1>1. sock \in [Sockets -> Sock] /\ sock[k] \in Sock
    BY DEF TypeOK
  <1>2. /\ sock[k].state \in {"connecting", "aborted", "ended", "closing"}
        /\ \E failed \in BOOLEAN : CloseEvent(k, failed)
    BY DEF Closes, ConnectFails, AbortedCloses, SocketCloses
  <1> DEFINE state == IF k = socket THEN "closed" ELSE "free"
             r == In(state, sock[k])
  <1>3. /\ sock' = [sock EXCEPT ![k] = r]
        /\ intentional' = intentional \ {k}
        /\ UNCHANGED <<socket, destroyed>>
        /\ \/ /\ ReconnectsAfter(k)
              /\ timer' = sock[k].symbol
           \/ /\ ~ReconnectsAfter(k)
              /\ UNCHANGED timer
    BY <1>2 DEF CloseEvent, Becomes, ScheduleReconnect
  <1>4. state \in SockStates
    BY DEF SockStates
  <1>5. r \in Sock /\ r.state = state
        /\ (k = socket => r.symbol = sock[k].symbol)
    BY <1>1, <1>4, InSock
  <1> HIDE DEF r
  <1>6. sock' \in [Sockets -> Sock] /\ sock'[k] = r
        /\ \A j \in Sockets \ {k} : sock'[j] = sock[j]
    BY <1>1, <1>3, <1>5
  <1>7. ReconnectsAfter(k) => k = socket
    BY <1>2 DEF ReconnectsAfter, ClosedOnPurpose, SocketInv, OneStream, Dead
  <1>8. k = socket => k \notin intentional
    BY DEF SocketInv, OneStream, Current, Trying, PageAssumption
  <1>9. Current'
    BY <1>3, <1>5, <1>6 DEF SocketInv, Current, TypeOK
  <1>10. OneStream'
    <2>1. \A j \in Sockets \ {socket} : sock'[j].state \in Dead
      BY <1>3, <1>5, <1>6 DEF SocketInv, OneStream, Dead
    <2>2. intentional' =
            {j \in Sockets : sock'[j].state \in {"aborted", "closing"}}
      BY <1>3, <1>5, <1>6 DEF SocketInv, OneStream
    <2> QED BY <1>3, <2>1, <2>2 DEF OneStream
  <1>11. NeverStranded'
    <2>1. CASE k = socket /\ ~destroyed
      <3>1. ReconnectsAfter(k)
        BY <1>8, <2>1 DEF ReconnectsAfter, ClosedOnPurpose
      <3>2. timer' = sock[k].symbol
        BY <1>3, <3>1
      <3>3. timer' # NoTimer
        BY <1>1, <3>2 DEF Sock, PageAssumption
      <3> QED BY <3>3 DEF NeverStranded
    <2>2. CASE k # socket
      BY <1>3, <1>6, <1>7, <2>2 DEF SocketInv, NeverStranded, TypeOK
    <2>3. CASE destroyed
      BY <1>3, <2>3 DEF NeverStranded
    <2> QED BY <2>1, <2>2, <2>3
  <1>12. QuietAfterDestroy'
    BY <1>3 DEF SocketInv, QuietAfterDestroy, ReconnectsAfter
  <1>13. timer' \in Symbols \union {NoTimer}
    BY <1>1, <1>3 DEF TypeOK, Sock
  <1>14. socket # NoSocket => sock'[socket].symbol = sock[socket].symbol
    BY <1>5, <1>6 DEF TypeOK
  <1>15. \A j \in Sockets : sock'[j].state = "live" => sock'[j] = sock[j]
    BY <1>5, <1>6
  <1> QED BY <1>3, <1>6, <1>7, <1>9, <1>10, <1>11, <1>12, <1>13, <1>14, <1>15
          DEF SocketInv

(* The steps that touch no socket and no timer.                            *)
Elsewhere == \/ Sends
             \/ \E c \in Calls : \/ Replied(c) \/ BootstrapArrives(c)
                                 \/ BootstrapFails(c)

LEMMA ElsewhereFrame ==
  ASSUME Elsewhere
  PROVE  UNCHANGED <<socket, timer, intentional, sock, destroyed>>
  <1>1. CASE Sends
    BY <1>1 DEF Sends, SetTradingEnabled, SetNetwork, SubmitOrder, PollHealth,
                stream
  <1>2. ASSUME NEW c \in Calls, Replied(c)
        PROVE  UNCHANGED <<socket, timer, intentional, sock, destroyed>>
    BY <1>2 DEF Replied, StatusArrives, WriteArrives, CallFails,
                HealthArrives, stream
  <1>3. ASSUME NEW c \in Calls, BootstrapArrives(c) \/ BootstrapFails(c)
        PROVE  UNCHANGED <<socket, timer, intentional, sock, destroyed>>
    BY <1>3 DEF BootstrapArrives, BootstrapFails
  <1> QED BY <1>1, <1>2, <1>3 DEF Elsewhere

LEMMA SocketInvStep ==
  ASSUME PageAssumption, PInv, Next
  PROVE  SocketInv'
  <1>0. TypeOK /\ SocketInv
    BY DEF PInv, SocketInv
  <1>1. CASE PageOpens
    <2>1. /\ ~destroyed'
          /\ \E s \in Symbols : OpenStream(s)
      BY <1>1, OpensWhileAlive
    <2>2. PICK s \in Symbols : OpenStream(s)
      BY <2>1
    <2>3. /\ socket' \in Sockets
          /\ sock'[socket'] = Fresh(s)
          /\ Current' /\ OneStream'
          /\ socket' \notin intentional'
      BY <1>0, <2>2, OpenStreamStep DEF SocketInv
    <2>4. sock'[socket'].state = "connecting"
      BY <2>3, FreshSock
    <2>5. NeverStranded'
      BY <2>3, <2>4 DEF NeverStranded, Trying, PageAssumption
    <2> QED BY <2>1, <2>3, <2>5 DEF SocketInv, QuietAfterDestroy
  <1>2. CASE Elsewhere
    BY <1>0, <1>2, ElsewhereFrame
       DEF SocketInv, Current, OneStream, NeverStranded, QuietAfterDestroy
  <1>3. CASE ServerSide \/ \E c \in Calls : Serve(c)
    BY <1>0, <1>3, ServerSideProgress, ProgressKeeps
  <1>4. ASSUME NEW k \in Sockets,
               \/ SocketOpens(k) \/ SnapshotArrives(k) \/ ErrorArrives(k)
               \/ \E t \in EventTypes, s \in {"connected", "disconnected"} :
                    EventArrives(k, t, s)
        PROVE  SocketInv'
    BY <1>0, <1>4, SocketProgress, ProgressKeeps
  <1>5. ASSUME NEW k \in Sockets, Closes(k) PROVE SocketInv'
    BY <1>0, <1>5, CloseEventKeeps
  <1>6. CASE Destroy
    <2>1. /\ destroyed'
          /\ sock' = SockAfterClose
          /\ intentional' = Remembered
          /\ timer' = NoTimer
          /\ socket' = NoSocket
      BY <1>6 DEF Destroy, TimerAfterClose
    <2>2. /\ \A k \in Sockets : SockAfterClose[k].state \in Dead
          /\ Remembered =
               {k \in Sockets :
                  SockAfterClose[k].state \in {"aborted", "closing"}}
      BY <1>0, CloseSocketStep DEF SocketInv
    <2> QED BY <2>1, <2>2 DEF SocketInv, Current, OneStream, NeverStranded,
                              QuietAfterDestroy
  <1>7. CASE SetRefreshInterval
    <2>1. /\ timer' = selected
          /\ ~destroyed
          /\ UNCHANGED <<socket, intentional, sock, destroyed>>
      BY <1>7 DEF SetRefreshInterval, ScheduleReconnect, User
    <2>2. timer' # NoTimer
      BY <1>0, <2>1 DEF TypeOK, PageAssumption
    <2> QED BY <1>0, <2>1, <2>2 DEF SocketInv, Current, OneStream,
                                    NeverStranded, QuietAfterDestroy
  <1> QED BY <1>1, <1>2, <1>3, <1>4, <1>5, <1>6, <1>7, StepCases
          DEF PageOpens, Elsewhere
-----------------------------------------------------------------------------
(* The requests.                                                           *)

LEMMA CallTypes ==
  ASSUME NEW kind \in Kinds, NEW arg \in Args
  PROVE  /\ NewCall(kind, arg) \in Call
         /\ NewCall(kind, arg).kind = kind
         /\ NewCall(kind, arg).arg = arg
         /\ ~NewCall(kind, arg).overtaken
         /\ FreeCall \in Call
         /\ FreeCall.kind = "none"
  BY DEF NewCall, FreeCall, Call, Kinds, Args, Status, AtStart,
         Networks

LEMMA SendStep ==
  ASSUME NEW base \in [Calls -> Call], NEW kind \in Kinds, NEW arg \in Args,
         Send(base, kind, arg)
  PROVE  /\ calls' \in [Calls -> Call]
         /\ \A c \in Calls : \/ calls'[c] = NewCall(kind, arg)
                             \/ calls'[c] = base[c]
  <1>1. NewCall(kind, arg) \in Call
    BY CallTypes
  <1> QED BY <1>1 DEF Send

LEMMA BootstrapStep ==
  ASSUME NEW base \in [Calls -> Call], NEW s \in Symbols, Bootstrap(base, s)
  PROVE  /\ calls' \in [Calls -> Call]
         /\ \A c \in Calls :
              \/ calls'[c] = NewCall("bootstrap", s)
              \/ /\ calls'[c].kind = base[c].kind
                 /\ calls'[c].arg = base[c].arg
                 /\ base[c].kind = "bootstrap" => calls'[c].overtaken
         /\ OpenStream(s)
         /\ disturbed' = FALSE
  <1> DEFINE later ==
        [c \in Calls |->
           [base[c] EXCEPT !.overtaken = base[c].kind = "bootstrap"]]
  <1>1. Send(later, "bootstrap", s) /\ OpenStream(s) /\ disturbed' = FALSE
    BY DEF Bootstrap, SendBootstrap
  <1>2. \A c \in Calls :
          /\ later[c] \in Call
          /\ later[c].kind = base[c].kind
          /\ later[c].arg = base[c].arg
          /\ base[c].kind = "bootstrap" => later[c].overtaken
    BY DEF Call
  <1>3. later \in [Calls -> Call]
    BY <1>2
  <1> HIDE DEF later
  <1>4. "bootstrap" \in Kinds /\ s \in Args
    BY DEF Kinds, Args
  <1>5. /\ calls' \in [Calls -> Call]
        /\ \A c \in Calls : \/ calls'[c] = NewCall("bootstrap", s)
                            \/ calls'[c] = later[c]
    BY <1>1, <1>3, <1>4, SendStep
  <1> QED BY <1>1, <1>2, <1>5

LEMMA DoneStep ==
  ASSUME TypeOK, NEW c \in Calls
  PROVE  /\ Done(c) \in [Calls -> Call]
         /\ Done(c)[c] = FreeCall
         /\ \A d \in Calls \ {c} : Done(c)[d] = calls[d]
  <1>1. FreeCall \in Call
    BY CallTypes DEF Kinds, Args
  <1> QED BY <1>1 DEF Done, TypeOK

(* The page's bootstraps: the symbol asked for is the one selected.        *)
LEMMA PageBootstraps ==
  ASSUME PInv,
         \/ \E s \in Symbols : SetSymbol(s)
         \/ SetInterval
         \/ \E c \in Calls : Reopens(c)
  PROVE  /\ selected' \in Symbols
         /\ \E base \in [Calls -> Call] :
              /\ Bootstrap(base, selected')
              /\ \A d \in Calls : base[d] = calls[d] \/ base[d] = FreeCall
         /\ ~destroyed'
  <1>0. selected \in Symbols /\ calls \in [Calls -> Call] /\ TypeOK
    BY DEF PInv, TypeOK
  <1>1. ASSUME NEW s \in Symbols, SetSymbol(s)
        PROVE  Bootstrap(calls, s) /\ selected' = s /\ ~destroyed'
    BY <1>1 DEF SetSymbol, User
  <1>2. CASE SetInterval
    BY <1>0, <1>2 DEF SetInterval, User
  <1>3. ASSUME NEW c \in Calls, Reopens(c)
        PROVE  Bootstrap(Done(c), selected) /\ UNCHANGED selected
    BY <1>3 DEF Reopens, NetworkArrives, HealthArrives
  <1>4. ~destroyed'
    BY OpensWhileAlive DEF PageOpens
  <1>5. ASSUME NEW c \in Calls
        PROVE  /\ Done(c) \in [Calls -> Call]
               /\ \A d \in Calls : \/ Done(c)[d] = calls[d]
                                   \/ Done(c)[d] = FreeCall
    BY <1>0, DoneStep
  <1> QED BY <1>0, <1>1, <1>2, <1>3, <1>4, <1>5

(* The steps that only send a request of the page, or end one.             *)
LEMMA SendsStep ==
  ASSUME PInv, Sends
  PROVE  /\ calls' \in [Calls -> Call]
         /\ \A c \in Calls :
              \/ calls'[c] = calls[c]
              \/ \E kind \in {"arm", "network", "write", "health"},
                    arg \in Args :
                   /\ calls'[c] = NewCall(kind, arg)
                   /\ kind = "network" => arg \in Networks
         /\ ~destroyed
         /\ UNCHANGED <<status, srv, view>>
  <1>0. calls \in [Calls -> Call]
    BY DEF PInv, TypeOK
  <1>1. ASSUME NEW choice \in {"on", "off"}, SetTradingEnabled(choice)
        PROVE  Send(calls, "arm", choice) /\ ~destroyed
               /\ UNCHANGED <<status, srv, view>>
    BY <1>1 DEF SetTradingEnabled, User
  <1>2. ASSUME NEW n \in Networks, SetNetwork(n)
        PROVE  Send(calls, "network", n) /\ ~destroyed
               /\ UNCHANGED <<status, srv, view>>
    BY <1>2 DEF SetNetwork, User
  <1>3. CASE SubmitOrder
    <2>1. Send(calls, "write", "none") /\ ~destroyed
          /\ UNCHANGED <<status, srv, view>>
      BY <1>3 DEF SubmitOrder, User
    <2>2. "none" \in Args /\ "write" \in Kinds
      BY DEF Args, Kinds
    <2> QED BY <1>0, <2>1, <2>2, SendStep
  <1>4. CASE PollHealth
    <2>1. "none" \in Args /\ "health" \in Kinds
      BY DEF Args, Kinds
    <2>2. NewCall("health", "none") \in Call
      BY <2>1, CallTypes
    <2> QED BY <1>0, <1>4, <2>1, <2>2 DEF PollHealth
  <1>5. ASSUME NEW choice \in {"on", "off"}
        PROVE  choice \in Args /\ "arm" \in Kinds
    BY DEF Args, Kinds
  <1>6. ASSUME NEW n \in Networks PROVE n \in Args /\ "network" \in Kinds
    BY DEF Args, Kinds
  <1> QED BY <1>0, <1>1, <1>2, <1>3, <1>4, <1>5, <1>6, SendStep DEF Sends

LEMMA RepliedStep ==
  ASSUME PInv, NEW c \in Calls, Replied(c)
  PROVE  /\ calls' \in [Calls -> Call]
         /\ \/ calls'[c] = FreeCall
            \/ calls'[c] = NewCall("trading", "none")
         /\ \A d \in Calls \ {c} : calls'[d] = calls[d]
         /\ status' \in Status
         /\ UNCHANGED <<srv, view>>
  <1>0. TypeOK /\ calls[c] \in Call
    BY DEF PInv, TypeOK
  <1>1. NewCall("trading", "none") \in Call
    BY CallTypes DEF Kinds, Args
  <1>2. \/ calls' = Done(c)
        \/ calls' = [calls EXCEPT ![c] = NewCall("trading", "none")]
    BY DEF Replied, StatusArrives, WriteArrives, CallFails, HealthArrives
  <1>3. \/ UNCHANGED status
        \/ status' = calls[c].answer
    BY DEF Replied, StatusArrives, WriteArrives, CallFails, HealthArrives,
           ToldByHealth
  <1>4. status' \in Status
    BY <1>0, <1>3 DEF TypeOK, Call
  <1>5. UNCHANGED <<srv, view>>
    BY DEF Replied, StatusArrives, WriteArrives, CallFails, HealthArrives,
           view
  <1> QED BY <1>0, <1>1, <1>2, <1>4, <1>5, DoneStep DEF TypeOK

LEMMA ServeStep ==
  ASSUME PInv, NEW c \in Calls, Serve(c)
  PROVE  /\ calls' \in [Calls -> Call]
         /\ \A d \in Calls : /\ calls'[d].kind = calls[d].kind
                             /\ calls'[d].arg = calls[d].arg
                             /\ calls'[d].overtaken = calls[d].overtaken
         /\ srv' \in Status
  <1>0. TypeOK /\ calls[c] \in Call /\ srv \in Status
    BY DEF PInv, TypeOK
  <1>1. srv' \in Status
    <2>1. CASE calls[c].kind = "network"
      <3>1. srv' = [network |-> calls[c].arg, enabled |-> FALSE]
        BY <2>1 DEF Serve, Switch
      <3>2. calls[c].arg \in Networks
        BY <2>1 DEF PInv, Requests
      <3> QED BY <3>1, <3>2 DEF Status
    <2>2. CASE calls[c].kind = "arm"
      <3>1. srv' = [srv EXCEPT !.enabled = (calls[c].arg = "on")]
        BY <2>2 DEF Serve, Toggle
      <3> QED BY <1>0, <3>1 DEF Status
    <2>3. CASE calls[c].kind \notin {"network", "arm"}
      BY <1>0, <2>3 DEF Serve
    <2> QED BY <2>1, <2>2, <2>3
  <1> DEFINE answer == IF calls[c].kind \in StatusKinds THEN srv'
                                                        ELSE calls[c].answer
             r == [calls[c] EXCEPT !.stage = "answered", !.answer = answer]
  <1>2. calls' = [calls EXCEPT ![c] = r]
    BY DEF Serve
  <1>3. answer \in Status
    BY <1>0, <1>1 DEF Call
  <1>4. /\ r \in Call
        /\ r.kind = calls[c].kind
        /\ r.arg = calls[c].arg
        /\ r.overtaken = calls[c].overtaken
    BY <1>0, <1>3 DEF Call
  <1> HIDE DEF r
  <1> QED BY <1>0, <1>1, <1>2, <1>4 DEF TypeOK

(* The steps that leave the requests as they are.                          *)
CallFree ==
  \/ SetRefreshInterval \/ ServerSide \/ TimerFires
  \/ \E k \in Sockets :
       \/ SocketOpens(k) \/ SnapshotArrives(k) \/ ErrorArrives(k) \/ Closes(k)
       \/ \E t \in EventTypes, s \in {"connected", "disconnected"} :
            EventArrives(k, t, s)

LEMMA CallFreeFrame ==
  ASSUME CallFree
  PROVE  UNCHANGED <<calls, status, disturbed, destroyed>>
  BY DEF CallFree, SetRefreshInterval, ServerSide, OtherWindow, Restart,
         ServeStream, RefuseStream, BreakStream, PageUnchanged, view,
         TimerFires, SocketOpens, SnapshotArrives, ErrorArrives, Closes,
         ConnectFails, AbortedCloses, SocketCloses, CloseEvent, EventArrives

(* A reply to a bootstrap, whether it came or failed.                      *)
LEMMA SnapshotReply ==
  ASSUME PageAssumption, PInv, NEW c \in Calls,
         BootstrapArrives(c) \/ BootstrapFails(c)
  PROVE  /\ calls[c].kind = "bootstrap"
         /\ calls' = Done(c)
         /\ selected' \in Symbols
         /\ markets' \in {DemoSymbols, Symbols}
         /\ account' \in Accounts
         /\ isDemo' \in BOOLEAN
         /\ phase' \in Phases
         /\ sequenceByType' = NothingApplied
         /\ disturbed' \in BOOLEAN
         /\ ~disturbed' => /\ ~disturbed
                           /\ ~calls[c].overtaken
                           /\ selected' = calls[c].arg
         /\ UNCHANGED <<srv, status, socket, timer, intentional, sock,
                        destroyed>>
  <1>0. calls[c] \in Call /\ disturbed \in BOOLEAN
    BY DEF PInv, TypeOK
  <1>1. calls[c].kind = "bootstrap"
    BY DEF BootstrapArrives, BootstrapFails, Answered
  <1>2. calls[c].arg \in Symbols
    BY <1>1 DEF PInv, Requests
  <1>3. CASE BootstrapArrives(c)
    BY <1>0, <1>1, <1>2, <1>3
       DEF BootstrapArrives, ApplySnapshot, AppliedAfterSnapshot, Accounts,
           Phases, Call
  <1>4. CASE BootstrapFails(c)
    <2>1. FindMarket(calls[c].arg) \in Symbols
      BY <1>2 DEF FindMarket, PageAssumption
    <2> QED
      BY <1>0, <1>1, <1>2, <1>4, <2>1
         DEF BootstrapFails, ApplySnapshot, AppliedAfterSnapshot, Accounts,
             Phases, Call
  <1> QED BY <1>3, <1>4

LEMMA RequestsStep ==
  ASSUME PageAssumption, PInv, Next
  PROVE  calls' \in [Calls -> Call] /\ Requests'
  <1>0. TypeOK /\ Requests /\ calls \in [Calls -> Call]
    BY DEF PInv, TypeOK
  <1>1. /\ FreeCall \in Call /\ FreeCall.kind = "none"
        /\ NewCall("trading", "none").kind = "trading"
    BY CallTypes DEF Kinds, Args
  <1>2. CASE \/ \E s \in Symbols : SetSymbol(s)
             \/ SetInterval
             \/ \E c \in Calls : Reopens(c)
    <2>1. PICK base \in [Calls -> Call] :
            /\ Bootstrap(base, selected')
            /\ \A d \in Calls : base[d] = calls[d] \/ base[d] = FreeCall
      BY <1>2, PageBootstraps
    <2>2. selected' \in Symbols /\ ~destroyed'
      BY <1>2, PageBootstraps
    <2>3. /\ calls' \in [Calls -> Call]
          /\ \A c \in Calls :
               \/ calls'[c] = NewCall("bootstrap", selected')
               \/ /\ calls'[c].kind = base[c].kind
                  /\ calls'[c].arg = base[c].arg
      BY <2>1, <2>2, BootstrapStep
    <2>4. /\ NewCall("bootstrap", selected').kind = "bootstrap"
          /\ NewCall("bootstrap", selected').arg = selected'
      BY DEF NewCall
    <2>5. ASSUME NEW c \in Calls
          PROVE  /\ calls'[c].kind = "bootstrap" => calls'[c].arg \in Symbols
                 /\ calls'[c].kind = "network" => calls'[c].arg \in Networks
      BY <1>0, <1>1, <2>1, <2>2, <2>3, <2>4 DEF Requests
    <2> QED BY <2>2, <2>3, <2>5 DEF Requests
  <1>3. CASE Sends
    <2>1. /\ calls' \in [Calls -> Call]
          /\ ~destroyed
          /\ \A c \in Calls :
               \/ calls'[c] = calls[c]
               \/ \E kind \in {"arm", "network", "write", "health"},
                     arg \in Args :
                    /\ calls'[c] = NewCall(kind, arg)
                    /\ kind = "network" => arg \in Networks
      BY <1>3, SendsStep
    <2>2. UNCHANGED destroyed
      BY <1>3, ElsewhereFrame DEF Elsewhere
    <2>3. ASSUME NEW c \in Calls
          PROVE  /\ calls'[c].kind = "bootstrap" => calls'[c].arg \in Symbols
                 /\ calls'[c].kind = "network" => calls'[c].arg \in Networks
      BY <1>0, <2>1 DEF Requests, NewCall
    <2> QED BY <2>1, <2>2, <2>3 DEF Requests
  <1>4. ASSUME NEW c \in Calls, Replied(c)
        PROVE  calls' \in [Calls -> Call] /\ Requests'
    <2>1. UNCHANGED destroyed
      BY <1>4, ElsewhereFrame DEF Elsewhere
    <2> QED BY <1>0, <1>1, <1>4, <2>1, RepliedStep DEF Requests
  <1>5. ASSUME NEW c \in Calls, BootstrapArrives(c) \/ BootstrapFails(c)
        PROVE  calls' \in [Calls -> Call] /\ Requests'
    BY <1>0, <1>1, <1>5, SnapshotReply, DoneStep DEF Requests
  <1>6. ASSUME NEW c \in Calls, Serve(c)
        PROVE  calls' \in [Calls -> Call] /\ Requests'
    <2>1. UNCHANGED destroyed
      BY <1>6 DEF Serve, PageUnchanged
    <2> QED BY <1>0, <1>6, <2>1, ServeStep DEF Requests
  <1>7. CASE CallFree
    BY <1>0, <1>7, CallFreeFrame DEF Requests
  <1>8. CASE Destroy
    <2>1. calls' = [c \in Calls |->
                      IF calls[c].kind \in {"bootstrap", "trading"}
                        THEN calls[c] ELSE FreeCall]
      BY <1>8 DEF Destroy
    <2> QED BY <1>0, <1>1, <2>1 DEF Requests
  <1> QED BY <1>2, <1>3, <1>4, <1>5, <1>6, <1>7, <1>8, StepCases DEF CallFree
-----------------------------------------------------------------------------
(* The selection.                                                          *)

(* A stream of the selected symbol, and no later reply.                    *)
LEMMA SelectionStep ==
  ASSUME PageAssumption, PInv, Next
  PROVE  Selection'
  <1>0. TypeOK /\ SocketInv /\ Selection
    BY DEF PInv, SocketInv
  <1>1. CASE \/ \E s \in Symbols : SetSymbol(s)
             \/ SetInterval
             \/ \E c \in Calls : Reopens(c)
    <2>1. PICK base \in [Calls -> Call] : Bootstrap(base, selected')
      BY <1>1, PageBootstraps
    <2>2. selected' \in Symbols
      BY <1>1, PageBootstraps
    <2>3. /\ OpenStream(selected')
          /\ \A c \in Calls :
               \/ calls'[c] = NewCall("bootstrap", selected')
               \/ /\ calls'[c].kind = base[c].kind
                  /\ base[c].kind = "bootstrap" => calls'[c].overtaken
      BY <2>1, <2>2, BootstrapStep
    <2>4. sock'[socket'] = Fresh(selected') /\ timer' = NoTimer
      BY <1>0, <2>2, <2>3, OpenStreamStep DEF SocketInv
    <2>5. sock'[socket'].symbol = selected'
      BY <2>2, <2>4, FreshSock
    <2>6. NewCall("bootstrap", selected').arg = selected'
      BY DEF NewCall
    <2> QED BY <2>3, <2>4, <2>5, <2>6 DEF Selection, StreamFollowsSelection
  <1>2. CASE TimerFires
    <2>1. /\ OpenStream(timer) /\ timer # NoTimer
          /\ UNCHANGED <<calls, selected, disturbed, destroyed>>
      BY <1>2 DEF TimerFires, view
    <2>2. timer \in Symbols
      BY <1>0, <2>1 DEF TypeOK
    <2>3. sock'[socket'] = Fresh(timer) /\ timer' = NoTimer
      BY <1>0, <2>1, <2>2, OpenStreamStep DEF SocketInv
    <2>4. sock'[socket'].symbol = timer
      BY <2>2, <2>3, FreshSock
    <2> QED BY <1>0, <2>1, <2>3, <2>4 DEF Selection, StreamFollowsSelection
  <1>3. CASE Sends
    <2>1. UNCHANGED <<socket, timer, sock, destroyed>>
      BY <1>3, ElsewhereFrame DEF Elsewhere
    <2>2. UNCHANGED <<selected, disturbed>>
      BY <1>3, SendsStep DEF view
    <2>3. \A c \in Calls : calls'[c].kind = "bootstrap" =>
                             calls'[c] = calls[c]
      BY <1>3, SendsStep DEF NewCall
    <2> QED BY <1>0, <2>1, <2>2, <2>3 DEF Selection, StreamFollowsSelection
  <1>4. ASSUME NEW c \in Calls, Replied(c) PROVE Selection'
    <2>1. UNCHANGED <<socket, timer, sock, destroyed>>
      BY <1>4, ElsewhereFrame DEF Elsewhere
    <2>2. UNCHANGED <<selected, disturbed>>
      BY <1>4, RepliedStep DEF view
    <2>3. \A d \in Calls : calls'[d].kind = "bootstrap" =>
                             calls'[d] = calls[d]
      BY <1>4, RepliedStep DEF NewCall, FreeCall
    <2> QED BY <1>0, <2>1, <2>2, <2>3 DEF Selection, StreamFollowsSelection
  <1>5. ASSUME NEW c \in Calls, BootstrapArrives(c) \/ BootstrapFails(c)
        PROVE  Selection'
    <2>1. /\ calls[c].kind = "bootstrap"
          /\ calls' = Done(c)
          /\ ~disturbed' => /\ ~disturbed
                            /\ ~calls[c].overtaken
                            /\ selected' = calls[c].arg
          /\ UNCHANGED <<socket, timer, sock, destroyed>>
      BY <1>5, SnapshotReply
    <2>2. ~destroyed' /\ ~disturbed' => selected' = selected
      BY <1>0, <2>1 DEF Selection
    <2>3. \A d \in Calls : calls'[d].kind = "bootstrap" =>
                             calls'[d] = calls[d]
      BY <1>0, <2>1, DoneStep DEF NewCall, FreeCall
    <2> QED BY <1>0, <2>1, <2>2, <2>3 DEF Selection, StreamFollowsSelection
  <1>6. CASE ServerSide \/ \E c \in Calls : Serve(c)
    <2>1. Progress /\ UNCHANGED <<selected, disturbed>>
      BY <1>0, <1>6, ServerSideProgress DEF view
    <2>2. \A c \in Calls : /\ calls'[c].kind = calls[c].kind
                           /\ calls'[c].arg = calls[c].arg
                           /\ calls'[c].overtaken = calls[c].overtaken
      BY <1>6, ServeStep, CallFreeFrame DEF CallFree
    <2> QED BY <1>0, <2>1, <2>2
            DEF Selection, StreamFollowsSelection, Progress, TypeOK
  <1>7. ASSUME NEW k \in Sockets,
               \/ SocketOpens(k) \/ SnapshotArrives(k) \/ ErrorArrives(k)
               \/ \E t \in EventTypes, s \in {"connected", "disconnected"} :
                    EventArrives(k, t, s)
        PROVE  Selection'
    <2>1. Progress
      BY <1>0, <1>7, SocketProgress
    <2>2. UNCHANGED selected
      BY <1>7 DEF SocketOpens, SnapshotArrives, ApplySnapshot, ErrorArrives,
                  EventArrives
    <2>3. UNCHANGED <<calls, disturbed>>
      BY <1>7, CallFreeFrame DEF CallFree
    <2> QED BY <1>0, <2>1, <2>2, <2>3
            DEF Selection, StreamFollowsSelection, Progress, TypeOK
  <1>8. ASSUME NEW k \in Sockets, Closes(k) PROVE Selection'
    <2>1. UNCHANGED <<calls, disturbed, destroyed>>
      BY <1>8, CallFreeFrame DEF CallFree
    <2>2. UNCHANGED <<selected, socket>>
      BY <1>8 DEF Closes, ConnectFails, AbortedCloses, SocketCloses,
                  CloseEvent, view
    <2>3. /\ timer' # timer => timer' = sock[k].symbol /\ k = socket
          /\ socket # NoSocket => sock'[socket].symbol = sock[socket].symbol
      BY <1>0, <1>8, CloseEventKeeps
    <2>4. \A j \in Sockets : j # NoSocket
      BY DEF PageAssumption
    <2> QED BY <1>0, <2>1, <2>2, <2>3, <2>4
            DEF Selection, StreamFollowsSelection
  <1>9. CASE Destroy
    BY <1>9 DEF Destroy, Selection, StreamFollowsSelection
  <1>10. CASE SetRefreshInterval
    <2>1. /\ timer' = selected
          /\ UNCHANGED <<calls, selected, disturbed, socket, sock, destroyed>>
      BY <1>10 DEF SetRefreshInterval, ScheduleReconnect, view
    <2> QED BY <1>0, <2>1 DEF Selection, StreamFollowsSelection
  <1> QED BY <1>1, <1>2, <1>3, <1>4, <1>5, <1>6, <1>7, <1>8, <1>9, <1>10,
             StepCases

-----------------------------------------------------------------------------
(* The sequences.                                                          *)

(* Only the current socket is live.                                        *)
LEMMA LiveIsCurrent ==
  ASSUME PInv, NEW k \in Sockets, sock[k].state \in Trying
  PROVE  k = socket
  BY DEF PInv, OneStream, Dead, Trying

LEMMA NoEventSkippedStep ==
  ASSUME PageAssumption, PInv, Next
  PROVE  NoEventSkipped'
  <1>0. TypeOK /\ SocketInv /\ NoEventSkipped
        /\ socket \in Sockets \union {NoSocket}
        /\ sock \in [Sockets -> Sock]
    BY DEF PInv, SocketInv, TypeOK
  <1>1. CASE PageOpens
    <2>1. PICK s \in Symbols : OpenStream(s)
      BY <1>1, OpensWhileAlive
    <2>2. sock'[socket'] = Fresh(s)
      BY <1>0, <2>1, OpenStreamStep DEF SocketInv
    <2> QED BY <2>2, FreshSock DEF NoEventSkipped
  <1>2. CASE Sends \/ \E c \in Calls : Replied(c)
    <2>1. UNCHANGED <<socket, sock>>
      BY <1>2, ElsewhereFrame DEF Elsewhere
    <2>2. UNCHANGED <<selected, sequenceByType>>
      BY <1>2, SendsStep, RepliedStep DEF view
    <2> QED BY <1>0, <2>1, <2>2 DEF NoEventSkipped
  <1>3. ASSUME NEW c \in Calls, BootstrapArrives(c) \/ BootstrapFails(c)
        PROVE  NoEventSkipped'
    <2>1. sequenceByType' = NothingApplied /\ UNCHANGED <<socket, sock>>
      BY <1>3, SnapshotReply
    <2> QED BY <1>0, <2>1 DEF NoEventSkipped, NothingApplied, Sock,
                              PageAssumption
  <1>4. CASE ServerSide \/ \E c \in Calls : Serve(c)
    <2>1. /\ UNCHANGED <<selected, sequenceByType, socket>>
          /\ \A k \in Sockets : sock'[k].state = "live" =>
                                  sock'[k] = sock[k] \/ sock'[k].count = 0
      BY <1>0, <1>4, ServerSideProgress DEF view, Progress
    <2> QED BY <1>0, <2>1 DEF NoEventSkipped
  <1>5. ASSUME NEW k \in Sockets, SocketOpens(k) PROVE NoEventSkipped'
    <2>1. Becomes(k, "open") /\ UNCHANGED <<selected, sequenceByType, socket>>
      BY <1>5 DEF SocketOpens
    <2>2. In("open", sock[k]).state = "open"
      BY <1>0, InSock DEF SockStates
    <2> QED BY <1>0, <2>1, <2>2 DEF NoEventSkipped, Becomes
  <1>6. ASSUME NEW k \in Sockets, SnapshotArrives(k) PROVE NoEventSkipped'
    <2>1. /\ sock' = [sock EXCEPT ![k].count = 1]
          /\ UNCHANGED socket
          /\ sock[k].state = "live"
          /\ IF sock[k].symbol = selected
               THEN sequenceByType' = NothingApplied /\ selected' = selected
               ELSE UNCHANGED selected
      BY <1>6 DEF SnapshotArrives, ApplySnapshot, AppliedAfterSnapshot
    <2>2. k = socket
      BY <2>1, LiveIsCurrent DEF Trying
    <2>3. sock'[socket].count = 1 /\ sock'[socket].symbol = sock[socket].symbol
      BY <1>0, <2>1, <2>2 DEF Sock
    <2> QED BY <2>1, <2>2, <2>3 DEF NoEventSkipped, NothingApplied
  <1>7. ASSUME NEW k \in Sockets, NEW t \in EventTypes,
               NEW s \in {"connected", "disconnected"}, EventArrives(k, t, s)
        PROVE  NoEventSkipped'
    <2> DEFINE n == sock[k].count + 1
    <2>1. /\ sock[k].state = "live"
          /\ n \in 2..MaxSequence
          /\ UNCHANGED <<socket, selected>>
          /\ sock' = [sock EXCEPT
                        ![k].count = n,
                        ![k].upstream = IF t = "connection" THEN s ELSE @]
          /\ \/ /\ sock[k].symbol = selected
                /\ sequenceByType' = [sequenceByType EXCEPT ![t] = n]
             \/ UNCHANGED sequenceByType
      BY <1>7 DEF EventArrives, Apply, Applied
    <2>2. k = socket
      BY <2>1, LiveIsCurrent DEF Trying
    <2>3. sock'[socket].count = n /\ sock'[socket].symbol = sock[socket].symbol
      BY <1>0, <2>1, <2>2 DEF Sock
    <2>4. sock[socket].count \in Nat /\ sock[socket].count > 0
      BY <1>0, <2>1, <2>2 DEF Sock, PageAssumption
    <2>5. socket # NoSocket
      BY <2>2 DEF PageAssumption
    <2>6. ASSUME sock[socket].symbol = selected, NEW u \in Types
          PROVE  sequenceByType'[u] <= n
      <3>1. sequenceByType[u] <= sock[socket].count
        BY <1>0, <2>1, <2>2, <2>4, <2>5, <2>6 DEF NoEventSkipped
      <3>2. sequenceByType[u] \in Nat /\ n = sock[socket].count + 1
        BY <1>0, <2>2 DEF TypeOK, PageAssumption
      <3>3. sequenceByType'[u] \in {sequenceByType[u], n}
        BY <1>0, <2>1, <2>6 DEF TypeOK
      <3> QED BY <2>4, <3>1, <3>2, <3>3
    <2> QED BY <2>1, <2>3, <2>6 DEF NoEventSkipped
  <1>8. ASSUME NEW k \in Sockets, ErrorArrives(k) PROVE NoEventSkipped'
    <2>1. Becomes(k, "ended") /\ UNCHANGED socket /\ sock[k].state = "refused"
      BY <1>8 DEF ErrorArrives
    <2>2. k = socket
      BY <2>1, LiveIsCurrent DEF Trying
    <2>3. In("ended", sock[k]).state = "ended"
      BY <1>0, InSock DEF SockStates
    <2>4. sock'[socket].state = "ended"
      BY <1>0, <2>1, <2>2, <2>3 DEF Becomes
    <2> QED BY <2>1, <2>4 DEF NoEventSkipped
  <1>9. ASSUME NEW k \in Sockets, Closes(k) PROVE NoEventSkipped'
    <2>1. UNCHANGED <<socket, selected, sequenceByType>>
      BY <1>9 DEF Closes, ConnectFails, AbortedCloses, SocketCloses,
                  CloseEvent, view
    <2>2. \A j \in Sockets : sock'[j].state = "live" => sock'[j] = sock[j]
      BY <1>0, <1>9, CloseEventKeeps
    <2> QED BY <1>0, <2>1, <2>2 DEF NoEventSkipped
  <1>10. CASE Destroy
    BY <1>10 DEF Destroy, NoEventSkipped
  <1>11. CASE SetRefreshInterval
    BY <1>0, <1>11 DEF SetRefreshInterval, NoEventSkipped, view
  <1> QED BY <1>1, <1>2, <1>3, <1>4, <1>5, <1>6, <1>7, <1>8, <1>9, <1>10,
             <1>11, StepCases DEF PageOpens
-----------------------------------------------------------------------------
(* Types.                                                                  *)

LEMMA BackendTypes ==
  ASSUME PageAssumption, PInv, Next
  PROVE  /\ srv' \in Status
         /\ status' \in Status
         /\ destroyed' \in BOOLEAN
  <1>0. /\ srv \in Status /\ status \in Status /\ destroyed \in BOOLEAN
        /\ calls \in [Calls -> Call]
    BY DEF PInv, TypeOK
  <1>1. ASSUME UNCHANGED <<srv, status, destroyed>>
        PROVE  /\ srv' \in Status /\ status' \in Status
               /\ destroyed' \in BOOLEAN
    BY <1>0, <1>1
  <1>2. CASE \/ \E s \in Symbols : SetSymbol(s)
             \/ SetInterval \/ SetRefreshInterval \/ TimerFires
    BY <1>1, <1>2 DEF SetSymbol, SetInterval, SetRefreshInterval, TimerFires
  <1>3. CASE Sends
    BY <1>1, <1>3, SendsStep, ElsewhereFrame DEF Elsewhere
  <1>4. CASE Destroy
    BY <1>0, <1>4 DEF Destroy
  <1>5. ASSUME NEW c \in Calls, Serve(c)
        PROVE  /\ srv' \in Status /\ status' \in Status
               /\ destroyed' \in BOOLEAN
    BY <1>0, <1>5, ServeStep DEF Serve, PageUnchanged
  <1>6. CASE ServerSide
    <2>1. UNCHANGED <<status, destroyed>>
      BY <1>6, CallFreeFrame DEF CallFree
    <2>2. CASE OtherWindow
      <3>1. ASSUME NEW n \in Networks, Switch(n) PROVE srv' \in Status
        BY <3>1 DEF Switch, Status
      <3>2. ASSUME NEW choice \in {"on", "off"}, Toggle(choice)
            PROVE  srv' \in Status
        <4>1. srv' = [srv EXCEPT !.enabled = (choice = "on")]
          BY <3>2 DEF Toggle
        <4> QED BY <1>0, <4>1 DEF Status
      <3> QED BY <1>0, <2>1, <2>2, <3>1, <3>2 DEF OtherWindow
    <2>3. CASE Restart
      BY <1>0, <2>1, <2>3 DEF Restart, AtStart, Status, Networks
    <2>4. CASE \E k \in Sockets :
                 ServeStream(k) \/ RefuseStream(k) \/ BreakStream(k)
      BY <1>0, <2>1, <2>4 DEF ServeStream, RefuseStream, BreakStream
    <2> QED BY <1>0, <1>6, <2>1, <2>2, <2>3, <2>4 DEF ServerSide
  <1>7. ASSUME NEW c \in Calls,
               \/ BootstrapArrives(c) \/ BootstrapFails(c)
        PROVE  UNCHANGED <<srv, status, destroyed>>
    BY <1>7, SnapshotReply
  <1>8. ASSUME NEW c \in Calls, Replied(c)
        PROVE  status' \in Status /\ UNCHANGED <<srv, destroyed>>
    BY <1>8, RepliedStep, ElsewhereFrame DEF Elsewhere
  <1>9. ASSUME NEW c \in Calls, Reopens(c)
        PROVE  status' \in Status /\ UNCHANGED <<srv, destroyed>>
    <2>1. status' = calls[c].answer /\ UNCHANGED <<srv, destroyed>>
      BY <1>9 DEF Reopens, NetworkArrives, HealthArrives, ToldByHealth
    <2> QED BY <1>0, <2>1 DEF Call
  <1>10. ASSUME NEW k \in Sockets,
                \/ SocketOpens(k) \/ SnapshotArrives(k) \/ ErrorArrives(k)
                \/ \E t \in EventTypes, s \in {"connected", "disconnected"} :
                     EventArrives(k, t, s)
                \/ Closes(k)
         PROVE  UNCHANGED <<srv, status, destroyed>>
    BY <1>10 DEF SocketOpens, SnapshotArrives, ErrorArrives, EventArrives,
       Closes, ConnectFails, AbortedCloses, SocketCloses, CloseEvent
  <1> QED BY <1>0, <1>1, <1>2, <1>3, <1>4, <1>5, <1>6, <1>7, <1>8, <1>9,
             <1>10, StepCases

LEMMA BudgetTypes ==
  ASSUME PageAssumption, PInv, Next
  PROVE  moves' \in 0..MaxMoves /\ faults' \in 0..MaxFaults
  <1>0. moves \in 0..MaxMoves /\ faults \in 0..MaxFaults
        /\ MaxMoves \in Nat /\ MaxFaults \in Nat
    BY DEF PInv, TypeOK, PageAssumption
  <1>1. ASSUME Move \/ Fault \/ UNCHANGED budget
        PROVE  moves' \in 0..MaxMoves /\ faults' \in 0..MaxFaults
    BY <1>0, <1>1 DEF Move, Fault, budget
  <1>2. UserNext => Move
    BY DEF UserNext, User, SetSymbol, SetInterval, SetRefreshInterval,
           SetTradingEnabled, SetNetwork, SubmitOrder, Destroy
  <1>3. BackendNext => Move \/ Fault \/ UNCHANGED budget
    BY DEF BackendNext, Serve, OtherWindow, Restart, ServeStream,
           RefuseStream, BreakStream
  <1>4. ReplyNext => Move \/ Fault \/ UNCHANGED budget
    BY DEF ReplyNext, PollHealth, BootstrapArrives, BootstrapFails,
           StatusArrives, NetworkArrives, HealthArrives, WriteArrives,
           CallFails, budget
  <1>5. SocketNext => Move \/ Fault \/ UNCHANGED budget
    BY DEF SocketNext, TimerFires, SocketOpens, SnapshotArrives,
           ErrorArrives, EventArrives, ConnectFails, AbortedCloses,
           SocketCloses
  <1> QED BY <1>1, <1>2, <1>3, <1>4, <1>5 DEF Next

LEMMA StreamTypes ==
  ASSUME PageAssumption, PInv, Next
  PROVE  /\ socket' \in Sockets \union {NoSocket}
         /\ timer' \in Symbols \union {NoTimer}
         /\ intentional' \subseteq Sockets
         /\ sock' \in [Sockets -> Sock]
  <1>0. /\ TypeOK /\ SocketInv
        /\ socket \in Sockets \union {NoSocket}
        /\ timer \in Symbols \union {NoTimer}
        /\ intentional \subseteq Sockets
        /\ sock \in [Sockets -> Sock]
        /\ selected \in Symbols
    BY DEF PInv, SocketInv, TypeOK
  <1>1. intentional' \subseteq Sockets
    BY SocketInvStep DEF SocketInv, OneStream
  <1>2. CASE PageOpens
    <2>1. PICK s \in Symbols : OpenStream(s)
      BY <1>2, OpensWhileAlive
    <2> QED BY <1>0, <1>1, <2>1, OpenStreamStep DEF SocketInv
  <1>3. CASE SetRefreshInterval
    BY <1>0, <1>1, <1>3 DEF SetRefreshInterval, ScheduleReconnect
  <1>4. CASE Elsewhere
    BY <1>0, <1>4, ElsewhereFrame
  <1>5. CASE Destroy
    BY <1>0, <1>1, <1>5, CloseSocketStep
       DEF Destroy, TimerAfterClose, SocketInv
  <1>6. CASE Progress
    BY <1>0, <1>6 DEF Progress
  <1>7. ASSUME NEW k \in Sockets, Closes(k)
        PROVE  /\ socket' \in Sockets \union {NoSocket}
               /\ timer' \in Symbols \union {NoTimer}
               /\ sock' \in [Sockets -> Sock]
    <2>1. UNCHANGED socket
      BY <1>7 DEF Closes, ConnectFails, AbortedCloses, SocketCloses,
                  CloseEvent
    <2> QED BY <1>0, <1>7, <2>1, CloseEventKeeps
  <1>8. CASE ServerSide \/ \E c \in Calls : Serve(c)
    BY <1>0, <1>6, <1>8, ServerSideProgress
  <1>9. CASE \E k \in Sockets :
               \/ SocketOpens(k) \/ SnapshotArrives(k) \/ ErrorArrives(k)
               \/ \E t \in EventTypes, s \in {"connected", "disconnected"} :
                    EventArrives(k, t, s)
    BY <1>0, <1>6, <1>9, SocketProgress
  <1> QED BY <1>1, <1>2, <1>3, <1>4, <1>5, <1>7, <1>8, <1>9, StepCases
          DEF PageOpens, Elsewhere

LEMMA ViewTypes ==
  ASSUME PageAssumption, PInv, Next
  PROVE  /\ selected' \in Symbols
         /\ markets' \in {{}, DemoSymbols, Symbols}
         /\ account' \in Accounts
         /\ isDemo' \in BOOLEAN
         /\ sequenceByType' \in [Types -> 0..MaxSequence]
         /\ disturbed' \in BOOLEAN
         /\ phase' \in Phases
  <1> DEFINE Shown == /\ selected \in Symbols
                      /\ markets \in {{}, DemoSymbols, Symbols}
                      /\ account \in Accounts
                      /\ isDemo \in BOOLEAN
                      /\ sequenceByType \in [Types -> 0..MaxSequence]
                      /\ disturbed \in BOOLEAN
                      /\ phase \in Phases
  <1>0. Shown /\ TypeOK /\ SocketInv
    BY DEF PInv, TypeOK, SocketInv
  <1>1. NothingApplied \in [Types -> 0..MaxSequence]
    BY DEF NothingApplied, PageAssumption
  <1>2. "reconnecting" \in Phases /\ "online" \in Phases
        /\ "offline" \in Phases
    BY DEF Phases
  <1>3. CASE UNCHANGED view /\ phase' \in Phases
    BY <1>0, <1>3 DEF view
  <1>4. CASE \/ \E s \in Symbols : SetSymbol(s)
             \/ SetInterval
             \/ \E c \in Calls : Reopens(c)
    <2>1. PICK base \in [Calls -> Call] : Bootstrap(base, selected')
      BY <1>4, PageBootstraps
    <2>2. selected' \in Symbols
      BY <1>4, PageBootstraps
    <2>3. OpenStream(selected') /\ disturbed' = FALSE
      BY <2>1, <2>2, BootstrapStep
    <2>4. phase' = "reconnecting"
      BY <2>3 DEF OpenStream
    <2>5. /\ UNCHANGED <<markets, account, isDemo>>
          /\ sequenceByType' \in {sequenceByType, NothingApplied}
      BY <1>4 DEF SetSymbol, SetInterval, Reopens, NetworkArrives,
                  HealthArrives, AppliedAfterSnapshot
    <2> QED BY <1>0, <1>1, <1>2, <2>2, <2>3, <2>4, <2>5
  <1>5. CASE Sends \/ \E c \in Calls : Replied(c)
    <2>1. UNCHANGED view
      BY <1>5, SendsStep, RepliedStep
    <2>2. UNCHANGED phase
      BY <1>5 DEF Sends, SetTradingEnabled, SetNetwork, SubmitOrder,
           PollHealth, Replied, StatusArrives, WriteArrives, CallFails,
           HealthArrives, stream
    <2> QED BY <1>0, <1>3, <2>1, <2>2
  <1>6. CASE SetRefreshInterval \/ Destroy \/ TimerFires
    BY <1>0, <1>2, <1>3, <1>6 DEF SetRefreshInterval, ScheduleReconnect,
       Destroy, TimerFires, OpenStream
  <1>7. CASE ServerSide \/ \E c \in Calls : Serve(c)
    BY <1>0, <1>3, <1>7 DEF ServerSide, OtherWindow, Restart, ServeStream,
       RefuseStream, BreakStream, Serve, PageUnchanged
  <1>8. ASSUME NEW c \in Calls, BootstrapArrives(c) \/ BootstrapFails(c)
        PROVE  Shown'
    BY <1>1, <1>8, SnapshotReply
  <1>9. ASSUME NEW k \in Sockets, SocketOpens(k) PROVE Shown'
    BY <1>0, <1>2, <1>9 DEF SocketOpens
  <1>10. ASSUME NEW k \in Sockets, SnapshotArrives(k) PROVE Shown'
    <2>1. "empty" \in Accounts
      BY DEF Accounts
    <2> QED BY <1>0, <1>1, <1>2, <1>10, <2>1
            DEF SnapshotArrives, ApplySnapshot, AppliedAfterSnapshot
  <1>11. ASSUME NEW k \in Sockets, NEW t \in EventTypes,
                NEW s \in {"connected", "disconnected"}, EventArrives(k, t, s)
         PROVE  Shown'
    <2> DEFINE n == sock[k].count + 1
    <2>1. n \in 2..MaxSequence
      BY <1>11 DEF EventArrives
    <2>2. n \in 0..MaxSequence
      BY <2>1, PageAssumption DEF PageAssumption
    <2>3. "real" \in Accounts
      BY DEF Accounts
    <2>4. /\ UNCHANGED <<selected, markets, isDemo, disturbed>>
          /\ \/ Apply(t, n, s)
             \/ UNCHANGED <<sequenceByType, account, phase>>
      BY <1>11 DEF EventArrives
    <2>5. Apply(t, n, s) =>
            /\ sequenceByType' = [sequenceByType EXCEPT ![t] = n]
            /\ account' \in {account, "real"}
            /\ phase' \in {phase, "online", "offline"}
      BY DEF Apply, Applied
    <2> HIDE DEF n
    <2> QED BY <1>0, <1>2, <2>2, <2>3, <2>4, <2>5
  <1>12. ASSUME NEW k \in Sockets, ErrorArrives(k) PROVE Shown'
    <2>1. 1 \in 0..MaxSequence
      BY DEF PageAssumption
    <2> QED BY <1>0, <1>2, <1>12, <2>1 DEF ErrorArrives, Applied
  <1>13. ASSUME NEW k \in Sockets, Closes(k) PROVE Shown'
    BY <1>0, <1>2, <1>3, <1>13 DEF Closes, ConnectFails, AbortedCloses,
       SocketCloses, CloseEvent, ScheduleReconnect
  <1> QED BY <1>3, <1>4, <1>5, <1>6, <1>7, <1>8, <1>9, <1>10, <1>11, <1>12,
             <1>13, <1>0, StepCases

-----------------------------------------------------------------------------
(* The invariant.                                                          *)

LEMMA PInvInit ==
  ASSUME PageAssumption, Init
  PROVE  PInv
  <1>1. /\ socket \in Sockets
        /\ sock = [[j \in Sockets |-> FreeSock] EXCEPT
                     ![socket] = Fresh(DefaultSymbol)]
    BY DEF Init
  <1>2. PICK b, t \in Calls :
          /\ b # t
          /\ calls = [[c \in Calls |-> FreeCall] EXCEPT
                        ![b] = NewCall("bootstrap", DefaultSymbol),
                        ![t] = NewCall("trading", "none")]
    BY DEF Init
  <1>3. /\ selected = DefaultSymbol /\ timer = NoTimer /\ intentional = {}
        /\ ~destroyed /\ destroyed \in BOOLEAN /\ disturbed = FALSE
        /\ sequenceByType = NothingApplied
    BY DEF Init
  <1>4. DefaultSymbol \in Symbols
    BY DEF PageAssumption
  <1>5. /\ Fresh(DefaultSymbol) \in Sock
        /\ Fresh(DefaultSymbol).state = "connecting"
        /\ Fresh(DefaultSymbol).symbol = DefaultSymbol
        /\ FreeSock \in Sock /\ FreeSock.state = "free"
    BY <1>4, FreshSock, FreeSockType
  <1>6. /\ sock \in [Sockets -> Sock]
        /\ sock[socket] = Fresh(DefaultSymbol)
        /\ \A j \in Sockets \ {socket} : sock[j] = FreeSock
    BY <1>1, <1>5
  <1>7. /\ NewCall("bootstrap", DefaultSymbol) \in Call
        /\ NewCall("bootstrap", DefaultSymbol).kind = "bootstrap"
        /\ NewCall("bootstrap", DefaultSymbol).arg = DefaultSymbol
        /\ NewCall("trading", "none") \in Call
        /\ NewCall("trading", "none").kind = "trading"
        /\ FreeCall \in Call /\ FreeCall.kind = "none"
    BY <1>4, CallTypes DEF Kinds, Args
  <1>8. /\ calls \in [Calls -> Call]
        /\ calls[b] = NewCall("bootstrap", DefaultSymbol)
        /\ calls[t] = NewCall("trading", "none")
        /\ \A c \in Calls \ {b, t} : calls[c] = FreeCall
    BY <1>2, <1>7
  <1>9. NothingApplied \in [Types -> 0..MaxSequence]
    BY DEF NothingApplied, PageAssumption
  <1>10. TypeOK
    <2>1. srv \in Status /\ status \in Status
      BY DEF Init, AtStart, Status, Networks
    <2>2. /\ markets = {} /\ account \in Accounts /\ isDemo \in BOOLEAN
          /\ phase \in Phases
      BY DEF Init, Accounts, Phases
    <2>3. moves \in 0..MaxMoves /\ faults \in 0..MaxFaults
      BY DEF Init, PageAssumption
    <2> QED BY <1>1, <1>3, <1>4, <1>6, <1>8, <1>9, <2>1, <2>2, <2>3 DEF TypeOK
  <1>11. Requests
    BY <1>3, <1>4, <1>7, <1>8 DEF Requests
  <1>12. Current
    BY <1>5, <1>6 DEF Current, Trying
  <1>13. OneStream
    BY <1>3, <1>5, <1>6 DEF OneStream, Dead
  <1>14. NeverStranded
    BY <1>1, <1>3, <1>5, <1>6 DEF NeverStranded, Trying, PageAssumption
  <1>15. Selection
    BY <1>3, <1>5, <1>6, <1>7, <1>8 DEF Selection, StreamFollowsSelection
  <1>16. NoEventSkipped
    BY <1>5, <1>6 DEF NoEventSkipped
  <1>17. QuietAfterDestroy
    BY <1>3 DEF QuietAfterDestroy
  <1> QED BY <1>10, <1>11, <1>12, <1>13, <1>14, <1>15, <1>16, <1>17 DEF PInv

LEMMA PInvStep ==
  ASSUME PageAssumption, PInv, [Next]_vars
  PROVE  PInv'
  <1>1. CASE Next
    <2>1. TypeOK'
      BY <1>1, BackendTypes, BudgetTypes, StreamTypes, ViewTypes,
         RequestsStep DEF TypeOK
    <2>2. Requests'
      BY <1>1, RequestsStep
    <2>3. SocketInv'
      BY <1>1, SocketInvStep
    <2>4. Selection'
      BY <1>1, SelectionStep
    <2>5. NoEventSkipped'
      BY <1>1, NoEventSkippedStep
    <2> QED BY <2>1, <2>2, <2>3, <2>4, <2>5 DEF PInv, SocketInv
  <1>2. CASE UNCHANGED vars
    BY <1>2 DEF vars, view, stream, budget, PInv, TypeOK, Requests, Current,
       OneStream, NeverStranded, Selection, StreamFollowsSelection,
       NoEventSkipped, QuietAfterDestroy
  <1> QED BY <1>1, <1>2

(* PInv holds in every reachable state, whatever the symbols, the sockets, *)
(* the requests in flight and the bounds.                                  *)
THEOREM PageInvariant == SafetySpec => []PInv
  <1>1. Init => PInv
    BY PInvInit, PageAssumption
  <1>2. PInv /\ [Next]_vars => PInv'
    BY PInvStep, PageAssumption
  <1> QED BY <1>1, <1>2, PTL DEF SafetySpec

(* The page's state and what is in flight are well-formed.                 *)
THEOREM TypeCorrect == SafetySpec => []TypeOK
  <1>1. PInv => TypeOK
    BY DEF PInv
  <1> QED BY <1>1, PageInvariant, PTL

(* Every socket but the current one was closed by the page, and the page   *)
(* remembers all those whose close event is still to come.                 *)
THEOREM OneStreamOnly == SafetySpec => []OneStream
  <1>1. PInv => OneStream
    BY DEF PInv
  <1> QED BY <1>1, PageInvariant, PTL

(* A live page always has a timer, or a socket whose close event will      *)
(* schedule a reconnect.                                                   *)
THEOREM NotStranded == SafetySpec => []NeverStranded
  <1>1. PInv => NeverStranded
    BY DEF PInv
  <1> QED BY <1>1, PageInvariant, PTL

(* Undisturbed by a late bootstrap reply or a demo of another symbol, the  *)
(* page streams what it shows.                                             *)
THEOREM SelectionFollowed == SafetySpec => []StreamFollowsSelection
  <1>1. PInv => StreamFollowsSelection
    BY DEF PInv, Selection
  <1> QED BY <1>1, PageInvariant, PTL

(* No event of the stream the page watches is dropped as stale.            *)
THEOREM NothingSkipped == SafetySpec => []NoEventSkipped
  <1>1. PInv => NoEventSkipped
    BY DEF PInv
  <1> QED BY <1>1, PageInvariant, PTL

(* A destroyed page has no socket and no timer, and never gets one again.  *)
THEOREM DestroyedIsQuiet == SafetySpec => []QuietAfterDestroy
  <1>1. PInv => QuietAfterDestroy
    BY DEF PInv
  <1> QED BY <1>1, PageInvariant, PTL
=============================================================================
