---------------------------- MODULE MarketStream ----------------------------
(***************************************************************************)
(* The way of market data from the exchange to a page, for one symbol of   *)
(* one network: the websocket of safeClient (exchange/client_http.go), the *)
(* feed of the stream manager (stream/service.go), the browser stream with *)
(* its snapshot (http/server.go) and what the page does with each message  *)
(* (applyStream).  Who owns channels and when feeds end is StreamManager's;*)
(* here a feed lives while a stream is open, and what counts is which data *)
(* gets through.                                                           *)
(*                                                                         *)
(* The data of a channel is a version.  Of a state (a book) only the last  *)
(* one is of interest, of a log (trades, fills) version n adds item n.     *)
(***************************************************************************)
EXTENDS Naturals, Sequences

CONSTANTS
  Sessions,      (* browser streams                                        *)
  Readers,       (* those whose browser reads what it is sent              *)
  Channels,      (* the subscriptions of the websocket that are followed   *)
  QueueCapacity, (* size of the client's channel (128)                     *)
  BufferCapacity,(* size of a stream's channel (128)                       *)
  MaxVersion,    (* bound: versions of each channel                        *)
  MaxFaults      (* bound: lost connections and failed reads               *)

StateChannels == {"assetContext", "book", "account", "orders"}
LogChannels == {"trades", "candle", "fills", "funding"}
States == Channels \intersect StateChannels
Logs == Channels \intersect LogChannels

ASSUME MarketAssumption ==
  /\ Readers \subseteq Sessions
  /\ Channels \subseteq StateChannels \union LogChannels
  /\ QueueCapacity \in Nat \ {0}
  /\ BufferCapacity \in Nat \ {0}
  /\ MaxVersion \in Nat \ {0}
  /\ MaxFaults \in Nat

VARIABLES
  version,  (* the exchange: the newest version of each channel            *)
  pushed,   (* the last version put into the queue (of a state) or sent on *)
            (* the websocket (of a log)                                    *)
  greeted,  (* logs whose history was sent on this connection              *)
  link,     (* the websocket: "down" or "live"                             *)
  queue,    (* the client's channel                                        *)
  phase,    (* a stream: "closed", "reading" its snapshot, "streaming"     *)
  read,     (* the parts of the snapshot that were read                    *)
  buffer,   (* a stream's channel                                          *)
  view,     (* the snapshot so far and then what the page shows            *)
  since,    (* history: the logs when the stream subscribed                *)
  missed,   (* history: channels of which the stream did not get an event  *)
  faults

exchangeVars == <<version, pushed, greeted>>
sessionVars == <<phase, read, view, since>>
vars == <<exchangeVars, link, queue, sessionVars, buffer, missed, faults>>

Event == [channel : Channels, first : 1..MaxVersion, last : 1..MaxVersion]
(* What an event adds: the versions first..last, of a state the last one.  *)
Items(e) == [i \in 1..(e.last + 1 - e.first) |-> e.first - 1 + i]
UpTo(n) == [i \in 1..n |-> i]

Init ==
  /\ version = [c \in Channels |-> 1]
  /\ pushed = [c \in Channels |-> 0]
  /\ greeted = {}
  /\ link = "down"
  /\ queue = <<>>
  /\ phase = [s \in Sessions |-> "closed"]
  /\ read = [s \in Sessions |-> {}]
  /\ buffer = [s \in Sessions |-> <<>>]
  /\ view = [s \in Sessions |-> [c \in Channels |-> <<>>]]
  /\ since = [s \in Sessions |-> [c \in Logs |-> 1]]
  /\ missed = [s \in Sessions |-> {}]
  /\ faults = 0

(* The streams that are clients of the feed.  openStreamSnapshot           *)
(* subscribes before it reads; mutant: after it.                           *)
JoinsLate(s) == phase[s] = "streaming"
Joins(s) == phase[s] # "closed"
Clients == {s \in Sessions : Joins(s)}

Fault == faults < MaxFaults /\ faults' = faults + 1
Miss(S, c) ==
  missed' = [s \in Sessions |-> missed[s] \union (IF s \in S THEN {c} ELSE {})]
-----------------------------------------------------------------------------
(* The exchange (external): its state changes; it sends the state of a     *)
(* subscribed channel again and again; of a log it sends the history when  *)
(* the channel was subscribed, and then what is new.                       *)
Change(c) ==
  /\ version[c] < MaxVersion
  /\ version' = [version EXCEPT ![c] = @ + 1]
  /\ UNCHANGED <<pushed, greeted, link, queue, sessionVars, buffer, missed,
                 faults>>

(* A JSON value: an array or an object, still raw as the websocket's       *)
(* dispatcher hands it on, or decoded as a reply over HTTP is.             *)
DataOf(c) == [shape |-> IF c = "trades" THEN "array" ELSE "object",
              raw |-> TRUE]
AsArray(v) == ~v.raw /\ v.shape = "array"
IsMap(v) == ~v.raw /\ v.shape = "object"
AsMap(v) == v.shape = "object"

(* The parser of a channel finds something in the value.                   *)
Parses(c, v) == IF c \in {"trades", "candle"} THEN AsArray(v) \/ IsMap(v)
                                              ELSE AsMap(v)

(* A history is not an event.  Mutant: it is.                              *)
ForwardsAlways(c, isHistory) == Parses(c, DataOf(c))
Forwards(c, isHistory) ==
  /\ Parses(c, DataOf(c))
  /\ ~(isHistory /\ c \in {"fills", "funding"})

(* Mutant: a list that grows in place of the channel.                      *)
QueueHasRoomAlways == TRUE
QueueHasRoom == Len(queue) < QueueCapacity

(* The exchange sends a message; dispatchWSMessage and sendEvent.          *)
PushState(c) ==
  /\ link = "live"
  /\ c \in States
  /\ Forwards(c, FALSE)
  /\ QueueHasRoom
  /\ queue' = Append(queue,
                [channel |-> c, first |-> version[c], last |-> version[c]])
  /\ pushed' = [pushed EXCEPT ![c] = version[c]]
  /\ UNCHANGED <<version, greeted, link, sessionVars, buffer, missed, faults>>

PushLog(c) ==
  LET isHistory == c \notin greeted
      first == IF isHistory THEN 1 ELSE pushed[c] + 1
      accepted == Forwards(c, isHistory)
  IN /\ link = "live"
     /\ c \in Logs
     /\ first <= version[c]
     /\ queue' = IF accepted /\ QueueHasRoom
                 THEN Append(queue, [channel |-> c, first |-> first,
                                     last |-> version[c]])
                 ELSE queue
     /\ IF (accepted /\ ~QueueHasRoom) \/ (isHistory /\ pushed[c] < version[c])
        THEN Miss({s \in Clients : since[s][c] < version[c]}, c)
        ELSE UNCHANGED missed
     /\ pushed' = [pushed EXCEPT ![c] = version[c]]
     /\ greeted' = greeted \union {c}
     /\ UNCHANGED <<version, link, sessionVars, buffer, faults>>

(* safeClient.Subscribe: dial and subscribe; the connection is lost.       *)
Connect ==
  /\ Clients # {}
  /\ link = "down"
  /\ link' = "live"
  /\ UNCHANGED <<exchangeVars, queue, sessionVars, buffer, missed, faults>>

Disconnect ==
  /\ link = "live"
  /\ link' = "down"
  /\ greeted' = {}
  /\ Fault
  /\ UNCHANGED <<version, pushed, queue, sessionVars, buffer, missed>>

(* The feed hands an event to every client whose channel has room, and     *)
(* drops it for the others.  Mutant: it waits for room.                    *)
HasRoom(s) == Len(buffer[s]) < BufferCapacity
WaitsForRoom(S) == \A s \in S : HasRoom(s)
MaySend(S) == TRUE

Broadcast ==
  /\ queue # <<>>
  /\ MaySend(Clients)
  /\ queue' = Tail(queue)
  /\ buffer' = [s \in Sessions |-> IF s \in Clients /\ HasRoom(s)
                                   THEN Append(buffer[s], Head(queue))
                                   ELSE buffer[s]]
  /\ Miss({s \in Clients : ~HasRoom(s)}, Head(queue).channel)
  /\ UNCHANGED <<exchangeVars, link, sessionVars, faults>>
-----------------------------------------------------------------------------
(* streamHandler and openStreamSnapshot: subscribe,                        *)
Open(s) ==
  /\ phase[s] = "closed"
  /\ phase' = [phase EXCEPT ![s] = "reading"]
  /\ since' = [since EXCEPT ![s] = [c \in Logs |-> version[c]]]
  /\ missed' = [missed EXCEPT ![s] = {}]
  /\ UNCHANGED <<exchangeVars, link, queue, read, view, buffer, faults>>

(* leave, and with the last client the feed ends,                          *)
Gone(s) ==
  /\ phase' = [phase EXCEPT ![s] = "closed"]
  /\ read' = [read EXCEPT ![s] = {}]
  /\ view' = [view EXCEPT ![s] = [c \in Channels |-> <<>>]]
  /\ buffer' = [buffer EXCEPT ![s] = <<>>]
  /\ since' = [since EXCEPT ![s] = [c \in Logs |-> 1]]
  /\ missed' = [missed EXCEPT ![s] = {}]
  /\ IF Clients \subseteq {s}
     THEN /\ link' = "down"
          /\ queue' = <<>>
          /\ greeted' = {}
          /\ pushed' = [c \in Channels |->
                         IF c \in States THEN 0 ELSE pushed[c]]
     ELSE UNCHANGED <<link, queue, greeted, pushed>>
  /\ UNCHANGED version

(* read the parts of the snapshot, one request after the other,            *)
Parts == <<"assetContext", "book", "trades", "candle">>
IsNextPart(s, c) ==
  \E i \in DOMAIN Parts :
    /\ Parts[i] = c /\ c \in Channels \ read[s]
    /\ \A j \in 1..(i - 1) : Parts[j] \in Channels => Parts[j] \in read[s]

(* (a reply is decoded, and has the history of a log; errors of trades and *)
(* candles are ignored)                                                    *)
Reply(c) == IF c \in States THEN <<version[c]>>
            ELSE IF Parses(c, [DataOf(c) EXCEPT !.raw = FALSE])
                 THEN UpTo(version[c]) ELSE <<>>
Outcomes(c) ==
  {Reply(c)} \union (IF c \in Logs /\ faults < MaxFaults THEN {<<>>} ELSE {})

Read(s, c) ==
  /\ phase[s] = "reading"
  /\ IsNextPart(s, c)
  /\ read' = [read EXCEPT ![s] = @ \union {c}]
  /\ \E part \in Outcomes(c) :
       /\ view' = [view EXCEPT ![s][c] = part]
       /\ faults' = IF part = Reply(c) THEN faults ELSE faults + 1
  /\ UNCHANGED <<exchangeVars, link, queue, phase, since, buffer, missed>>

ReadFails(s, c) ==
  /\ phase[s] = "reading"
  /\ IsNextPart(s, c)
  /\ c \in {"assetContext", "book"}
  /\ Fault
  /\ Gone(s)

(* send the snapshot, which replaces what the page has,                    *)
SendSnapshot(s) ==
  /\ phase[s] = "reading"
  /\ \A c \in Channels : ~IsNextPart(s, c)
  /\ phase' = [phase EXCEPT ![s] = "streaming"]
  /\ UNCHANGED <<exchangeVars, link, queue, read, view, since, buffer, missed,
                 faults>>

(* and then every event: applyStream shows a state or adds to a log.       *)
Applied(shown, e) ==
  IF e.channel \in States THEN <<e.last>> ELSE shown \o Items(e)

Deliver(s) ==
  /\ phase[s] = "streaming"
  /\ buffer[s] # <<>>
  /\ LET e == Head(buffer[s])
     IN view' = [view EXCEPT ![s][e.channel] = Applied(@, e)]
  /\ buffer' = [buffer EXCEPT ![s] = Tail(@)]
  /\ UNCHANGED <<exchangeVars, link, queue, phase, read, since, missed,
                 faults>>

Leave(s) == phase[s] = "streaming" /\ Gone(s) /\ UNCHANGED faults

Next ==
  \/ \E c \in Channels : Change(c) \/ PushState(c) \/ PushLog(c)
  \/ Connect \/ Disconnect \/ Broadcast
  \/ \E s \in Sessions :
       \/ Open(s) \/ SendSnapshot(s) \/ Deliver(s) \/ Leave(s)
       \/ \E c \in Channels : Read(s, c) \/ ReadFails(s, c)

(* Goroutines run; the client dials again; the exchange repeats its states.*)
(* A browser that does not read is not assumed to.                         *)
Fairness ==
  /\ WF_vars(Connect) /\ WF_vars(Broadcast)
  /\ \A c \in States : SF_vars(PushState(c))
  /\ \A s \in Readers : WF_vars(Deliver(s))

SafetySpec == Init /\ [][Next]_vars
Spec == SafetySpec /\ Fairness
-----------------------------------------------------------------------------
(* Every variable has its type.                                            *)
TypeOK ==
  /\ version \in [Channels -> 1..MaxVersion]
  /\ pushed \in [Channels -> 0..MaxVersion]
  /\ greeted \subseteq Logs
  /\ link \in {"down", "live"}
  /\ queue \in Seq(Event) /\ Len(queue) <= QueueCapacity
  /\ phase \in [Sessions -> {"closed", "reading", "streaming"}]
  /\ read \in [Sessions -> SUBSET Channels]
  /\ buffer \in [Sessions -> Seq(Event)]
  /\ \A s \in Sessions : Len(buffer[s]) <= BufferCapacity
  /\ view \in [Sessions -> [Channels -> Seq(1..MaxVersion)]]
  /\ since \in [Sessions -> [Logs -> 1..MaxVersion]]
  /\ missed \in [Sessions -> SUBSET Channels]
  /\ faults \in 0..MaxFaults

(* The events on their way to the page of s, and those of them of c.       *)
Way(s) == buffer[s] \o queue
On(c, events) == {i \in DOMAIN events : events[i].channel = c}
InSnapshot == {Parts[i] : i \in DOMAIN Parts}

(* A page whose stream dropped nothing is about to show the newest state   *)
(* that was sent: between the snapshot and the first event nothing is      *)
(* missed, and an older event that was queued before the snapshot was read *)
(* is followed by the newer one (server.go:730-745).  Of a state that is   *)
(* in no snapshot it may show nothing yet.                                 *)
NewestIsComing ==
  \A s \in Sessions, c \in States :
    phase[s] = "streaming" /\ c \notin missed[s] /\ pushed[c] = version[c] =>
      \/ \E i \in On(c, Way(s)) :
           Way(s)[i].last = version[c] /\ \A j \in On(c, Way(s)) : j <= i
      \/ /\ On(c, Way(s)) = {}
         /\ \/ view[s][c] = <<version[c]>>
            \/ c \notin InSnapshot /\ view[s][c] = <<>>

(* Everything a log was sent since the stream subscribed is shown or on    *)
(* its way, unless a full channel or a lost connection is to blame.        *)
Shown(s, c, n) == \E i \in DOMAIN view[s][c] : view[s][c][i] = n
Coming(s, c, n) ==
  \E i \in On(c, Way(s)) : n \in Way(s)[i].first..Way(s)[i].last
SentIsComing(c) ==
  \A s \in Sessions :
    phase[s] = "streaming" /\ c \in Logs \ missed[s] =>
      \A n \in (since[s][c] + 1)..pushed[c] : Shown(s, c, n) \/ Coming(s, c, n)

(* The log of c with all that is on its way has no item twice and none out *)
(* of order.                                                               *)
Increases(items) ==
  \A i, j \in DOMAIN items : i < j => items[i] < items[j]
InOrder(c, events) ==
  \A i, j \in On(c, events) : i < j => events[i].last < events[j].first
ComesInOrder(s, c) ==
  /\ Increases(view[s][c]) /\ InOrder(c, Way(s))
  /\ \A i \in On(c, Way(s)) : /\ Way(s)[i].first <= Way(s)[i].last
                               /\ \A k \in DOMAIN view[s][c] :
                                    view[s][c][k] < Way(s)[i].first

(* Every fill that is sent reaches the page, and none is shown twice or    *)
(* out of order, although every connection starts by sending all of them   *)
(* again (client_http.go:514-533).                                         *)
FillsArriveOnce ==
  \A c \in {"fills", "funding"} :
    SentIsComing(c) /\ \A s \in Sessions : c \in Logs => ComesInOrder(s, c)

(* Trades and candles are forwarded from the exchange's subscriptions.     *)
TradesAreForwarded == SentIsComing("trades") /\ SentIsComing("candle")

(* A page that reads ends up showing the newest state, whatever was        *)
(* dropped, lost or queued before, and whether other browsers read or not. *)
ReadersCatchUp ==
  \A s \in Readers, c \in States :
    <>[](phase[s] = "streaming" => view[s][c] = <<version[c]>>)
=============================================================================
