--------------------------- MODULE StreamManager ---------------------------
(***************************************************************************)
(* stream.Manager of one network (backend/internal/stream/service.go): it  *)
(* multiplexes one upstream subscription per symbol and interval to the    *)
(* channels of the browser streams, and below it the reconnecting          *)
(* websocket loop of the exchange client (safeClient.Subscribe).           *)
(*                                                                         *)
(* Every section under Manager.mu is one action; what runs outside of it   *)
(* (numbering an event, closing a channel after unlock, the blocking calls *)
(* of a feed's goroutine) is an action of its own.  An event is its number *)
(* and its kind.  Subs are subscriptions, Feeds are feed objects with      *)
(* their goroutine; both are reused once nothing refers to them, and a     *)
(* subscription that would need more than Feeds has waits.                 *)
(***************************************************************************)
EXTENDS Naturals, Sequences

CONSTANTS
  Keys,             (* symbol|interval pairs                               *)
  Subs,             (* subscriptions                                       *)
  Feeds,            (* feed objects                                        *)
  NoFeed,           (* no entry in Manager.feeds                           *)
  Capacity,         (* size of a subscription's channel (128)              *)
  UpstreamCapacity, (* size of the upstream channel (128)                  *)
  MaxSequence,      (* bound: events a feed numbers before it pauses       *)
  UnreliableClient  (* the client may also refuse a subscription or close  *)
                    (* its channel unasked, which safeClient does not      *)

ASSUME StreamAssumption ==
  /\ Keys # {}
  /\ NoFeed \notin Feeds
  /\ Capacity \in Nat \ {0}
  /\ UpstreamCapacity \in Nat \ {0}
  /\ MaxSequence \in Nat
  /\ UnreliableClient \in BOOLEAN

VARIABLES
  feeds,      (* Manager.feeds: the current feed of each key               *)
  members,    (* feed.clients                                              *)
  feedKey,    (* the key a feed was created for                            *)
  cancelled,  (* feeds whose context is cancelled                          *)
  sequence,   (* feed.sequence                                             *)
  fpc,        (* where each feed's goroutine is                            *)
  outbox,     (* the numbered event it is about to broadcast               *)
  upstream,   (* the websocket of each feed                                *)
  queued,     (* events in the upstream channel                            *)
  spc,        (* where each subscription's owner is                        *)
  subKey,     (* the key it subscribed to                                  *)
  channel,    (* "none", "open" or "closed"                                *)
  buffer,     (* events in the channel                                     *)
  lagged,     (* history: an event was dropped because the buffer was full *)
  announced,  (* history: the last connection status a feed broadcast      *)
  panicked    (* a closed channel was sent to or closed again              *)

feedVars == <<feedKey, sequence, fpc, outbox, announced>>
upstreamVars == <<upstream, queued>>
subVars == <<spc, subKey, channel, buffer, lagged>>
vars ==
  <<feeds, members, cancelled, feedVars, upstreamVars, subVars, panicked>>

Kinds == {"connected", "disconnected", "data"}
Event == [number : Nat, kind : Kinds]
NoEvent == [number |-> 0, kind |-> "data"]
AnyKey == CHOOSE k \in Keys : TRUE   (* of what has no key yet *)

Init ==
  /\ feeds = [k \in Keys |-> NoFeed]
  /\ members = [f \in Feeds |-> {}]
  /\ feedKey = [f \in Feeds |-> AnyKey]
  /\ cancelled = {}
  /\ sequence = [f \in Feeds |-> 0]
  /\ fpc = [f \in Feeds |-> "unused"]
  /\ outbox = [f \in Feeds |-> NoEvent]
  /\ upstream = [f \in Feeds |-> "none"]
  /\ queued = [f \in Feeds |-> 0]
  /\ spc = [s \in Subs |-> "idle"]
  /\ subKey = [s \in Subs |-> AnyKey]
  /\ channel = [s \in Subs |-> "none"]
  /\ buffer = [s \in Subs |-> <<>>]
  /\ lagged = [s \in Subs |-> FALSE]
  /\ announced = [f \in Feeds |-> "none"]
  /\ panicked = FALSE

Resume(f, label) == fpc' = [fpc EXCEPT ![f] = label]

(* Mutant: the channels are not closed.                                    *)
CloseNoChannels(S) == UNCHANGED <<channel, panicked>>

(* close(out) for every subscription of S.                                 *)
CloseChannels(S) ==
  /\ channel' = [s \in Subs |-> IF s \in S THEN "closed" ELSE channel[s]]
  /\ panicked' = (panicked \/ \E s \in S : channel[s] = "closed")
-----------------------------------------------------------------------------
(* Subscribe: join the key's feed, or start one.                           *)
JoinFeed(s, k) ==
  /\ feeds[k] # NoFeed
  /\ members' = [members EXCEPT ![feeds[k]] = @ \union {s}]
  /\ UNCHANGED <<feeds, cancelled, feedVars>>

StartFeed(s, k) ==
  /\ feeds[k] = NoFeed
  /\ \E f \in Feeds :
       /\ fpc[f] = "unused"
       /\ feeds' = [feeds EXCEPT ![k] = f]
       /\ feedKey' = [feedKey EXCEPT ![f] = k]
       /\ members' = [members EXCEPT ![f] = {s}]
       /\ Resume(f, "check")
  /\ UNCHANGED <<cancelled, sequence, outbox, announced>>

Subscribe(s, k) ==
  /\ spc[s] = "idle"
  /\ JoinFeed(s, k) \/ StartFeed(s, k)
  /\ spc' = [spc EXCEPT ![s] = "open"]
  /\ subKey' = [subKey EXCEPT ![s] = k]
  /\ channel' = [channel EXCEPT ![s] = "open"]
  /\ UNCHANGED <<buffer, lagged, upstreamVars, panicked>>

(* The owner of the subscription takes an event from its channel.          *)
Receive(s) ==
  /\ spc[s] = "open"
  /\ buffer[s] # <<>>
  /\ buffer' = [buffer EXCEPT ![s] = Tail(@)]
  /\ UNCHANGED <<feeds, members, cancelled, feedVars, upstreamVars, spc,
                 subKey, channel, lagged, panicked>>

Forget(s) ==
  /\ spc' = [spc EXCEPT ![s] = "idle"]
  /\ buffer' = [buffer EXCEPT ![s] = <<>>]
  /\ lagged' = [lagged EXCEPT ![s] = FALSE]
  /\ channel' = [channel EXCEPT ![s] = "none"]
  /\ subKey' = [subKey EXCEPT ![s] = AnyKey]

(* Mutants of the pieces of Close that follow: every channel is closed, a  *)
(* feed is stopped for all its clients, the channel stays a client.        *)
MustCloseAlways(s) == TRUE
AbandonedAlways(s, f) == TRUE
DeleteNot(s, f) == UNCHANGED members

MustClose(s) == LET f == feeds[subKey[s]] IN f # NoFeed /\ s \in members[f]
Abandoned(s, f) == members[f] \ {s} = {}
Cancel(f) == cancelled' = cancelled \union {f}
Delete(s, f) == members' = [members EXCEPT ![f] = @ \ {s}]

(* Subscription.Close under the mutex.  It looks the key up again: the     *)
(* feed it finds may be another one than the subscription joined.          *)
Close(s) ==
  LET f == feeds[subKey[s]]
  IN /\ spc[s] = "open"
     /\ IF f = NoFeed
        THEN UNCHANGED <<feeds, members, cancelled>>
        ELSE /\ Delete(s, f)
             /\ IF Abandoned(s, f)
                THEN Cancel(f) /\ feeds' = [feeds EXCEPT ![subKey[s]] = NoFeed]
                ELSE UNCHANGED <<feeds, cancelled>>
     /\ IF MustClose(s)
        THEN /\ spc' = [spc EXCEPT ![s] = "closing"]
             /\ UNCHANGED <<subKey, channel, buffer, lagged>>
        ELSE Forget(s)
     /\ UNCHANGED <<feedVars, upstreamVars, panicked>>

(* ... and its close(out) after the unlock.                                *)
CloseOut(s) ==
  /\ spc[s] = "closing"
  /\ panicked' = (panicked \/ channel[s] = "closed")
  /\ Forget(s)
  /\ UNCHANGED <<feeds, members, cancelled, feedVars, upstreamVars>>

(* streamHandler reads to the end of a closed channel and then returns.    *)
CloseEnded(s) == channel[s] = "closed" /\ buffer[s] = <<>> /\ Close(s)

(* Mutant: Reset closes the channels and leaves them clients of the feeds. *)
DetachNot(current) == UNCHANGED members
Detach(current) ==
  members' = [f \in Feeds |-> IF f \in current THEN {} ELSE members[f]]

(* Reset, called by a network switch.                                      *)
Reset ==
  LET current == {feeds[k] : k \in Keys} \ {NoFeed}
  IN /\ current # {}
     /\ cancelled' = cancelled \union current
     /\ CloseChannels(UNION {members[f] : f \in current})
     /\ Detach(current)
     /\ feeds' = [k \in Keys |-> NoFeed]
     /\ UNCHANGED <<feedVars, upstreamVars, spc, subKey, buffer, lagged>>
-----------------------------------------------------------------------------
(* The context of a feed is done.  Mutant: its goroutine does not look.    *)
DoneUnseen(f) == FALSE
Done(f) == f \in cancelled

(* The goroutine of a feed (startFeedLocked).  The top of its loop.        *)
FeedCheck(f) ==
  /\ fpc[f] = "check"
  /\ \/ Done(f) /\ Resume(f, "exit")
     \/ /\ ~Done(f)
        /\ sequence[f] < MaxSequence
        /\ Resume(f, "subscribing")
  /\ UNCHANGED <<feeds, members, cancelled, feedKey, sequence, outbox,
                 announced, upstreamVars, subVars, panicked>>

(* Mutant: an event from upstream is numbered where it is read as well.    *)
NumberTwice(f, kind) ==
  LET next == sequence[f] + (IF kind = "data" THEN 2 ELSE 1)
  IN /\ sequence' = [sequence EXCEPT ![f] = next]
     /\ outbox' = [outbox EXCEPT ![f] = [number |-> next, kind |-> kind]]
     /\ Resume(f, "sending")

(* broadcastEvent numbers the event before it takes the mutex.             *)
Number(f, kind) ==
  /\ sequence' = [sequence EXCEPT ![f] = @ + 1]
  /\ outbox' = [outbox EXCEPT ![f] =
                   [number |-> sequence[f] + 1, kind |-> kind]]
  /\ Resume(f, "sending")

(* client.Subscribe returns: a channel, at once and before any websocket   *)
(* is connected, or an error.                                              *)
FeedSubscribe(f) ==
  /\ fpc[f] = "subscribing"
  /\ \/ /\ Number(f, "connected")
        /\ upstream' = [upstream EXCEPT ![f] = "down"]
     \/ /\ UnreliableClient
        /\ Number(f, "disconnected")
        /\ upstream' = [upstream EXCEPT ![f] = "none"]
  /\ queued' = [queued EXCEPT ![f] = 0]
  /\ UNCHANGED <<feeds, members, cancelled, feedKey, announced, subVars,
                 panicked>>

(* broadcastEvent under the mutex: every client of this feed whose channel *)
(* has room gets the event.                                                *)
HasRoom(s) == Len(buffer[s]) < Capacity

Broadcast(f) ==
  /\ fpc[f] = "sending"
  /\ buffer' = [s \in Subs |-> IF s \in members[f] /\ HasRoom(s)
                               THEN Append(buffer[s], outbox[f])
                               ELSE buffer[s]]
  /\ lagged' = [s \in Subs |-> lagged[s] \/ (s \in members[f] /\ ~HasRoom(s))]
  /\ panicked' = (panicked \/ \E s \in members[f] : channel[s] = "closed")
  /\ announced' = IF outbox[f].kind = "data" THEN announced
                  ELSE [announced EXCEPT ![f] = outbox[f].kind]
  /\ Resume(f, IF outbox[f].kind = "disconnected" THEN "backoff"
                                                  ELSE "forward")
  /\ outbox' = [outbox EXCEPT ![f] = NoEvent]
  /\ UNCHANGED <<feeds, members, cancelled, feedKey, sequence, upstreamVars,
                 spc, subKey, channel>>

(* There is an event to read.  Mutant: the select does not wait for one.   *)
HasEventAlways(f) == TRUE
HasEvent(f) == queued[f] > 0

(* The inner select: the context is done, an event, or the end of events.  *)
FeedForward(f) ==
  /\ fpc[f] = "forward"
  /\ \/ /\ Done(f)
        /\ Resume(f, "exit")
        /\ UNCHANGED <<sequence, outbox, queued>>
     \/ /\ HasEvent(f)
        /\ sequence[f] < MaxSequence
        /\ queued' = [queued EXCEPT ![f] = @ - 1]
        /\ Number(f, "data")
     \/ /\ queued[f] = 0
        /\ upstream[f] = "closed"
        /\ Resume(f, "backoff")
        /\ UNCHANGED <<sequence, outbox, queued>>
  /\ UNCHANGED <<feeds, members, cancelled, feedKey, announced, upstream,
                 subVars, panicked>>

(* waitOrDone: the context is done, or the two seconds are over.           *)
FeedBackoff(f) ==
  /\ fpc[f] = "backoff"
  /\ \/ Done(f) /\ Resume(f, "exit")
     \/ Resume(f, "check")
  /\ UNCHANGED <<feeds, members, cancelled, feedKey, sequence, outbox,
                 announced, upstreamVars, subVars, panicked>>

(* The feed is still in the map.  Mutant: the clean-up does not ask.       *)
StillCurrentAlways(f) == TRUE
StillCurrent(f) == feeds[feedKey[f]] = f

(* The deferred clean-up.  Its branch for a feed still in the map closes   *)
(* the feed's clients.  The object and its context are free afterwards.    *)
(* The websocket's own reader may outlive this goroutine until its read    *)
(* deadline, 45 seconds at most (client_http.go:438-439); all it can do is *)
(* fill a channel that nobody reads, so it is not followed here.           *)
FeedExit(f) ==
  /\ fpc[f] = "exit"
  /\ IF StillCurrent(f)
     THEN /\ CloseChannels(members[f])
          /\ feeds' = [feeds EXCEPT ![feedKey[f]] = NoFeed]
          /\ members' = [members EXCEPT ![f] = {}]
     ELSE UNCHANGED <<channel, panicked, feeds, members>>
  /\ Resume(f, "unused")
  /\ cancelled' = cancelled \ {f}
  /\ feedKey' = [feedKey EXCEPT ![f] = AnyKey]
  /\ sequence' = [sequence EXCEPT ![f] = 0]
  /\ upstream' = [upstream EXCEPT ![f] = "none"]
  /\ queued' = [queued EXCEPT ![f] = 0]
  /\ announced' = [announced EXCEPT ![f] = "none"]
  /\ UNCHANGED <<outbox, spc, subKey, buffer, lagged>>

FeedStep(f) == \/ FeedCheck(f) \/ FeedSubscribe(f) \/ Broadcast(f)
               \/ FeedForward(f) \/ FeedBackoff(f) \/ FeedExit(f)
-----------------------------------------------------------------------------
SetUpstream(f, from, to) == /\ upstream[f] \in from
                            /\ upstream' = [upstream EXCEPT ![f] = to]

otherVars == <<feeds, members, cancelled, feedVars, subVars, panicked>>

(* safeClient.Subscribe's goroutine: dial and subscribe, read until the    *)
(* connection fails, dial again; stop once the context is done.            *)
UpstreamConnects(f) == SetUpstream(f, {"down"}, "live")
                       /\ UNCHANGED <<queued, otherVars>>
UpstreamDrops(f) == SetUpstream(f, {"live"}, "down")
                    /\ UNCHANGED <<queued, otherVars>>
UpstreamStops(f) == /\ f \in cancelled \/ UnreliableClient
                    /\ SetUpstream(f, {"down", "live"}, "closed")
                    /\ UNCHANGED <<queued, otherVars>>

(* readWSEvents, sendEvent: an event is lost when the channel is full, so  *)
(* only the case in which there is room changes anything.                  *)
UpstreamDelivers(f) ==
  /\ upstream[f] = "live"
  /\ queued[f] < UpstreamCapacity
  /\ queued' = [queued EXCEPT ![f] = @ + 1]
  /\ UNCHANGED <<upstream, otherVars>>

Next ==
  \/ \E s \in Subs : \/ \E k \in Keys : Subscribe(s, k)
                     \/ Receive(s) \/ Close(s) \/ CloseOut(s)
  \/ Reset
  \/ \E f \in Feeds : \/ FeedStep(f)
                      \/ UpstreamConnects(f) \/ UpstreamDrops(f)
                      \/ UpstreamStops(f) \/ UpstreamDelivers(f)

(* Goroutines run and a subscription's owner drains a closed channel.      *)
(* Nothing is assumed of the exchange or of when subscriptions come and go.*)
Fairness ==
  /\ \A f \in Feeds : WF_vars(FeedStep(f))
  /\ \A s \in Subs : /\ WF_vars(CloseOut(s))
                     /\ WF_vars(CloseEnded(s))
                     /\ WF_vars(Receive(s))

SafetySpec == Init /\ [][Next]_vars
Spec == SafetySpec /\ Fairness
-----------------------------------------------------------------------------
(* Every variable has its type.                                            *)
TypeOK ==
  /\ feeds \in [Keys -> Feeds \union {NoFeed}]
  /\ members \in [Feeds -> SUBSET Subs]
  /\ feedKey \in [Feeds -> Keys]
  /\ cancelled \subseteq Feeds
  /\ sequence \in [Feeds -> Nat]
  /\ fpc \in [Feeds -> {"unused", "check", "subscribing", "sending", "forward",
                        "backoff", "exit"}]
  /\ outbox \in [Feeds -> Event]
  /\ upstream \in [Feeds -> {"none", "down", "live", "closed"}]
  /\ queued \in [Feeds -> Nat]
  /\ spc \in [Subs -> {"idle", "open", "closing"}]
  /\ subKey \in [Subs -> Keys]
  /\ channel \in [Subs -> {"none", "open", "closed"}]
  /\ buffer \in [Subs -> Seq(Event)]
  /\ lagged \in [Subs -> BOOLEAN]
  /\ announced \in [Feeds -> {"none", "connected", "disconnected"}]
  /\ panicked \in BOOLEAN

(* No goroutine sends on a closed channel and none closes a channel twice, *)
(* either of which would take the whole backend down: Close, Reset and a   *)
(* feed's exit agree on who closes (service.go:129-187).                   *)
NoPanic == ~panicked

(* A goroutine that has not been cancelled is the current feed of its key: *)
(* none is left running with nobody able to stop it.  A current feed has   *)
(* clients and is not cancelled.                                           *)
EveryFeedIsOwned ==
  /\ \A f \in Feeds : fpc[f] # "unused" /\ f \notin cancelled
                        => feeds[feedKey[f]] = f
  /\ \A k \in Keys : feeds[k] # NoFeed =>
       /\ fpc[feeds[k]] # "unused" /\ feedKey[feeds[k]] = k
       /\ feeds[k] \notin cancelled
       /\ members[feeds[k]] # {}

(* A subscription whose channel is open is a client of the current feed of *)
(* its key: it never waits on a feed that was replaced.                    *)
OpenChannelIsServed ==
  \A s \in Subs : spc[s] = "open" /\ channel[s] = "open" =>
    /\ feeds[subKey[s]] # NoFeed
    /\ s \in members[feeds[subKey[s]]]

(* A subscription whose buffer never filled up holds consecutive events,   *)
(* and the last of them is the last its feed has broadcast.                *)
NoSilentLoss ==
  \A s \in Subs : ~lagged[s] =>
    /\ \A i, j \in DOMAIN buffer[s] :
         j = i + 1 => buffer[s][j].number = buffer[s][i].number + 1
    /\ spc[s] = "open" /\ channel[s] = "open" /\ buffer[s] # <<>> =>
         LET f == feeds[subKey[s]]
         IN buffer[s][Len(buffer[s])].number =
              IF fpc[f] = "sending" THEN sequence[f] - 1 ELSE sequence[f]

(* A cancelled feed's goroutine comes to its end.                          *)
CancelledFeedsEnd ==
  \A f \in Feeds : f \in cancelled /\ fpc[f] # "unused" ~> fpc[f] = "unused"

(* A stream that no feed serves any more, because a switch reset the       *)
(* manager, comes to its end after the events it still holds: it is never  *)
(* left silent and open (service.go:151-166, server.go:715-718).           *)
ResetStreamsEnd ==
  \A s \in Subs :
    spc[s] = "open" /\ s \notin UNION {members[f] : f \in Feeds}
      ~> spc[s] = "idle"

(* The bus that the manager implements: a feed that was replaced publishes *)
(* to nobody, and nothing reaches a subscription after Reset.              *)
Bus == INSTANCE EventBus WITH
  Topics <- Keys, Subscribers <- Subs, Room <- Capacity,
  Events <- [number : 1..MaxSequence, kind : Kinds],
  audience <- [k \in Keys |-> IF feeds[k] = NoFeed THEN {}
                              ELSE members[feeds[k]]],
  inbox <- buffer

ImplementsBus == Bus!Spec

(* Upstream connection changes are told to the streams: once it was called *)
(* connected, an upstream that is down is up again or announced as lost.   *)
UpstreamLossIsAnnounced ==
  \A f \in Feeds : announced[f] = "connected" /\ upstream[f] = "down" ~>
    announced[f] # "connected" \/ upstream[f] = "live" \/ f \in cancelled
=============================================================================
