------------------------ MODULE StreamManager_proofs ------------------------
(***************************************************************************)
(* Proofs about StreamManager for any keys, subscriptions, feeds, channel  *)
(* sizes and clients.                                                      *)
(*                                                                         *)
(* The argument: a channel is open exactly as long as it is a client of a  *)
(* feed or its owner is about to close it, the clients of a feed belong to *)
(* it alone, and a feed is the current one of its key until it has been    *)
(* cancelled.  Whoever closes a channel has therefore just taken it out of *)
(* the only feed that could send on it or close it.                        *)
(***************************************************************************)
EXTENDS StreamManager, TLAPS

(* The clients of a feed are open and belong to no other; a channel that   *)
(* is about to be closed is still open.                                    *)
Channels ==
  /\ \A f \in Feeds : \A s \in members[f] :
       /\ spc[s] = "open"
       /\ channel[s] = "open"
       /\ feeds[subKey[s]] = f
       /\ feedKey[f] = subKey[s]
  /\ \A s \in Subs : spc[s] = "closing" => channel[s] = "open"

(* Only a cancelled feed leaves, and only a feed in use is cancelled.      *)
Cancellation ==
  \A f \in Feeds : /\ fpc[f] = "exit" => f \in cancelled
                   /\ f \in cancelled => fpc[f] # "unused"

(* The inductive invariant.                                                *)
SInv == /\ TypeOK
        /\ Channels
        /\ Cancellation
        /\ EveryFeedIsOwned
        /\ OpenChannelIsServed
        /\ NoPanic

(* What the upstream loop of a feed does.                                   *)
UpstreamStep(f) == \/ UpstreamConnects(f) \/ UpstreamDrops(f)
                   \/ UpstreamStops(f) \/ UpstreamDelivers(f)

(* The steps of the manager, as the proofs split them.                     *)
LEMMA StepCases ==
  ASSUME NEW ACTION P, Next,
         ASSUME NEW s \in Subs, NEW k \in Keys, Subscribe(s, k) PROVE P,
         ASSUME NEW s \in Subs, Receive(s) PROVE P,
         ASSUME NEW s \in Subs, Close(s) PROVE P,
         ASSUME NEW s \in Subs, CloseOut(s) PROVE P,
         ASSUME Reset PROVE P,
         ASSUME NEW f \in Feeds, FeedCheck(f) PROVE P,
         ASSUME NEW f \in Feeds, FeedSubscribe(f) PROVE P,
         ASSUME NEW f \in Feeds, Broadcast(f) PROVE P,
         ASSUME NEW f \in Feeds, FeedForward(f) PROVE P,
         ASSUME NEW f \in Feeds, FeedBackoff(f) PROVE P,
         ASSUME NEW f \in Feeds, FeedExit(f) PROVE P,
         ASSUME NEW f \in Feeds, UpstreamStep(f) PROVE P
  PROVE  P
  BY DEF Next, FeedStep, UpstreamStep

(* The three outcomes of Close: nobody serves the key, the channel is not  *)
(* a client of the feed that does, or it is.                               *)
LEMMA CloseCases ==
  ASSUME TypeOK, NEW s \in Subs, Close(s)
  PROVE  LET f == feeds[subKey[s]]
         IN \/ /\ f = NoFeed
               /\ UNCHANGED <<feeds, members, cancelled>>
               /\ Forget(s)
            \/ /\ f \in Feeds /\ s \notin members[f]
               /\ UNCHANGED members
               /\ IF members[f] = {}
                  THEN /\ cancelled' = cancelled \union {f}
                       /\ feeds' = [feeds EXCEPT ![subKey[s]] = NoFeed]
                  ELSE UNCHANGED <<feeds, cancelled>>
               /\ Forget(s)
            \/ /\ f \in Feeds /\ s \in members[f]
               /\ members' = [members EXCEPT ![f] = @ \ {s}]
               /\ IF members[f] = {s}
                  THEN /\ cancelled' = cancelled \union {f}
                       /\ feeds' = [feeds EXCEPT ![subKey[s]] = NoFeed]
                  ELSE /\ members[f] \ {s} # {}
                       /\ UNCHANGED <<feeds, cancelled>>
               /\ spc' = [spc EXCEPT ![s] = "closing"]
               /\ UNCHANGED <<subKey, channel, buffer, lagged>>
  <1> DEFINE f == feeds[subKey[s]]
  <1>1. f \in Feeds \union {NoFeed} /\ members \in [Feeds -> SUBSET Subs]
    BY DEF TypeOK
  <1>2. CASE f = NoFeed
    BY <1>2 DEF Close, MustClose, Abandoned, Cancel, Delete
  <1>3. CASE f \in Feeds /\ s \notin members[f]
    BY <1>1, <1>3, StreamAssumption DEF Close, MustClose, Abandoned, Cancel,
                                        Delete
  <1>4. CASE f \in Feeds /\ s \in members[f]
    BY <1>1, <1>4, StreamAssumption DEF Close, MustClose, Abandoned, Cancel,
                                        Delete
  <1> QED
    BY <1>1, <1>2, <1>3, <1>4

(* The members it leaves are typed.                                        *)
LEMMA CloseMembers ==
  ASSUME TypeOK, NEW s \in Subs, Close(s)
  PROVE  members' \in [Feeds -> SUBSET Subs]
  <1> DEFINE f == feeds[subKey[s]]
  <1>1. \/ UNCHANGED members
        \/ f \in Feeds /\ members' = [members EXCEPT ![f] = @ \ {s}]
    BY CloseCases
  <1>2. members \in [Feeds -> SUBSET Subs]
    BY DEF TypeOK
  <1> HIDE DEF f
  <1> QED
    BY <1>1, <1>2

(* A client of the feed that serves its key leaves it, and the feed ends   *)
(* with its last client.                                                   *)
LEMMA CloseClient ==
  ASSUME TypeOK, NEW s \in Subs, Close(s),
         feeds[subKey[s]] \in Feeds, s \in members[feeds[subKey[s]]]
  PROVE  LET f == feeds[subKey[s]]
         IN /\ members' = [members EXCEPT ![f] = @ \ {s}]
            /\ spc' = [spc EXCEPT ![s] = "closing"]
            /\ UNCHANGED <<subKey, channel>>
            /\ \/ /\ members[f] = {s}
                  /\ cancelled' = cancelled \union {f}
                  /\ feeds' = [feeds EXCEPT ![subKey[s]] = NoFeed]
               \/ /\ members[f] # {s}
                  /\ members[f] \ {s} # {}
                  /\ UNCHANGED <<feeds, cancelled>>
  BY CloseCases, StreamAssumption

(* Giving up a subscription keeps the types of what it changes.            *)
LEMMA ForgetTyped ==
  ASSUME TypeOK, NEW s \in Subs, Forget(s)
  PROVE  /\ spc' \in [Subs -> {"idle", "open", "closing"}]
         /\ subKey' \in [Subs -> Keys]
         /\ channel' \in [Subs -> {"none", "open", "closed"}]
         /\ buffer' \in [Subs -> Seq(Event)]
         /\ lagged' \in [Subs -> BOOLEAN]
  <1>1. AnyKey \in Keys /\ <<>> \in Seq(Event)
    BY StreamAssumption DEF AnyKey
  <1> QED
    BY <1>1 DEF TypeOK, Forget

(* So does numbering an event.                                             *)
LEMMA NumberTyped ==
  ASSUME TypeOK, NEW f \in Feeds, NEW kind \in Kinds, Number(f, kind)
  PROVE  /\ sequence' \in [Feeds -> Nat]
         /\ outbox' \in [Feeds -> Event]
         /\ fpc' \in [Feeds -> {"unused", "check", "subscribing", "sending",
                              "forward", "backoff", "exit"}]
  BY DEF TypeOK, Number, Resume, Event

(* A step keeps every variable in its type.                                *)
LEMMA TypeStep == TypeOK /\ [Next]_vars => TypeOK'
  <1> SUFFICES ASSUME TypeOK, Next PROVE TypeOK'
    BY ZenonT(60) DEF vars, feedVars, upstreamVars, subVars, TypeOK
  <1> USE StreamAssumption
      DEF TypeOK, Kinds, Event, NoEvent, feedVars, upstreamVars, subVars
  <1>1. ASSUME NEW s \in Subs, NEW k \in Keys, Subscribe(s, k) PROVE TypeOK'
    <2>1. CASE JoinFeed(s, k)
      BY <1>1, <2>1 DEF Subscribe, JoinFeed
    <2>2. CASE StartFeed(s, k)
      BY <1>1, <2>2 DEF Subscribe, StartFeed, Resume
    <2> QED
      BY <1>1, <2>1, <2>2 DEF Subscribe
  <1>2. ASSUME NEW s \in Subs, Receive(s) PROVE TypeOK'
    BY <1>2 DEF Receive
  <1>3. ASSUME NEW s \in Subs, Close(s) PROVE TypeOK'
    <2> DEFINE f == feeds[subKey[s]]
    <2>1. f = NoFeed \/ f \in Feeds
      OBVIOUS
    <2>2. feeds' \in [Keys -> Feeds \union {NoFeed}]
      BY <1>3 DEF Close, MustClose, Abandoned, Cancel, Delete
    <2>3. members' \in [Feeds -> SUBSET Subs]
      BY <1>3, CloseMembers
    <2>4. cancelled' \subseteq Feeds
      BY <1>3, <2>1 DEF Close, MustClose, Abandoned, Cancel, Delete
    <2>5. CASE f # NoFeed /\ s \in members[f]
      BY <1>3, <2>2, <2>3, <2>4, <2>5, ZenonT(60)
         DEF Close, MustClose, Abandoned, Cancel, Delete
    <2>6. CASE ~(f # NoFeed /\ s \in members[f])
      <3>1. Forget(s)
        BY <1>3, <2>6 DEF Close, MustClose, Abandoned, Cancel, Delete
      <3> QED
        BY <1>3, <2>2, <2>3, <2>4, <3>1, ForgetTyped
           DEF Close, MustClose, Abandoned, Cancel, Delete
    <2> QED
      BY <2>5, <2>6
  <1>4. ASSUME NEW s \in Subs, CloseOut(s) PROVE TypeOK'
    BY <1>4, ForgetTyped DEF CloseOut
  <1>5. ASSUME Reset PROVE TypeOK'
    BY <1>5 DEF Reset, Detach, CloseChannels
  <1>6. ASSUME NEW f \in Feeds, FeedCheck(f) PROVE TypeOK'
    BY <1>6 DEF FeedCheck, Done, Resume
  <1>7. ASSUME NEW f \in Feeds, FeedSubscribe(f) PROVE TypeOK'
    <2>1. PICK kind \in Kinds : Number(f, kind)
      BY <1>7 DEF FeedSubscribe
    <2>2. upstream' \in [Feeds -> {"none", "down", "live", "closed"}]
      BY <1>7 DEF FeedSubscribe
    <2> QED
      BY <1>7, <2>1, <2>2, NumberTyped DEF FeedSubscribe
  <1>8. ASSUME NEW f \in Feeds, Broadcast(f) PROVE TypeOK'
    <2>1. buffer' \in [Subs -> Seq(Event)]
      <3>1. \A s \in Subs : Append(buffer[s], outbox[f]) \in Seq(Event)
        OBVIOUS
      <3> QED
        BY <1>8, <3>1 DEF Broadcast
    <2>2. announced' \in [Feeds -> {"none", "connected", "disconnected"}]
      BY <1>8 DEF Broadcast
    <2>3. outbox' \in [Feeds -> Event]
      BY <1>8 DEF Broadcast
    <2> QED
      BY <1>8, <2>1, <2>2, <2>3 DEF Broadcast, Resume
  <1>9. ASSUME NEW f \in Feeds, FeedForward(f) PROVE TypeOK'
    <2>1. queued' \in [Feeds -> Nat]
      BY <1>9 DEF FeedForward, Done, HasEvent
    <2>2. CASE Number(f, "data")
      <3>1. "data" \in Kinds
        OBVIOUS
      <3> QED
        BY <1>9, <2>1, <2>2, <3>1, NumberTyped DEF FeedForward, Done, HasEvent
    <2>3. CASE /\ UNCHANGED <<sequence, outbox>>
               /\ Resume(f, "exit") \/ Resume(f, "backoff")
      BY <1>9, <2>1, <2>3 DEF FeedForward, Done, HasEvent, Resume
    <2> QED
      BY <1>9, <2>2, <2>3 DEF FeedForward, Done, HasEvent
  <1>10. ASSUME NEW f \in Feeds, FeedBackoff(f) PROVE TypeOK'
    BY <1>10 DEF FeedBackoff, Done, Resume
  <1>11. ASSUME NEW f \in Feeds, FeedExit(f) PROVE TypeOK'
    <2>1. AnyKey \in Keys
      BY DEF AnyKey
    <2>2. channel' \in [Subs -> {"none", "open", "closed"}]
      BY <1>11 DEF FeedExit, StillCurrent, CloseChannels
    <2>5. panicked' \in BOOLEAN
      BY <1>11, Zenon DEF FeedExit, StillCurrent, CloseChannels
    <2>3. feeds' \in [Keys -> Feeds \union {NoFeed}]
      BY <1>11, ZenonT(60) DEF FeedExit, StillCurrent
    <2>4. members' \in [Feeds -> SUBSET Subs]
      BY <1>11 DEF FeedExit, StillCurrent
    <2> QED
      BY <1>11, <2>1, <2>2, <2>3, <2>4, <2>5 DEF FeedExit, StillCurrent, Resume
  <1>12. ASSUME NEW f \in Feeds, UpstreamStep(f) PROVE TypeOK'
    <2>1. UNCHANGED otherVars
      BY <1>12 DEF UpstreamStep, UpstreamConnects, UpstreamDrops,
                   UpstreamStops, UpstreamDelivers
    <2>2. upstream' \in [Feeds -> {"none", "down", "live", "closed"}]
      <3>1. \A from, to :
              to \in {"live", "down", "closed"} /\ SetUpstream(f, from, to)
              => upstream' \in [Feeds -> {"none", "down", "live", "closed"}]
        BY DEF SetUpstream
      <3> QED
        BY <1>12, <3>1 DEF UpstreamStep, UpstreamConnects, UpstreamDrops,
                         UpstreamStops, UpstreamDelivers
    <2>3. queued' \in [Feeds -> Nat]
      BY <1>12 DEF UpstreamStep, UpstreamConnects, UpstreamDrops,
                   UpstreamStops, UpstreamDelivers
    <2> QED
      BY <2>1, <2>2, <2>3 DEF otherVars
  <1> QED
    BY StepCases, <1>1, <1>2, <1>3, <1>4, <1>5, <1>6, <1>7, <1>8, <1>9,
       <1>10, <1>11, <1>12

(* What ties channels and feeds to their owners.                           *)
Owners == Channels /\ Cancellation /\ EveryFeedIsOwned /\ OpenChannelIsServed

(* A step keeps channels and feeds to their owners.                        *)
LEMMA OwnersStep == TypeOK /\ Owners /\ [Next]_vars => Owners'
  <1> SUFFICES ASSUME TypeOK, Owners, Next PROVE Owners'
    BY DEF vars, feedVars, upstreamVars, subVars, Owners, Channels,
           Cancellation, EveryFeedIsOwned, OpenChannelIsServed
  <1> USE StreamAssumption
      DEF TypeOK, Owners, Channels, Cancellation, EveryFeedIsOwned,
          OpenChannelIsServed, feedVars, upstreamVars, subVars
  <1>1. ASSUME NEW s \in Subs, NEW k \in Keys, Subscribe(s, k) PROVE Owners'
    <2>1. CASE JoinFeed(s, k)
      BY <1>1, <2>1 DEF Subscribe, JoinFeed
    <2>2. CASE StartFeed(s, k)
      <3>1. PICK f \in Feeds : /\ fpc[f] = "unused"
                              /\ feeds' = [feeds EXCEPT ![k] = f]
                              /\ feedKey' = [feedKey EXCEPT ![f] = k]
                              /\ members' = [members EXCEPT ![f] = {s}]
                              /\ fpc' = [fpc EXCEPT ![f] = "check"]
        BY <2>2 DEF StartFeed, Resume
      <3>2. f \notin cancelled /\ \A j \in Keys : feeds[j] # f
        BY <3>1
      <3>3. Channels'
        BY <1>1, <2>2, <3>1, <3>2 DEF Subscribe, StartFeed
      <3>4. Cancellation'
        BY <1>1, <2>2, <3>1, <3>2 DEF Subscribe, StartFeed
      <3>5. EveryFeedIsOwned'
        BY <1>1, <2>2, <3>1, <3>2 DEF Subscribe, StartFeed
      <3>6. OpenChannelIsServed'
        BY <1>1, <2>2, <3>1, <3>2 DEF Subscribe, StartFeed
      <3> QED
        BY <3>3, <3>4, <3>5, <3>6
    <2> QED
      BY <1>1, <2>1, <2>2 DEF Subscribe
  <1>2. ASSUME NEW s \in Subs, Receive(s) PROVE Owners'
    BY <1>2 DEF Receive
  <1>3. ASSUME NEW s \in Subs, Close(s) PROVE Owners'
    <2> DEFINE f == feeds[subKey[s]]
    <2>1. UNCHANGED <<fpc, feedKey>> /\ (f \in Feeds => members[f] # {})
      BY <1>3 DEF Close, MustClose, Abandoned, Cancel, Delete
    <2>2. CASE f \notin Feeds \/ s \notin members[f]
      <3>1. UNCHANGED <<feeds, members, cancelled>> /\ Forget(s)
        BY <1>3, <2>1, <2>2, CloseCases
      <3> QED
        BY <2>1, <2>2, <3>1 DEF Forget
    <2>3. CASE f \in Feeds /\ s \in members[f]
      <3>0. /\ members' = [members EXCEPT ![f] = @ \ {s}]
            /\ spc' = [spc EXCEPT ![s] = "closing"]
            /\ UNCHANGED <<subKey, channel>>
            /\ \/ /\ members[f] = {s}
                  /\ cancelled' = cancelled \union {f}
                  /\ feeds' = [feeds EXCEPT ![subKey[s]] = NoFeed]
               \/ /\ members[f] # {s}
                  /\ members[f] \ {s} # {}
                  /\ UNCHANGED <<feeds, cancelled>>
        BY <1>3, <2>3, CloseClient
      <3>1. /\ members' = [members EXCEPT ![f] = @ \ {s}]
            /\ spc' = [spc EXCEPT ![s] = "closing"]
            /\ UNCHANGED <<subKey, channel>>
        BY <3>0
      <3>2. CASE members[f] = {s}
        <4>1. /\ cancelled' = cancelled \union {f}
              /\ feeds' = [feeds EXCEPT ![subKey[s]] = NoFeed]
          BY ONLY <3>0, <3>2
        <4>2. Channels'
          BY <2>1, <2>3, <3>1, <3>2, <4>1
        <4>3. Cancellation' /\ EveryFeedIsOwned'
          BY <2>1, <2>3, <3>1, <3>2, <4>1
        <4>4. OpenChannelIsServed'
          BY <2>1, <2>3, <3>1, <3>2, <4>1
        <4> QED
          BY <4>2, <4>3, <4>4
      <3>3. CASE members[f] # {s}
        <4>1. UNCHANGED <<cancelled, feeds>> /\ members[f] \ {s} # {}
          BY ONLY <3>0, <3>3
        <4> QED
          BY <2>1, <2>3, <3>1, <3>3, <4>1
      <3> QED
        BY <3>2, <3>3
    <2> QED
      BY <2>2, <2>3
  <1>4. ASSUME NEW s \in Subs, CloseOut(s) PROVE Owners'
    BY <1>4 DEF CloseOut, Forget
  <1>5. ASSUME Reset PROVE Owners'
    BY <1>5 DEF Reset, Detach, CloseChannels
  <1>6. ASSUME NEW f \in Feeds, FeedCheck(f) PROVE Owners'
    BY <1>6 DEF FeedCheck, Done, Resume
  <1>7. ASSUME NEW f \in Feeds, FeedSubscribe(f) PROVE Owners'
    BY <1>7 DEF FeedSubscribe, Number, Resume
  <1>8. ASSUME NEW f \in Feeds, Broadcast(f) PROVE Owners'
    BY <1>8 DEF Broadcast, Resume
  <1>9. ASSUME NEW f \in Feeds, FeedForward(f) PROVE Owners'
    BY <1>9 DEF FeedForward, Done, HasEvent, Number, Resume
  <1>10. ASSUME NEW f \in Feeds, FeedBackoff(f) PROVE Owners'
    BY <1>10 DEF FeedBackoff, Done, Resume
  <1>11. ASSUME NEW f \in Feeds, FeedExit(f) PROVE Owners'
    BY <1>11 DEF FeedExit, StillCurrent, CloseChannels, Resume
  <1>12. ASSUME NEW f \in Feeds, UpstreamStep(f) PROVE Owners'
    BY <1>12 DEF UpstreamStep, UpstreamConnects, UpstreamDrops,
                   UpstreamStops, UpstreamDelivers, SetUpstream, otherVars
  <1> QED
    BY StepCases, <1>1, <1>2, <1>3, <1>4, <1>5, <1>6, <1>7, <1>8, <1>9,
       <1>10, <1>11, <1>12

(* A step never sends on a closed channel and closes none twice.           *)
LEMMA PanicStep == TypeOK /\ Owners /\ NoPanic /\ [Next]_vars => NoPanic'
  <1> SUFFICES ASSUME TypeOK, Owners, NoPanic, Next PROVE NoPanic'
    BY DEF vars, NoPanic
  <1> USE DEF TypeOK, NoPanic, feedVars, upstreamVars, subVars
  <1>1. ASSUME NEW s \in Subs, NEW k \in Keys, Subscribe(s, k) PROVE NoPanic'
    BY <1>1 DEF Subscribe, JoinFeed, StartFeed, Resume
  <1>2. ASSUME NEW s \in Subs, Receive(s) PROVE NoPanic'
    BY <1>2 DEF Receive
  <1>3. ASSUME NEW s \in Subs, Close(s) PROVE NoPanic'
    BY <1>3 DEF Close, MustClose, Abandoned, Cancel, Delete, Forget
  <1>4. ASSUME NEW s \in Subs, CloseOut(s) PROVE NoPanic'
    BY <1>4 DEF CloseOut, Owners, Channels
  <1>5. ASSUME Reset PROVE NoPanic'
    BY <1>5 DEF Reset, Detach, CloseChannels, Owners, Channels,
                EveryFeedIsOwned
  <1>6. ASSUME NEW f \in Feeds, FeedCheck(f) PROVE NoPanic'
    BY <1>6 DEF FeedCheck, Done, Resume
  <1>7. ASSUME NEW f \in Feeds, FeedSubscribe(f) PROVE NoPanic'
    BY <1>7 DEF FeedSubscribe, Number, Resume
  <1>8. ASSUME NEW f \in Feeds, Broadcast(f) PROVE NoPanic'
    BY <1>8 DEF Broadcast, Owners, Channels
  <1>9. ASSUME NEW f \in Feeds, FeedForward(f) PROVE NoPanic'
    BY <1>9 DEF FeedForward, Done, HasEvent, Number, Resume
  <1>10. ASSUME NEW f \in Feeds, FeedBackoff(f) PROVE NoPanic'
    BY <1>10 DEF FeedBackoff, Done, Resume
  <1>11. ASSUME NEW f \in Feeds, FeedExit(f) PROVE NoPanic'
    BY <1>11 DEF FeedExit, StillCurrent, CloseChannels, Owners, Channels
  <1>12. ASSUME NEW f \in Feeds, UpstreamStep(f) PROVE NoPanic'
    BY <1>12 DEF UpstreamStep, UpstreamConnects, UpstreamDrops,
                   UpstreamStops, UpstreamDelivers, SetUpstream, otherVars
  <1> QED
    BY StepCases, <1>1, <1>2, <1>3, <1>4, <1>5, <1>6, <1>7, <1>8, <1>9,
       <1>10, <1>11, <1>12

(* The inductive invariant holds initially ...                             *)
LEMMA SInvInit == Init => SInv
  <1>1. AnyKey \in Keys /\ <<>> \in Seq(Event)
    BY StreamAssumption DEF AnyKey
  <1>2. NoEvent \in Event
    BY DEF NoEvent, Event, Kinds
  <1>3. Init => TypeOK
    <2> SUFFICES ASSUME Init PROVE TypeOK
      OBVIOUS
    <2>1. buffer \in [Subs -> Seq(Event)] /\ outbox \in [Feeds -> Event]
      BY <1>1, <1>2 DEF Init
    <2>2. feedKey \in [Feeds -> Keys] /\ subKey \in [Subs -> Keys]
      BY <1>1 DEF Init
    <2>3. panicked \in BOOLEAN /\ lagged \in [Subs -> BOOLEAN]
      BY DEF Init
    <2> QED
      BY <2>1, <2>2, <2>3 DEF Init, TypeOK
  <1>4. Init => Channels /\ Cancellation /\ NoPanic
    BY DEF Init, Channels, Cancellation, NoPanic
  <1>5. Init => EveryFeedIsOwned /\ OpenChannelIsServed
    BY DEF Init, EveryFeedIsOwned, OpenChannelIsServed
  <1> QED
    BY <1>3, <1>4, <1>5 DEF SInv

(* ... and every step keeps it.                                            *)
LEMMA SInvStep == SInv /\ [Next]_vars => SInv'
  BY TypeStep, OwnersStep, PanicStep DEF SInv, Owners

(* The inductive invariant holds in every state the manager can reach.     *)
THEOREM Invariant == SafetySpec => []SInv
  BY SInvInit, SInvStep, PTL DEF SafetySpec

(* Every variable keeps its type.                                          *)
THEOREM TypeCorrect == SafetySpec => []TypeOK
  <1>1. SInv => TypeOK
    BY DEF SInv
  <1> QED
    BY <1>1, Invariant, PTL

(* The backend never panics over a stream channel, whatever the order in   *)
(* which streams come and go, networks are switched and feeds end.         *)
THEOREM NeverPanics == SafetySpec => []NoPanic
  <1>1. SInv => NoPanic
    BY DEF SInv
  <1> QED
    BY <1>1, Invariant, PTL

(* No feed is left running that nobody can stop (service.go:129-166).      *)
THEOREM FeedsAreOwned == SafetySpec => []EveryFeedIsOwned
  <1>1. SInv => EveryFeedIsOwned
    BY DEF SInv
  <1> QED
    BY <1>1, Invariant, PTL

(* No open stream waits on a feed that was replaced (service.go:104-187).  *)
THEOREM StreamsAreServed == SafetySpec => []OpenChannelIsServed
  <1>1. SInv => OpenChannelIsServed
    BY DEF SInv
  <1> QED
    BY <1>1, Invariant, PTL
-----------------------------------------------------------------------------
(* What else the refinement needs: a feed about to broadcast has numbered  *)
(* the event within the bound, and who is not subscribed holds no events.  *)
Numbers ==
  /\ \A f \in Feeds :
       /\ sequence[f] <= MaxSequence
       /\ fpc[f] = "subscribing" => sequence[f] < MaxSequence
       /\ fpc[f] = "sending" => /\ outbox[f].number = sequence[f]
                                /\ outbox[f].number > 0
  /\ \A s \in Subs : spc[s] = "idle" => buffer[s] = <<>>

(* Every step keeps the numbers in order.                                  *)
LEMMA NumbersStep == TypeOK /\ Channels /\ Numbers /\ [Next]_vars => Numbers'
  <1> SUFFICES ASSUME TypeOK, Channels, Numbers, Next PROVE Numbers'
    BY DEF vars, feedVars, upstreamVars, subVars, Numbers
  <1> USE StreamAssumption
      DEF TypeOK, Numbers, feedVars, upstreamVars, subVars
  <1>1. ASSUME NEW s \in Subs, NEW k \in Keys, Subscribe(s, k) PROVE Numbers'
    BY <1>1 DEF Subscribe, JoinFeed, StartFeed, Resume
  <1>2. ASSUME NEW s \in Subs, Receive(s) PROVE Numbers'
    BY <1>2 DEF Receive
  <1>3. ASSUME NEW s \in Subs, Close(s) PROVE Numbers'
    <2>1. UNCHANGED <<sequence, fpc, outbox>>
      BY <1>3 DEF Close, MustClose, Abandoned, Cancel, Delete
    <2>2. \/ Forget(s)
          \/ UNCHANGED buffer /\ spc' = [spc EXCEPT ![s] = "closing"]
      BY <1>3 DEF Close, MustClose, Abandoned, Cancel, Delete
    <2>3. \A r \in Subs : spc'[r] = "idle" => buffer'[r] = <<>>
      BY <2>2 DEF Forget
    <2> QED
      BY <2>1, <2>3
  <1>4. ASSUME NEW s \in Subs, CloseOut(s) PROVE Numbers'
    BY <1>4 DEF CloseOut, Forget
  <1>5. ASSUME Reset PROVE Numbers'
    BY <1>5 DEF Reset, Detach, CloseChannels
  <1>6. ASSUME NEW f \in Feeds, FeedCheck(f) PROVE Numbers'
    BY <1>6 DEF FeedCheck, Done, Resume
  <1>7. ASSUME NEW f \in Feeds, FeedSubscribe(f) PROVE Numbers'
    <2>1. PICK kind \in Kinds : Number(f, kind)
      BY <1>7 DEF FeedSubscribe, Kinds
    <2>2. fpc[f] = "subscribing" /\ UNCHANGED <<spc, buffer>>
      BY <1>7 DEF FeedSubscribe
    <2> QED
      BY <2>1, <2>2 DEF Number, Resume
  <1>8. ASSUME NEW f \in Feeds, Broadcast(f) PROVE Numbers'
    <2>1. /\ UNCHANGED <<sequence, spc>>
          /\ outbox' = [outbox EXCEPT ![f] = NoEvent]
      BY <1>8 DEF Broadcast
    <2>2. fpc' \in [Feeds -> {"unused", "check", "subscribing", "sending",
                           "forward", "backoff", "exit"}]
          /\ fpc'[f] \in {"backoff", "forward"}
          /\ \A g \in Feeds : g # f => fpc'[g] = fpc[g]
      BY <1>8 DEF Broadcast, Resume
    <2>3. \A s \in Subs : spc[s] = "idle" => buffer'[s] = buffer[s]
      BY <1>8 DEF Broadcast, Channels
    <2> QED
      BY <2>1, <2>2, <2>3
  <1>9. ASSUME NEW f \in Feeds, FeedForward(f) PROVE Numbers'
    BY <1>9 DEF FeedForward, Done, HasEvent, Number, Resume
  <1>10. ASSUME NEW f \in Feeds, FeedBackoff(f) PROVE Numbers'
    BY <1>10 DEF FeedBackoff, Done, Resume
  <1>11. ASSUME NEW f \in Feeds, FeedExit(f) PROVE Numbers'
    BY <1>11 DEF FeedExit, StillCurrent, CloseChannels, Resume
  <1>12. ASSUME NEW f \in Feeds, UpstreamStep(f) PROVE Numbers'
    BY <1>12 DEF UpstreamStep, UpstreamConnects, UpstreamDrops,
                   UpstreamStops, UpstreamDelivers, SetUpstream, otherVars
  <1> QED
    BY StepCases, <1>1, <1>2, <1>3, <1>4, <1>5, <1>6, <1>7, <1>8, <1>9,
       <1>10, <1>11, <1>12

-----------------------------------------------------------------------------
(* Per key, the clients of its current feed: the audience of the bus.      *)
Audience ==
  [k \in Keys |-> IF feeds[k] = NoFeed THEN {} ELSE members[feeds[k]]]

(* A step on which the bus does not move.                                  *)
LEMMA Stutters ==
  ASSUME Audience' = Audience, buffer' = buffer
  PROVE  [Bus!Next]_(Bus!vars)
  BY DEF Bus!vars, Audience

(* Every client is in the audience of its own key only.                    *)
LEMMA Audiences ==
  ASSUME TypeOK, Channels, EveryFeedIsOwned
  PROVE  \A k \in Keys, s \in Subs : s \in Audience[k] =>
           /\ spc[s] = "open"
           /\ subKey[s] = k
           /\ feeds[k] \in Feeds
           /\ s \in members[feeds[k]]
  <1>1. feeds \in [Keys -> Feeds \union {NoFeed}]
    BY DEF TypeOK
  <1> QED
    BY <1>1 DEF Channels, EveryFeedIsOwned, Audience

(* Every step of the manager is a step of the bus or leaves it alone.      *)
LEMMA BusStep == SInv /\ Numbers /\ [Next]_vars => [Bus!Next]_(Bus!vars)
  <1> DEFINE BStep == [Bus!Next]_(Bus!vars)
  <1> SUFFICES ASSUME TypeOK, Channels, Cancellation, EveryFeedIsOwned,
                      Numbers, Next
               PROVE  BStep
    <2>1. UNCHANGED vars => Audience' = Audience /\ buffer' = buffer
      BY DEF vars, subVars, Audience
    <2> QED
      BY <2>1, Stutters DEF SInv
  <1> USE StreamAssumption DEF feedVars, upstreamVars, subVars
  <1>1. ASSUME NEW s \in Subs, NEW k \in Keys, Subscribe(s, k) PROVE BStep
    <2>1. \A j \in Keys : s \notin Audience[j]
      BY <1>1, Audiences DEF Subscribe
    <2>2. buffer[s] = <<>> /\ buffer' = buffer
      BY <1>1 DEF Subscribe, Numbers
    <2>3. Audience' = [Audience EXCEPT ![k] = @ \union {s}]
      <3>1. CASE JoinFeed(s, k)
        <4>1. /\ feeds[k] \in Feeds
              /\ members' = [members EXCEPT ![feeds[k]] = @ \union {s}]
              /\ UNCHANGED feeds
          BY <3>1 DEF JoinFeed, TypeOK
        <4>2. \A j \in Keys : feeds[j] = feeds[k] => j = k
          BY <4>1 DEF EveryFeedIsOwned
        <4>3. /\ members \in [Feeds -> SUBSET Subs]
              /\ feeds \in [Keys -> Feeds \union {NoFeed}]
          BY DEF TypeOK
        <4> QED
          BY <4>1, <4>2, <4>3 DEF Audience
      <3>2. CASE StartFeed(s, k)
        <4>1. PICK f \in Feeds : /\ fpc[f] = "unused"
                                /\ feeds' = [feeds EXCEPT ![k] = f]
                                /\ members' = [members EXCEPT ![f] = {s}]
          BY <3>2 DEF StartFeed
        <4>2. \A j \in Keys : feeds[j] # f
          BY <4>1 DEF EveryFeedIsOwned
        <4>3. feeds[k] = NoFeed
          BY <3>2 DEF StartFeed
        <4> QED
          BY <4>1, <4>2, <4>3 DEF Audience, TypeOK
      <3> QED
        BY <1>1, <3>1, <3>2 DEF Subscribe
    <2>4. Bus!Join(s, k)
      BY <2>1, <2>2, <2>3 DEF Bus!Join, Audience
    <2> QED
      BY <2>4 DEF Bus!Next
  <1>2. ASSUME NEW s \in Subs, Receive(s) PROVE BStep
    <2>1. Bus!Take(s)
      BY <1>2 DEF Receive, Bus!Take
    <2> QED
      BY <2>1 DEF Bus!Next
  <1>3. ASSUME NEW s \in Subs, Close(s) PROVE BStep
    <2> DEFINE f == feeds[subKey[s]]
    <2>1. CASE f \notin Feeds \/ s \notin members[f]
      <3>1. /\ UNCHANGED <<feeds, members>> \/ members[f] = {}
            /\ Forget(s)
        BY <1>3, <2>1, CloseCases
      <3>2. f \in Feeds => members[f] # {}
        <4>1. subKey[s] \in Keys
          BY DEF TypeOK
        <4> QED
          BY <4>1 DEF EveryFeedIsOwned
      <3>3. Audience' = Audience
        BY <1>3, <2>1, <3>2, CloseCases DEF Audience
      <3>4. \A k \in Keys : s \notin Audience[k]
        BY <2>1, Audiences
      <3>5. Bus!Drop(s)
        BY <3>1, <3>3, <3>4 DEF Bus!Drop, Forget, Audience
      <3> QED
        BY <3>5 DEF Bus!Next
    <2>2. CASE f \in Feeds /\ s \in members[f]
      <3>1. /\ members' = [members EXCEPT ![f] = @ \ {s}]
            /\ \/ feeds' = feeds
               \/ /\ members[f] = {s}
                  /\ feeds' = [feeds EXCEPT ![subKey[s]] = NoFeed]
            /\ UNCHANGED buffer
        BY <1>3, <2>2, CloseCases
      <3>2. Audience' = [k \in Keys |-> Audience[k] \ {s}]
        <4>1. /\ subKey[s] \in Keys
              /\ members \in [Feeds -> SUBSET Subs]
              /\ feeds \in [Keys -> Feeds \union {NoFeed}]
          BY DEF TypeOK
        <4>2. \A j \in Keys : j # subKey[s] => s \notin Audience[j]
          BY Audiences
        <4>3. \A j \in Keys : feeds[j] = f => j = subKey[s]
          BY <2>2, <4>1 DEF EveryFeedIsOwned
        <4>4. CASE feeds' = feeds
          BY <2>2, <3>1, <4>1, <4>2, <4>3, <4>4 DEF Audience
        <4>5. CASE feeds' # feeds
          BY <2>2, <3>1, <4>1, <4>2, <4>3, <4>5 DEF Audience
        <4> QED
          BY <4>4, <4>5
      <3>3. Bus!Leave(s)
        BY <3>1, <3>2 DEF Bus!Leave, Audience
      <3> QED
        BY <3>3 DEF Bus!Next
    <2> QED
      BY <2>1, <2>2
  <1>4. ASSUME NEW s \in Subs, CloseOut(s) PROVE BStep
    <2>1. \A k \in Keys : s \notin Audience[k]
      BY <1>4, Audiences DEF CloseOut
    <2>2. Bus!Drop(s)
      BY <1>4, <2>1 DEF CloseOut, Forget, Bus!Drop, Audience
    <2> QED
      BY <2>2 DEF Bus!Next
  <1>5. ASSUME Reset PROVE BStep
    <2>1. Audience' = [k \in Keys |-> {}] /\ UNCHANGED buffer
      BY <1>5 DEF Reset, Detach, Audience
    <2>2. Bus!Clear
      BY <2>1 DEF Bus!Clear, Audience
    <2> QED
      BY <2>2 DEF Bus!Next
  <1>6. ASSUME NEW f \in Feeds, FeedCheck(f) PROVE BStep
    <2>1. Audience' = Audience /\ buffer' = buffer
      BY <1>6 DEF FeedCheck, Done, Audience
    <2> QED
      BY <2>1, Stutters
  <1>7. ASSUME NEW f \in Feeds, FeedSubscribe(f) PROVE BStep
    <2>1. Audience' = Audience /\ buffer' = buffer
      BY <1>7 DEF FeedSubscribe, Audience
    <2> QED
      BY <2>1, Stutters
  <1>8. ASSUME NEW f \in Feeds, Broadcast(f) PROVE BStep
    <2>1. Audience' = Audience
      BY <1>8 DEF Broadcast, Audience
    <2>2. CASE feeds[feedKey[f]] = f
      <3>1. outbox[f] \in [number : 1..MaxSequence, kind : Kinds]
        BY <1>8 DEF Broadcast, TypeOK, Numbers, Event
      <3>2. feedKey[f] \in Keys /\ Audience[feedKey[f]] = members[f]
        BY <2>2 DEF TypeOK, Audience
      <3>3. buffer' = [s \in Subs |->
                         IF /\ s \in Audience[feedKey[f]]
                            /\ Len(buffer[s]) < Capacity
                         THEN Append(buffer[s], outbox[f]) ELSE buffer[s]]
        BY <1>8, <3>2 DEF Broadcast, HasRoom
      <3>4. Bus!Publish(feedKey[f], outbox[f])
        BY <2>1, <3>2, <3>3 DEF Bus!Publish, Audience
      <3> QED
        BY <3>1, <3>2, <3>4 DEF Bus!Next
    <2>3. CASE feeds[feedKey[f]] # f
      <3>1. members[f] = {}
        BY <2>3 DEF TypeOK, Channels
      <3>2. buffer' = buffer
        BY <1>8, <3>1 DEF Broadcast, TypeOK
      <3> QED
        BY <2>1, <3>2, Stutters
    <2> QED
      BY <2>2, <2>3
  <1>9. ASSUME NEW f \in Feeds, FeedForward(f) PROVE BStep
    <2>1. Audience' = Audience /\ buffer' = buffer
      BY <1>9 DEF FeedForward, Done, HasEvent, Audience
    <2> QED
      BY <2>1, Stutters
  <1>10. ASSUME NEW f \in Feeds, FeedBackoff(f) PROVE BStep
    <2>1. Audience' = Audience /\ buffer' = buffer
      BY <1>10 DEF FeedBackoff, Done, Audience
    <2> QED
      BY <2>1, Stutters
  <1>11. ASSUME NEW f \in Feeds, FeedExit(f) PROVE BStep
    <2>1. feeds[feedKey[f]] # f
      BY <1>11 DEF FeedExit, StillCurrent, Cancellation, TypeOK,
                   EveryFeedIsOwned
    <2>2. Audience' = Audience /\ buffer' = buffer
      BY <1>11, <2>1 DEF FeedExit, StillCurrent, Audience
    <2> QED
      BY <2>2, Stutters
  <1>12. ASSUME NEW f \in Feeds, UpstreamStep(f) PROVE BStep
    <2>1. Audience' = Audience /\ buffer' = buffer
      BY <1>12 DEF UpstreamStep, UpstreamConnects, UpstreamDrops,
                   UpstreamStops, UpstreamDelivers, SetUpstream, otherVars,
                   Audience
    <2> QED
      BY <2>1, Stutters
  <1> QED
    BY StepCases, <1>1, <1>2, <1>3, <1>4, <1>5, <1>6, <1>7, <1>8, <1>9,
       <1>10, <1>11, <1>12

(* The manager is the bus it promises to be: every event reaches exactly   *)
(* the open streams of its key that have room, and none after a Reset.     *)
THEOREM Implements == SafetySpec => ImplementsBus
  <1>1. Init => Numbers /\ Bus!Init
    BY StreamAssumption DEF Init, Numbers, Bus!Init
  <1>2. SafetySpec => []Numbers
    <2>1. SInv => TypeOK /\ Channels
      BY DEF SInv
    <2> QED
      BY <1>1, <2>1, NumbersStep, Invariant, PTL DEF SafetySpec
  <1> QED
    BY <1>1, <1>2, BusStep, Invariant, PTL
       DEF SafetySpec, ImplementsBus, Bus!Spec
-----------------------------------------------------------------------------
(* The number of the last event a feed has broadcast.                      *)
LastSent(f) == IF fpc[f] = "sending" THEN sequence[f] - 1 ELSE sequence[f]

(* A subscription that can still be sent to.                               *)
Served(s) == spc[s] = "open" /\ channel[s] = "open"

(* NoSilentLoss of one subscription.                                       *)
Consecutive(b) ==
  \A i, j \in DOMAIN b : j = i + 1 => b[j].number = b[i].number + 1
UpToDate(s) ==
  Served(s) /\ buffer[s] # <<>> =>
    buffer[s][Len(buffer[s])].number = LastSent(feeds[subKey[s]])

LEMMA NoSilentLossIs ==
  NoSilentLoss <=>
    \A s \in Subs : ~lagged[s] => Consecutive(buffer[s]) /\ UpToDate(s)
  BY DEF NoSilentLoss, Consecutive, UpToDate, Served, LastSent

(* What Receive leaves of a gapless buffer, and what Broadcast makes of it.*)
LEMMA TailConsecutive ==
  ASSUME NEW b \in Seq(Event), b # <<>>, Consecutive(b)
  PROVE  /\ Consecutive(Tail(b))
         /\ Tail(b) # <<>> => Tail(b)[Len(Tail(b))] = b[Len(b)]
  <1>1. /\ Len(b) \in Nat \ {0} /\ DOMAIN b = 1..Len(b)
        /\ Len(Tail(b)) = Len(b) - 1
        /\ DOMAIN Tail(b) = 1..(Len(b) - 1)
        /\ \A i \in 1..(Len(b) - 1) : Tail(b)[i] = b[i + 1]
        /\ Tail(b) # <<>> => Len(Tail(b)) > 0
    OBVIOUS
  <1>2. ASSUME NEW i \in DOMAIN Tail(b), i + 1 \in DOMAIN Tail(b)
        PROVE  Tail(b)[i + 1].number = Tail(b)[i].number + 1
    <2>1. /\ i \in 1..Len(b) /\ i + 1 \in 1..Len(b) /\ i + 2 \in 1..Len(b)
          /\ i \in 1..(Len(b) - 1) /\ i + 1 \in 1..(Len(b) - 1)
      BY <1>1, <1>2
    <2>2. Tail(b)[i] = b[i + 1] /\ Tail(b)[i + 1] = b[i + 2]
      BY <1>1, <2>1
    <2>3. b[i + 2].number = b[i + 1].number + 1
      BY <1>1, <2>1 DEF Consecutive
    <2> QED
      BY <2>2, <2>3
  <1>3. Consecutive(Tail(b))
    BY <1>2 DEF Consecutive
  <1> QED
    BY <1>1, <1>3

LEMMA AppendConsecutive ==
  ASSUME NEW b \in Seq(Event), NEW e \in Event, Consecutive(b),
         b # <<>> => e.number = b[Len(b)].number + 1
  PROVE  /\ Consecutive(Append(b, e))
         /\ Append(b, e)[Len(Append(b, e))] = e
  <1> DEFINE n == Len(b)
  <1>1. /\ n \in Nat /\ DOMAIN b = 1..n
        /\ DOMAIN Append(b, e) = 1..(n + 1)
        /\ Len(Append(b, e)) = n + 1
        /\ Append(b, e)[n + 1] = e
        /\ \A i \in 1..n : Append(b, e)[i] = b[i]
        /\ n # 0 => b # <<>>
    OBVIOUS
  <1>2. ASSUME NEW i \in DOMAIN Append(b, e), i + 1 \in DOMAIN Append(b, e)
        PROVE  Append(b, e)[i + 1].number = Append(b, e)[i].number + 1
    <2>1. i \in 1..n
      BY <1>1, <1>2
    <2>2. CASE i = n
      BY <1>1, <2>1, <2>2
    <2>3. CASE i # n
      <3>1. i + 1 \in 1..n
        BY <1>1, <2>1, <2>3
      <3>2. b[i + 1].number = b[i].number + 1
        BY <1>1, <2>1, <3>1 DEF Consecutive
      <3> QED
        BY <1>1, <2>1, <3>1, <3>2
    <2> QED
      BY <2>2, <2>3
  <1>3. Consecutive(Append(b, e))
    BY <1>2 DEF Consecutive
  <1> QED
    BY <1>1, <1>3

(* A step that leaves a subscription and the feed it is served by alone.   *)
LEMMA KeepsUp ==
  ASSUME NEW s \in Subs, UpToDate(s),
         UNCHANGED <<buffer[s]>>,
         Served(s)' => /\ Served(s)
                       /\ feeds'[subKey'[s]] = feeds[subKey[s]]
                       /\ LastSent(feeds[subKey[s]])' =
                            LastSent(feeds[subKey[s]])
  PROVE  UpToDate(s)'
  BY DEF UpToDate, LastSent

(* A step that leaves every subscription alone or empties its buffer, and  *)
(* takes current feeds away without having them send.                      *)
LEMMA OthersKeepUp ==
  ASSUME SInv, SInv', NoSilentLoss,
         \A s \in Subs : \/ buffer'[s] = <<>>
                         \/ /\ buffer'[s] = buffer[s]
                            /\ ~lagged'[s] => ~lagged[s]
                            /\ Served(s)' => /\ Served(s)
                                             /\ subKey'[s] = subKey[s],
         \A k \in Keys : feeds[k] # NoFeed => feeds'[k] \in {feeds[k], NoFeed},
         \A f \in Feeds : f \in {feeds[k] : k \in Keys} =>
                            LastSent(f)' = LastSent(f)
  PROVE  NoSilentLoss'
  <1> SUFFICES ASSUME NEW s \in Subs, ~lagged'[s]
               PROVE  Consecutive(buffer'[s]) /\ UpToDate(s)'
    BY DEF NoSilentLoss, Consecutive, UpToDate, Served, LastSent
  <1>1. CASE buffer'[s] = <<>>
    BY <1>1 DEF Consecutive, UpToDate
  <1>2. CASE buffer'[s] # <<>>
    <2>1. /\ buffer'[s] = buffer[s]
          /\ Consecutive(buffer[s])
          /\ UpToDate(s)
          /\ Served(s)' => Served(s) /\ subKey'[s] = subKey[s]
      BY <1>2, NoSilentLossIs
    <2>2. ASSUME Served(s)'
          PROVE  /\ feeds'[subKey'[s]] = feeds[subKey[s]]
                 /\ LastSent(feeds[subKey[s]])' = LastSent(feeds[subKey[s]])
      <3>1. Served(s) /\ subKey'[s] = subKey[s] /\ subKey[s] \in Keys
        BY <2>1, <2>2 DEF SInv, TypeOK
      <3>2. feeds[subKey[s]] # NoFeed /\ feeds'[subKey[s]] # NoFeed
        BY <2>2, <3>1 DEF Served, SInv, OpenChannelIsServed
      <3>3. feeds[subKey[s]] \in Feeds
        BY <3>1, <3>2 DEF SInv, TypeOK
      <3>4. feeds'[subKey[s]] = feeds[subKey[s]]
        BY <3>1, <3>2
      <3> QED
        BY <3>1, <3>3, <3>4 DEF LastSent
    <2> QED
      BY <2>1, <2>2, KeepsUp
  <1> QED
    BY <1>1, <1>2

(* The feeds in the map are in use and not about to leave.                 *)
LEMMA CurrentFeeds ==
  ASSUME SInv, NEW f \in Feeds, f \in {feeds[k] : k \in Keys}
  PROVE  /\ fpc[f] \notin {"unused", "exit"}
         /\ feeds[feedKey[f]] = f
  BY StreamAssumption DEF SInv, EveryFeedIsOwned, Cancellation

(* Every step leaves the subscriptions that kept up without a gap.         *)
LEMMA NoLossStep ==
  SInv /\ SInv' /\ Numbers /\ NoSilentLoss /\ [Next]_vars => NoSilentLoss'
  <1> SUFFICES ASSUME SInv, SInv', Numbers, NoSilentLoss, Next
               PROVE  NoSilentLoss'
    BY DEF vars, feedVars, upstreamVars, subVars, NoSilentLoss
  <1> TypeOK
    BY DEF SInv
  <1> USE StreamAssumption DEF feedVars, upstreamVars, subVars
  <1>1. ASSUME NEW s \in Subs, NEW k \in Keys, Subscribe(s, k)
        PROVE  NoSilentLoss'
    <2>1. buffer[s] = <<>> /\ UNCHANGED <<buffer, lagged>>
      BY <1>1 DEF Subscribe, Numbers
    <2>2. \A r \in Subs : r # s =>
            /\ Served(r)' => Served(r)
            /\ subKey'[r] = subKey[r]
      BY <1>1 DEF Subscribe, Served, TypeOK
    <2>3. \A j \in Keys : feeds[j] # NoFeed => feeds'[j] = feeds[j]
      BY <1>1 DEF Subscribe, JoinFeed, StartFeed, TypeOK
    <2>4. ASSUME NEW f \in Feeds, f \in {feeds[j] : j \in Keys}
          PROVE  LastSent(f)' = LastSent(f)
      BY <1>1, <2>4, CurrentFeeds
         DEF Subscribe, JoinFeed, StartFeed, Resume, LastSent, TypeOK
    <2> QED
      BY <2>1, <2>2, <2>3, <2>4, OthersKeepUp
  <1>2. ASSUME NEW s \in Subs, Receive(s) PROVE NoSilentLoss'
    <2>1. /\ buffer[s] # <<>>
          /\ buffer' = [buffer EXCEPT ![s] = Tail(@)]
          /\ UNCHANGED <<lagged, spc, channel, subKey, feeds, fpc, sequence>>
      BY <1>2 DEF Receive
    <2> SUFFICES ASSUME NEW r \in Subs, ~lagged[r]
                 PROVE  Consecutive(buffer'[r]) /\ UpToDate(r)'
      BY <2>1 DEF NoSilentLoss, Consecutive, UpToDate, Served, LastSent
    <2>2. /\ Consecutive(buffer[r]) /\ UpToDate(r)
          /\ buffer[r] \in Seq(Event)
      BY NoSilentLossIs DEF TypeOK
    <2>3. CASE r # s
      BY <2>1, <2>2, <2>3 DEF TypeOK, UpToDate, Served, LastSent
    <2>4. CASE r = s
      <3>1. buffer'[s] = Tail(buffer[s])
        BY <2>1 DEF TypeOK
      <3> QED
        BY <2>1, <2>2, <2>4, <3>1, TailConsecutive
           DEF UpToDate, Served, LastSent
    <2> QED
      BY <2>3, <2>4
  <1>3. ASSUME NEW s \in Subs, Close(s) PROVE NoSilentLoss'
    <2>1. \/ Forget(s)
          \/ /\ spc' = [spc EXCEPT ![s] = "closing"]
             /\ UNCHANGED <<subKey, channel, buffer, lagged>>
      BY <1>3 DEF Close, MustClose, Abandoned, Cancel, Delete
    <2>2. \A r \in Subs : \/ buffer'[r] = <<>>
                          \/ /\ buffer'[r] = buffer[r]
                             /\ ~lagged'[r] => ~lagged[r]
                             /\ Served(r)' => /\ Served(r)
                                              /\ subKey'[r] = subKey[r]
      BY <2>1 DEF Forget, Served, TypeOK
    <2>3. \A j \in Keys : feeds'[j] \in {feeds[j], NoFeed}
      BY <1>3 DEF Close, MustClose, Abandoned, Cancel, Delete, TypeOK
    <2>4. \A f \in Feeds : LastSent(f)' = LastSent(f)
      BY <1>3 DEF Close, LastSent
    <2> QED
      BY <2>2, <2>3, <2>4, OthersKeepUp
  <1>4. ASSUME NEW s \in Subs, CloseOut(s) PROVE NoSilentLoss'
    <2>1. \A r \in Subs : \/ buffer'[r] = <<>>
                          \/ /\ buffer'[r] = buffer[r]
                             /\ ~lagged'[r] => ~lagged[r]
                             /\ Served(r)' => /\ Served(r)
                                              /\ subKey'[r] = subKey[r]
      BY <1>4 DEF CloseOut, Forget, Served, TypeOK
    <2> QED
      BY <1>4, <2>1, OthersKeepUp DEF CloseOut, LastSent
  <1>5. ASSUME Reset PROVE NoSilentLoss'
    <2>1. UNCHANGED <<buffer, lagged, spc, subKey, fpc, sequence>>
          /\ \A j \in Keys : feeds'[j] = NoFeed
      BY <1>5 DEF Reset
    <2>2. \A r \in Subs : Served(r)' => Served(r)
      BY <1>5 DEF Reset, CloseChannels, Served
    <2> QED
      BY <2>1, <2>2, OthersKeepUp DEF LastSent
  <1>6. ASSUME NEW f \in Feeds, FeedCheck(f) PROVE NoSilentLoss'
    <2>1. UNCHANGED <<buffer, lagged, spc, channel, subKey, feeds>>
      BY <1>6 DEF FeedCheck
    <2>2. \A g \in Feeds : LastSent(g)' = LastSent(g)
      BY <1>6 DEF FeedCheck, Done, Resume, LastSent, TypeOK
    <2> QED
      BY <2>1, <2>2, OthersKeepUp DEF Served, SInv, TypeOK
  <1>7. ASSUME NEW f \in Feeds, FeedSubscribe(f) PROVE NoSilentLoss'
    <2>1. UNCHANGED <<buffer, lagged, spc, channel, subKey, feeds>>
      BY <1>7 DEF FeedSubscribe
    <2>2. fpc[f] = "subscribing" /\ \E kind \in Kinds : Number(f, kind)
      BY <1>7 DEF FeedSubscribe, Kinds
    <2>3. \A g \in Feeds : LastSent(g)' = LastSent(g)
      BY <2>2 DEF Number, Resume, LastSent, TypeOK
    <2> QED
      BY <2>1, <2>3, OthersKeepUp DEF Served, SInv, TypeOK
  <1>9. ASSUME NEW f \in Feeds, FeedForward(f) PROVE NoSilentLoss'
    <2>1. UNCHANGED <<buffer, lagged, spc, channel, subKey, feeds>>
      BY <1>9 DEF FeedForward
    <2>2. \A g \in Feeds : LastSent(g)' = LastSent(g)
      BY <1>9 DEF FeedForward, Done, HasEvent, Number, Resume, LastSent, TypeOK
    <2> QED
      BY <2>1, <2>2, OthersKeepUp DEF Served, SInv, TypeOK
  <1>10. ASSUME NEW f \in Feeds, FeedBackoff(f) PROVE NoSilentLoss'
    <2>1. UNCHANGED <<buffer, lagged, spc, channel, subKey, feeds>>
      BY <1>10 DEF FeedBackoff
    <2>2. \A g \in Feeds : LastSent(g)' = LastSent(g)
      BY <1>10 DEF FeedBackoff, Done, Resume, LastSent, TypeOK
    <2> QED
      BY <2>1, <2>2, OthersKeepUp DEF Served, SInv, TypeOK
  <1>11. ASSUME NEW f \in Feeds, FeedExit(f) PROVE NoSilentLoss'
    <2>1. fpc[f] = "exit" /\ feeds[feedKey[f]] # f
      BY <1>11 DEF FeedExit, SInv, TypeOK, EveryFeedIsOwned, Cancellation
    <2>2. UNCHANGED <<buffer, lagged, spc, channel, subKey, feeds>>
      BY <1>11, <2>1 DEF FeedExit, StillCurrent
    <2>3. ASSUME NEW g \in Feeds, g \in {feeds[k] : k \in Keys}
          PROVE  LastSent(g)' = LastSent(g)
      <3>1. g # f
        BY <2>1, <2>3, CurrentFeeds
      <3> QED
        BY <1>11, <3>1 DEF FeedExit, Resume, LastSent, TypeOK
    <2> QED
      BY <2>2, <2>3, OthersKeepUp DEF Served, SInv, TypeOK
  <1>12. ASSUME NEW f \in Feeds, UpstreamStep(f) PROVE NoSilentLoss'
    <2>1. UNCHANGED <<buffer, lagged, spc, channel, subKey, feeds, fpc,
                      sequence>>
      BY <1>12 DEF UpstreamStep, UpstreamConnects, UpstreamDrops,
                   UpstreamStops, UpstreamDelivers, SetUpstream, otherVars
    <2> QED
      BY <2>1, OthersKeepUp DEF Served, LastSent, SInv, TypeOK
  <1>8. ASSUME NEW f \in Feeds, Broadcast(f) PROVE NoSilentLoss'
    <2>1. /\ fpc[f] = "sending"
          /\ UNCHANGED <<feeds, members, sequence, spc, subKey, channel>>
          /\ lagged' = [s \in Subs |->
                          lagged[s] \/ (s \in members[f] /\ ~HasRoom(s))]
          /\ buffer' = [s \in Subs |-> IF s \in members[f] /\ HasRoom(s)
                                       THEN Append(buffer[s], outbox[f])
                                       ELSE buffer[s]]
          /\ outbox[f].number = sequence[f]
      BY <1>8 DEF Broadcast, Numbers
    <2>2. /\ fpc' \in [Feeds -> {"unused", "check", "subscribing", "sending",
                                 "forward", "backoff", "exit"}]
          /\ fpc'[f] # "sending"
          /\ \A g \in Feeds : g # f => fpc'[g] = fpc[g]
      BY <1>8 DEF Broadcast, Resume, TypeOK
    <2> SUFFICES ASSUME NEW s \in Subs, ~lagged'[s]
                 PROVE  Consecutive(buffer'[s]) /\ UpToDate(s)'
      BY DEF NoSilentLoss, Consecutive, UpToDate, Served, LastSent
    <2>3. ~lagged[s] /\ Consecutive(buffer[s]) /\ UpToDate(s)
      BY <2>1, NoSilentLossIs
    <2>4. CASE s \in members[f]
      <3>1. buffer'[s] = Append(buffer[s], outbox[f])
        BY <2>1, <2>4
      <3>2. Served(s) /\ feeds[subKey[s]] = f /\ Served(s)'
        BY <2>1, <2>4 DEF Served, SInv, Channels
      <3>3. buffer[s] # <<>> =>
              buffer[s][Len(buffer[s])].number = sequence[f] - 1
        BY <2>1, <2>3, <3>2 DEF UpToDate, LastSent
      <3>4. buffer[s] \in Seq(Event) /\ outbox[f] \in Event
        BY DEF TypeOK
      <3>5. /\ sequence[f] \in Nat
            /\ buffer[s] # <<>> =>
                 outbox[f].number = buffer[s][Len(buffer[s])].number + 1
        BY <2>1, <3>3 DEF TypeOK
      <3>6. /\ Consecutive(buffer'[s])
            /\ buffer'[s][Len(buffer'[s])] = outbox[f]
        BY <2>3, <3>1, <3>4, <3>5, AppendConsecutive
      <3>7. UpToDate(s)'
        <4>1. LastSent(f)' = sequence[f]
          BY <2>1, <2>2 DEF LastSent
        <4> QED
          BY <2>1, <3>2, <3>6, <4>1 DEF UpToDate, LastSent
      <3> QED
        BY <3>6, <3>7
    <2>5. CASE s \notin members[f]
      <3>1. buffer'[s] = buffer[s]
        BY <2>1, <2>5
      <3>2. ASSUME Served(s)'
            PROVE  /\ Served(s) /\ feeds[subKey[s]] \in Feeds
                   /\ feeds[subKey[s]] # f
        <4>1. Served(s)
          BY <2>1, <3>2 DEF Served
        <4> QED
          BY <2>5, <4>1 DEF Served, SInv, OpenChannelIsServed, TypeOK
      <3>3. Served(s)' => /\ Served(s)
                          /\ feeds'[subKey'[s]] = feeds[subKey[s]]
                          /\ LastSent(feeds[subKey[s]])' =
                               LastSent(feeds[subKey[s]])
        BY <2>1, <2>2, <3>2 DEF LastSent
      <3> QED
        BY <2>3, <3>1, <3>3, KeepsUp
    <2> QED
      BY <2>4, <2>5
  <1> QED
    BY StepCases, <1>1, <1>2, <1>3, <1>4, <1>5, <1>6, <1>7, <1>8, <1>9,
       <1>10, <1>11, <1>12

(* A stream whose channel never filled up has every event its feed has     *)
(* broadcast since the first it holds (service.go:224-255).                *)
THEOREM NothingIsLostSilently == SafetySpec => []NoSilentLoss
  <1>1. Init => Numbers /\ NoSilentLoss
    BY StreamAssumption DEF Init, Numbers, NoSilentLoss
  <1>2. SafetySpec => []Numbers
    <2>1. SInv => TypeOK /\ Channels
      BY DEF SInv
    <2> QED
      BY <1>1, <2>1, NumbersStep, Invariant, PTL DEF SafetySpec
  <1> QED
    BY <1>1, <1>2, NoLossStep, Invariant, PTL DEF SafetySpec
=============================================================================
