------------------------ MODULE MarketStream_proofs ------------------------
(***************************************************************************)
(* MarketStream keeps its types, its channels their sizes and its versions *)
(* their bound; a page is about to show the newest state, and every fill   *)
(* once: for any sessions, channels and capacities.                        *)
(*                                                                         *)
(* The argument: an event passes from the queue to a stream's channel, so  *)
(* what is on the way to a page, Way(s), only ever gets one more at its    *)
(* end or loses one, its first when it is shown and another one when a     *)
(* full channel drops it.  Of a state the last event on the way is the     *)
(* last version sent (StateComes); of the fills all is in order, behind    *)
(* what is shown, and without a gap (LogComes).                            *)
(***************************************************************************)
EXTENDS MarketStream, NumberFacts, SequenceTheorems, TLAPS

USE MarketAssumption

Versions == 1..MaxVersion

(* The history of a log and what an event adds to it.                      *)
LEMMA UpToTyped == \A n \in Versions : UpTo(n) \in Seq(Versions)
  BY DEF UpTo, Versions

LEMMA ItemsTyped == \A e \in Event : Items(e) \in Seq(Versions)
  <1> SUFFICES ASSUME NEW e \in Event PROVE Items(e) \in Seq(Versions)
    OBVIOUS
  <1> DEFINE n == e.last + 1 - e.first
  <1>1. n \in Int /\ \A i \in 1..n : e.first - 1 + i \in Versions
    BY DEF Event, Versions
  <1>2. CASE n >= 0
    BY <1>1, <1>2 DEF Items
  <1>3. CASE n < 0
    <2>1. 1..n = {} /\ 1..n = 1..0
      BY <1>1, <1>3
    <2> QED
      BY <1>1, <2>1 DEF Items
  <1> QED
    BY <1>1, <1>2, <1>3

LEMMA AppliedTyped ==
  ASSUME NEW shown \in Seq(Versions), NEW e \in Event
  PROVE  Applied(shown, e) \in Seq(Versions)
  <1>1. <<e.last>> \in Seq(Versions) /\ Items(e) \in Seq(Versions)
    BY ItemsTyped DEF Event, Versions
  <1> QED
    BY <1>1 DEF Applied

LEMMA MissTyped ==
  ASSUME TypeOK, NEW S, NEW c \in Channels, Miss(S, c)
  PROVE  missed' \in [Sessions -> SUBSET Channels]
  BY DEF TypeOK, Miss

(* A stream is given up, and perhaps the feed with it.                     *)
LEMMA GoneTyped ==
  ASSUME TypeOK, NEW s \in Sessions, Gone(s), faults' \in 0..MaxFaults
  PROVE  TypeOK'
  <1>1. UNCHANGED version /\ phase' = [phase EXCEPT ![s] = "closed"]
        /\ read' = [read EXCEPT ![s] = {}]
        /\ since' = [since EXCEPT ![s] = [c \in Logs |-> 1]]
        /\ missed' = [missed EXCEPT ![s] = {}]
        /\ view' = [view EXCEPT ![s] = [c \in Channels |-> <<>>]]
        /\ buffer' = [buffer EXCEPT ![s] = <<>>]
    BY DEF Gone
  <1>2. \/ UNCHANGED <<link, queue, greeted, pushed>>
        \/ /\ link' = "down" /\ queue' = <<>> /\ greeted' = {}
           /\ pushed' = [c \in Channels |->
                          IF c \in States THEN 0 ELSE pushed[c]]
    BY DEF Gone
  <1>3. /\ pushed' \in [Channels -> 0..MaxVersion]
        /\ greeted' \subseteq Logs
        /\ link' \in {"down", "live"}
        /\ queue' \in Seq(Event) /\ Len(queue') <= QueueCapacity
    <2>1. queue' \in {queue, <<>>}
      BY <1>2
    <2>2. /\ queue \in Seq(Event) /\ Len(queue) <= QueueCapacity
          /\ pushed \in [Channels -> 0..MaxVersion]
          /\ greeted \subseteq Logs
          /\ link \in {"down", "live"}
      BY DEF TypeOK
    <2>3. pushed' \in [Channels -> 0..MaxVersion]
      BY <1>2, <2>2
    <2>4. greeted' \subseteq Logs /\ link' \in {"down", "live"}
      BY <1>2, <2>2
    <2>5. queue' \in Seq(Event) /\ Len(queue') <= QueueCapacity
      <3>1. CASE queue' = queue
        BY <2>2, <3>1
      <3>2. CASE queue' = <<>>
        <4>1. queue' \in Seq(Event)
          BY <3>2
        <4>2. Len(queue') = 0
          BY <3>2
        <4> QED
          BY <4>1, <4>2
      <3> QED
        BY <2>1, <3>1, <3>2
    <2> QED
      BY <2>3, <2>4, <2>5
  <1>4. /\ buffer' \in [Sessions -> Seq(Event)]
        /\ \A r \in Sessions : Len(buffer'[r]) <= BufferCapacity
        /\ view' \in [Sessions -> [Channels -> Seq(Versions)]]
    BY <1>1 DEF TypeOK, Versions
  <1>5. /\ since' \in [Sessions -> [Logs -> 1..MaxVersion]]
        /\ phase' \in [Sessions -> {"closed", "reading", "streaming"}]
        /\ read' \in [Sessions -> SUBSET Channels]
        /\ missed' \in [Sessions -> SUBSET Channels]
        /\ version' \in [Channels -> 1..MaxVersion]
    BY <1>1 DEF TypeOK
  <1> QED
    BY <1>3, <1>4, <1>5 DEF TypeOK, Versions

(* What follows a queue when something is appended to it.                  *)
LEMMA QueueTyped ==
  ASSUME TypeOK, NEW e \in Event, QueueHasRoom
  PROVE  /\ Append(queue, e) \in Seq(Event)
         /\ Len(Append(queue, e)) <= QueueCapacity
  BY DEF TypeOK, QueueHasRoom

LEMMA TypeStep == TypeOK /\ [Next]_vars => TypeOK'
  <1> SUFFICES ASSUME TypeOK, Next PROVE TypeOK'
    BY DEF vars, exchangeVars, sessionVars, TypeOK
  <1> USE DEF exchangeVars, sessionVars
  <1>1. ASSUME NEW c \in Channels, Change(c) PROVE TypeOK'
    BY <1>1 DEF Change, TypeOK
  <1>2. ASSUME NEW c \in Channels, PushState(c) PROVE TypeOK'
    <2> DEFINE e == [channel |-> c, first |-> version[c], last |-> version[c]]
    <2>1. e \in Event
      BY DEF TypeOK, Event
    <2>2. /\ queue' = Append(queue, e) /\ QueueHasRoom
          /\ pushed' = [pushed EXCEPT ![c] = version[c]]
          /\ UNCHANGED <<version, greeted, link, sessionVars, buffer, missed,
                         faults>>
      BY <1>2 DEF PushState
    <2>3. queue' \in Seq(Event) /\ Len(queue') <= QueueCapacity
      BY <2>1, <2>2, QueueTyped
    <2>4. pushed' \in [Channels -> 0..MaxVersion]
      BY <2>2 DEF TypeOK
    <2> QED
      BY <2>2, <2>3, <2>4 DEF TypeOK
  <1>3. ASSUME NEW c \in Channels, PushLog(c) PROVE TypeOK'
    <2> DEFINE first == IF c \notin greeted THEN 1 ELSE pushed[c] + 1
               e == [channel |-> c, first |-> first, last |-> version[c]]
    <2>1. /\ first <= version[c] /\ c \in Logs
          /\ \/ queue' = queue
             \/ queue' = Append(queue, e) /\ QueueHasRoom
          /\ pushed' = [pushed EXCEPT ![c] = version[c]]
          /\ greeted' = greeted \union {c}
          /\ UNCHANGED <<version, link, sessionVars, buffer, faults>>
      BY <1>3 DEF PushLog
    <2>2. e \in Event
      BY <2>1 DEF TypeOK, Event
    <2>3. queue' \in Seq(Event) /\ Len(queue') <= QueueCapacity
      <3>1. CASE queue' = queue
        BY <3>1 DEF TypeOK
      <3>2. CASE queue' = Append(queue, e) /\ QueueHasRoom
        <4> HIDE DEF e
        <4> QED
          BY <2>2, <3>2, QueueTyped
      <3> QED
        BY <2>1, <3>1, <3>2
    <2>4. missed' \in [Sessions -> SUBSET Channels]
      <3>1. UNCHANGED missed \/ \E S \in SUBSET Sessions : Miss(S, c)
        BY <1>3 DEF PushLog, Clients
      <3> QED
        BY <3>1, MissTyped DEF TypeOK
    <2>5. pushed' \in [Channels -> 0..MaxVersion] /\ greeted' \subseteq Logs
      BY <2>1 DEF TypeOK
    <2> QED
      BY <2>1, <2>3, <2>4, <2>5 DEF TypeOK
  <1>4. ASSUME Connect \/ Disconnect PROVE TypeOK'
    <2>1. /\ link' \in {"down", "live"}
          /\ greeted' \in {{}, greeted}
          /\ faults' \in 0..MaxFaults
          /\ UNCHANGED <<version, pushed, queue, sessionVars, buffer, missed>>
      BY <1>4 DEF Connect, Disconnect, Fault, TypeOK
    <2> QED
      BY <2>1 DEF TypeOK
  <1>5. ASSUME Broadcast PROVE TypeOK'
    <2>1. /\ queue # <<>> /\ queue' = Tail(queue)
          /\ buffer' = [s \in Sessions |-> IF s \in Clients /\ HasRoom(s)
                                           THEN Append(buffer[s], Head(queue))
                                           ELSE buffer[s]]
          /\ UNCHANGED <<exchangeVars, link, sessionVars, faults>>
      BY <1>5 DEF Broadcast
    <2>2. /\ Head(queue) \in Event /\ Tail(queue) \in Seq(Event)
          /\ Len(Tail(queue)) <= QueueCapacity
      BY <2>1 DEF TypeOK
    <2>3. missed' \in [Sessions -> SUBSET Channels]
      BY <1>5, <2>2, MissTyped DEF Broadcast, Event
    <2>4. ASSUME NEW s \in Sessions
          PROVE  /\ buffer'[s] \in Seq(Event)
                 /\ Len(buffer'[s]) <= BufferCapacity
      BY <2>1, <2>2 DEF TypeOK, HasRoom
    <2>5. buffer' \in [Sessions -> Seq(Event)]
      BY <2>1, <2>4
    <2> QED
      BY <2>1, <2>2, <2>3, <2>4, <2>5 DEF TypeOK
  <1>6. ASSUME NEW s \in Sessions, Open(s) PROVE TypeOK'
    <2>1. /\ phase' = [phase EXCEPT ![s] = "reading"]
          /\ since' = [since EXCEPT ![s] = [c \in Logs |-> version[c]]]
          /\ missed' = [missed EXCEPT ![s] = {}]
          /\ UNCHANGED <<exchangeVars, link, queue, read, view, buffer,
                         faults>>
      BY <1>6 DEF Open
    <2>2. [c \in Logs |-> version[c]] \in [Logs -> 1..MaxVersion]
      BY DEF TypeOK, Logs
    <2>3. since' \in [Sessions -> [Logs -> 1..MaxVersion]]
      BY <2>1, <2>2 DEF TypeOK
    <2> QED
      BY <2>1, <2>3 DEF TypeOK
  <1>7. ASSUME NEW s \in Sessions, SendSnapshot(s) PROVE TypeOK'
    BY <1>7 DEF SendSnapshot, TypeOK
  <1>8. ASSUME NEW s \in Sessions, Deliver(s) PROVE TypeOK'
    <2> DEFINE e == Head(buffer[s])
    <2>1. /\ buffer[s] # <<>>
          /\ view' = [view EXCEPT ![s][e.channel] = Applied(@, e)]
          /\ buffer' = [buffer EXCEPT ![s] = Tail(@)]
          /\ UNCHANGED <<exchangeVars, link, queue, phase, read, since, missed,
                         faults>>
      BY <1>8 DEF Deliver
    <2>2. /\ e \in Event /\ e.channel \in Channels
          /\ Tail(buffer[s]) \in Seq(Event)
          /\ Len(Tail(buffer[s])) <= BufferCapacity
      <3>1. buffer[s] \in Seq(Event) /\ Len(buffer[s]) <= BufferCapacity
        BY DEF TypeOK
      <3>2. e \in Event /\ Tail(buffer[s]) \in Seq(Event)
            /\ Len(Tail(buffer[s])) = Len(buffer[s]) - 1
        BY <2>1, <3>1
      <3> QED
        BY <3>1, <3>2 DEF Event
    <2>3. Applied(view[s][e.channel], e) \in Seq(Versions)
      <3>1. view[s][e.channel] \in Seq(Versions)
        BY <2>2 DEF TypeOK, Versions
      <3> HIDE DEF e
      <3> QED
        BY <2>2, <3>1, AppliedTyped
    <2>4. view' \in [Sessions -> [Channels -> Seq(Versions)]]
      BY <2>1, <2>2, <2>3 DEF TypeOK, Versions
    <2>5. /\ buffer' \in [Sessions -> Seq(Event)]
          /\ \A r \in Sessions : Len(buffer'[r]) <= BufferCapacity
      BY <2>1, <2>2 DEF TypeOK
    <2> QED
      BY <2>1, <2>4, <2>5 DEF TypeOK, Versions
  <1>9. ASSUME NEW s \in Sessions, Leave(s) PROVE TypeOK'
    BY <1>9, GoneTyped DEF Leave, TypeOK
  <1>10. ASSUME NEW s \in Sessions, NEW c \in Channels, Read(s, c)
         PROVE  TypeOK'
    <2>1. /\ read' = [read EXCEPT ![s] = @ \union {c}]
          /\ UNCHANGED <<exchangeVars, link, queue, phase, since, buffer,
                         missed>>
      BY <1>10 DEF Read
    <2>2. PICK part \in Outcomes(c) :
            /\ view' = [view EXCEPT ![s][c] = part]
            /\ faults' = IF part = Reply(c) THEN faults ELSE faults + 1
      BY <1>10 DEF Read
    <2>3. Reply(c) \in Seq(Versions)
      <3>1. version[c] \in Versions
        BY DEF TypeOK, Versions
      <3> QED
        BY <3>1, UpToTyped DEF Reply
    <2>4. part \in Seq(Versions) /\ (part # Reply(c) => faults < MaxFaults)
      <3>1. part = Reply(c) \/ (part = <<>> /\ faults < MaxFaults)
        BY <2>2 DEF Outcomes
      <3>2. <<>> \in Seq(Versions)
        OBVIOUS
      <3> HIDE DEF Versions
      <3> QED
        BY <2>3, <3>1, <3>2
    <2>5. view' \in [Sessions -> [Channels -> Seq(Versions)]]
      BY <2>2, <2>4 DEF TypeOK, Versions
    <2>6. faults' \in 0..MaxFaults
      BY <2>2, <2>4 DEF TypeOK
    <2>7. read' \in [Sessions -> SUBSET Channels]
      BY <2>1 DEF TypeOK
    <2> QED
      BY <2>1, <2>5, <2>6, <2>7 DEF TypeOK, Versions
  <1>11. ASSUME NEW s \in Sessions, NEW c \in Channels, ReadFails(s, c)
         PROVE  TypeOK'
    <2>1. Gone(s) /\ faults' \in 0..MaxFaults
      BY <1>11 DEF ReadFails, Fault, TypeOK
    <2> QED
      BY <2>1, GoneTyped
  <1> QED
    BY <1>1, <1>2, <1>3, <1>4, <1>5, <1>6, <1>7, <1>8, <1>9, <1>10, <1>11
       DEF Next

(* Versions stay within their bound, and neither the client's channel nor  *)
(* a stream's ever holds more than it has room for (client_http.go:        *)
(* 1861-1866, service.go:235-240).                                         *)
THEOREM TypeCorrect == Spec => []TypeOK
  <1>1. Init => TypeOK
    BY DEF Init, TypeOK
  <1> QED
    BY <1>1, TypeStep, PTL DEF Spec, SafetySpec
-----------------------------------------------------------------------------
(* The invariant behind what a page is about to show.  Of a state, the     *)
(* last event on the way is the last version that was sent, and with none  *)
(* on the way the page has that one already.                               *)
Fills == Logs \intersect {"fills", "funding"}

EndsWith(c, events, n) ==
  \A i \in On(c, events) :
    (\A j \in On(c, events) : j <= i) => events[i].last = n

StateComes(s, c) ==
  c \notin missed[s] =>
    /\ EndsWith(c, Way(s), pushed[c])
    /\ On(c, Way(s)) = {} =>
         \/ view[s][c] = <<>> /\ c \notin read[s]
         \/ \E v \in pushed[c]..version[c] : view[s][c] = <<v>>

(* Of the fills, what is on the way was sent, in order, and what is shown  *)
(* comes before it; with nothing dropped there is no gap.                  *)
Sent(c, events, n) ==
  /\ InOrder(c, events)
  /\ \A i \in On(c, events) :
       events[i].first <= events[i].last /\ events[i].last <= n

NoGap(s, c) ==
  phase[s] # "closed" /\ c \notin missed[s] =>
    \A n \in (since[s][c] + 1)..pushed[c] : Shown(s, c, n) \/ Coming(s, c, n)

LogComes(s, c) ==
  /\ Sent(c, Way(s), pushed[c])
  /\ ComesInOrder(s, c)
  /\ \A k \in DOMAIN view[s][c] : view[s][c][k] <= pushed[c]
  /\ NoGap(s, c)

(* A closed stream keeps nothing, a stream that sends has read the         *)
(* snapshot.                                                               *)
Quiet(s) ==
  phase[s] = "closed" =>
    /\ read[s] = {} /\ buffer[s] = <<>> /\ missed[s] = {}
    /\ \A c \in Channels : view[s][c] = <<>>
Started(s) ==
  /\ read[s] \subseteq InSnapshot
  /\ phase[s] = "streaming" => InSnapshot \intersect Channels \subseteq read[s]

(* What becomes of the events on the way: one more, one less.              *)
Without(events, after, k) ==
  /\ k \in 1..Len(events)
  /\ Len(after) = Len(events) - 1
  /\ \A i \in 1..Len(after) :
       after[i] = IF i < k THEN events[i] ELSE events[i + 1]

LEMMA WayTyped == TypeOK => \A s \in Sessions : Way(s) \in Seq(Event)
  <1> SUFFICES ASSUME TypeOK, NEW s \in Sessions PROVE Way(s) \in Seq(Event)
    OBVIOUS
  <1>1. buffer[s] \in Seq(Event) /\ queue \in Seq(Event)
    BY DEF TypeOK
  <1> QED
    BY <1>1 DEF Way

LEMMA NextWayTyped == TypeOK' => \A s \in Sessions : Way(s)' \in Seq(Event)
  <1> SUFFICES ASSUME TypeOK', NEW s \in Sessions
               PROVE  Way(s)' \in Seq(Event)
    OBVIOUS
  <1>1. buffer'[s] \in Seq(Event) /\ queue' \in Seq(Event)
    BY DEF TypeOK
  <1> QED
    BY <1>1 DEF Way

LEMMA AppendOnWay ==
  ASSUME NEW b \in Seq(Event), NEW q \in Seq(Event), NEW e \in Event
  PROVE  b \o Append(q, e) = Append(b \o q, e)
  OBVIOUS

LEMMA MovedOnWay ==
  ASSUME NEW b \in Seq(Event), NEW q \in Seq(Event), q # <<>>
  PROVE  Append(b, Head(q)) \o Tail(q) = b \o q
  OBVIOUS

LEMMA DroppedOnWay ==
  ASSUME NEW b \in Seq(Event), NEW q \in Seq(Event), q # <<>>
  PROVE  /\ Without(b \o q, b \o Tail(q), Len(b) + 1)
         /\ (b \o q)[Len(b) + 1] = Head(q)
  BY DEF Without

LEMMA DeliveredOnWay ==
  ASSUME NEW b \in Seq(Event), NEW q \in Seq(Event), b # <<>>
  PROVE  /\ Without(b \o q, Tail(b) \o q, 1)
         /\ (b \o q)[1] = Head(b)
  BY DEF Without

LEMMA TailOfQueue ==
  ASSUME NEW q \in Seq(Event), q # <<>>
  PROVE  Without(q, Tail(q), 1) /\ q[1] = Head(q)
  BY DEF Without

(* Less on the way: every event that is left was there before, in the same *)
(* order.                                                                  *)
LEMMA WithoutKeeps ==
  ASSUME NEW events \in Seq(Event), NEW after \in Seq(Event), NEW k,
         Without(events, after, k), NEW c \in Channels
  PROVE  /\ \A i \in On(c, after) :
              LET o == IF i < k THEN i ELSE i + 1
              IN  o \in On(c, events) /\ after[i] = events[o] /\ o # k
         /\ \A o \in On(c, events) \ {k} :
              LET i == IF o < k THEN o ELSE o - 1
              IN  i \in On(c, after) /\ after[i] = events[o]
  BY SMTT(30) DEF Without, On

LEMMA WithoutSent ==
  ASSUME NEW events \in Seq(Event), NEW after \in Seq(Event), NEW k,
         Without(events, after, k), NEW c \in Channels, NEW n \in Nat,
         Sent(c, events, n)
  PROVE  Sent(c, after, n)
  <1>1. k \in Nat /\ \A i \in On(c, events) \union On(c, after) : i \in Nat
    BY DEF On, Without
  <1> DEFINE was(i) == IF i < k THEN i ELSE i + 1
  <1>2. \A i \in On(c, after) :
          was(i) \in On(c, events) /\ after[i] = events[was(i)]
    BY WithoutKeeps
  <1>3. InOrder(c, after)
    <2>1. SUFFICES ASSUME NEW i \in On(c, after), NEW j \in On(c, after), i < j
                   PROVE  after[i].last < after[j].first
      BY DEF InOrder, On
    <2>2. was(i) < was(j)
      BY <1>1, <2>1
    <2> HIDE DEF was
    <2> QED
      BY <1>2, <2>1, <2>2 DEF Sent, InOrder
  <1>4. \A i \in On(c, after) :
          after[i].first <= after[i].last /\ after[i].last <= n
    <2> HIDE DEF was
    <2> QED
      BY <1>2 DEF Sent
  <1> QED
    BY <1>3, <1>4 DEF Sent

LEMMA WithoutEnds ==
  ASSUME NEW events \in Seq(Event), NEW after \in Seq(Event), NEW k,
         Without(events, after, k), NEW c \in Channels, NEW n \in Nat,
         EndsWith(c, events, n), k = 1 \/ events[k].channel # c
  PROVE  EndsWith(c, after, n)
  <1>1. k \in Nat /\ \A i \in On(c, events) \union On(c, after) : i \in Nat
    BY DEF On, Without
  <1>2. SUFFICES ASSUME NEW i \in On(c, after), \A j \in On(c, after) : j <= i
                 PROVE  after[i].last = n
    BY DEF EndsWith
  <1> DEFINE o == IF i < k THEN i ELSE i + 1
  <1>3. o \in On(c, events) /\ after[i] = events[o]
    BY WithoutKeeps
  <1>4. ASSUME NEW p \in On(c, events) PROVE p <= o
    <2>1. CASE p = k
      <3>1. k = 1
        BY <2>1 DEF On
      <3> QED
        BY <1>1, <1>3, <2>1, <3>1 DEF On
    <2>2. CASE p # k
      <3>1. (IF p < k THEN p ELSE p - 1) <= i
        BY <1>2, <2>2, WithoutKeeps
      <3> QED
        BY <1>1, <2>2, <3>1
    <2> QED
      BY <2>1, <2>2
  <1> QED
    BY <1>3, <1>4 DEF EndsWith

(* More on the way.                                                        *)
LEMMA AppendKeeps ==
  ASSUME NEW events \in Seq(Event), NEW e \in Event, NEW c \in Channels
  PROVE  /\ On(c, Append(events, e)) =
              IF e.channel = c THEN On(c, events) \union {Len(events) + 1}
              ELSE On(c, events)
         /\ On(c, events) \subseteq 1..Len(events)
         /\ \A i \in 1..Len(events) : Append(events, e)[i] = events[i]
         /\ Append(events, e)[Len(events) + 1] = e
  BY DEF On

LEMMA AppendSent ==
  ASSUME NEW events \in Seq(Event), NEW e \in Event, NEW c \in Channels,
         NEW n \in Nat, NEW m \in Nat, Sent(c, events, n), n <= m,
         e.channel = c => n < e.first /\ e.first <= e.last /\ e.last <= m
  PROVE  Sent(c, Append(events, e), m)
  <1>1. \A i \in 1..Len(events) : events[i] \in Event
    OBVIOUS
  <1>2. \A i \in On(c, events) :
          events[i].first \in Nat /\ events[i].last \in Nat /\ i \in Nat
    <2>1. \A i \in On(c, events) : i \in Nat /\ events[i] \in Event
      BY <1>1 DEF On
    <2> QED
      BY <2>1 DEF Event
  <1>3. e.first \in Nat /\ e.last \in Nat
    BY DEF Event
  <1> QED
    BY <1>2, <1>3, AppendKeeps DEF Sent, InOrder

LEMMA AppendEnds ==
  ASSUME NEW events \in Seq(Event), NEW e \in Event, NEW c \in Channels,
         NEW n \in Nat, NEW m \in Nat, EndsWith(c, events, n),
         IF e.channel = c THEN e.last = m ELSE n = m
  PROVE  EndsWith(c, Append(events, e), m)
  <1>1. CASE e.channel = c
    BY <1>1, AppendKeeps DEF EndsWith
  <1>2. CASE e.channel # c
    <2>1. On(c, Append(events, e)) = On(c, events)
      BY <1>2, AppendKeeps
    <2>2. \A i \in On(c, events) : Append(events, e)[i] = events[i]
      BY AppendKeeps
    <2> QED
      BY <1>2, <2>1, <2>2 DEF EndsWith
  <1> QED
    BY <1>1, <1>2
-----------------------------------------------------------------------------
(* A stream that sends has read every part of the snapshot.                *)
LEMMA AllRead ==
  ASSUME NEW s \in Sessions, \A c \in Channels : ~IsNextPart(s, c)
  PROVE  InSnapshot \intersect Channels \subseteq read[s]
  <1>1. /\ DOMAIN Parts = 1..4
        /\ Parts[1] = "assetContext" /\ Parts[2] = "book"
        /\ Parts[3] = "trades" /\ Parts[4] = "candle"
    BY DEF Parts
  <1>2. \A i \in 1..4 :
          (\A j \in 1..(i - 1) : Parts[j] \in Channels => Parts[j] \in read[s])
            => (Parts[i] \in Channels => Parts[i] \in read[s])
    BY <1>1 DEF IsNextPart
  <1> DEFINE Done(i) == Parts[i] \in Channels => Parts[i] \in read[s]
  <1>3. \A i \in 1..4 : (\A j \in 1..(i - 1) : Done(j)) => Done(i)
    BY <1>2
  <1> HIDE DEF Done
  <1>4. Done(1)
    BY <1>3
  <1>5. Done(2)
    <2>1. \A j \in 1..(2 - 1) : j = 1
      OBVIOUS
    <2> QED
      BY <1>3, <1>4, <2>1
  <1>6. Done(3)
    <2>1. \A j \in 1..(3 - 1) : j = 1 \/ j = 2
      OBVIOUS
    <2> QED
      BY <1>3, <1>4, <1>5, <2>1
  <1>7. Done(4)
    <2>1. \A j \in 1..(4 - 1) : j = 1 \/ j = 2 \/ j = 3
      OBVIOUS
    <2> QED
      BY <1>3, <1>4, <1>5, <1>6, <2>1
  <1>8. \A i \in 1..4 : Done(i)
    <2>1. \A i \in 1..4 : i = 1 \/ i = 2 \/ i = 3 \/ i = 4
      OBVIOUS
    <2> QED
      BY <2>1, <1>4, <1>5, <1>6, <1>7
  <1> QED
    BY <1>1, <1>8 DEF InSnapshot, Done

(* What holds of every stream, whatever it is sent.                        *)
Sessional ==
  /\ \A c \in Channels : pushed[c] <= version[c]
  /\ \A s \in Sessions : Quiet(s) /\ Started(s)

LEMMA GoneSessional ==
  ASSUME TypeOK, Sessional, NEW s \in Sessions, Gone(s)
  PROVE  Sessional'
  <1>1. /\ UNCHANGED version /\ phase' = [phase EXCEPT ![s] = "closed"]
        /\ read' = [read EXCEPT ![s] = {}]
        /\ missed' = [missed EXCEPT ![s] = {}]
        /\ view' = [view EXCEPT ![s] = [c \in Channels |-> <<>>]]
        /\ buffer' = [buffer EXCEPT ![s] = <<>>]
    BY DEF Gone
  <1>2. \/ pushed' = pushed
        \/ pushed' = [c \in Channels |-> IF c \in States THEN 0 ELSE pushed[c]]
    BY DEF Gone
  <1>3. \A c \in Channels : pushed'[c] <= version'[c]
    <2>1. /\ \A c \in Channels : pushed[c] <= version[c] /\ 0 <= version[c]
          /\ version' = version
      BY <1>1 DEF Sessional, TypeOK
    <2>2. \A c \in Channels : pushed'[c] \in {0, pushed[c]}
      BY <1>2
    <2> QED
      BY <2>1, <2>2
  <1>4. ASSUME NEW r \in Sessions PROVE (Quiet(r) /\ Started(r))'
    <2>1. Quiet(r) /\ Started(r)
      BY DEF Sessional
    <2> QED
      BY <1>1, <2>1 DEF Quiet, Started, TypeOK
  <1> QED
    BY <1>3, <1>4 DEF Sessional

LEMMA SessionStep == TypeOK /\ Sessional /\ [Next]_vars => Sessional'
  <1> SUFFICES ASSUME TypeOK, Sessional, Next PROVE Sessional'
    BY DEF vars, exchangeVars, sessionVars, Sessional, Quiet, Started
  <1> USE DEF exchangeVars, sessionVars
  <1>1. ASSUME NEW c \in Channels, Change(c) PROVE Sessional'
    BY <1>1 DEF Change, TypeOK, Sessional, Quiet, Started
  <1>2. ASSUME NEW c \in Channels, PushState(c) PROVE Sessional'
    <2>1. /\ pushed' = [pushed EXCEPT ![c] = version[c]]
          /\ UNCHANGED <<version, sessionVars, buffer, missed>>
      BY <1>2 DEF PushState
    <2> QED
      BY <2>1 DEF TypeOK, Sessional, Quiet, Started
  <1>3. ASSUME NEW c \in Channels, PushLog(c) PROVE Sessional'
    <2>1. /\ pushed' = [pushed EXCEPT ![c] = version[c]]
          /\ UNCHANGED <<version, sessionVars, buffer>>
          /\ UNCHANGED missed \/ \E S \in SUBSET Clients : Miss(S, c)
      BY <1>3 DEF PushLog
    <2>2. \A s \in Sessions : phase[s] = "closed" => missed'[s] = missed[s]
      BY <2>1 DEF Miss, Clients, Joins, TypeOK
    <2> QED
      BY <2>1, <2>2 DEF TypeOK, Sessional, Quiet, Started
  <1>4. ASSUME Connect \/ Disconnect PROVE Sessional'
    BY <1>4 DEF Connect, Disconnect, TypeOK, Sessional, Quiet, Started
  <1>5. ASSUME Broadcast PROVE Sessional'
    <2>1. /\ UNCHANGED <<exchangeVars, sessionVars>>
          /\ buffer' = [s \in Sessions |-> IF s \in Clients /\ HasRoom(s)
                                           THEN Append(buffer[s], Head(queue))
                                           ELSE buffer[s]]
          /\ \E S \in SUBSET Clients : Miss(S, Head(queue).channel)
      BY <1>5 DEF Broadcast
    <2>2. \A s \in Sessions : phase[s] = "closed" =>
            missed'[s] = missed[s] /\ buffer'[s] = buffer[s]
      BY <2>1 DEF Miss, Clients, Joins, TypeOK
    <2> QED
      BY <2>1, <2>2 DEF TypeOK, Sessional, Quiet, Started
  <1>6. ASSUME NEW s \in Sessions, Open(s) PROVE Sessional'
    <2>1. /\ phase' = [phase EXCEPT ![s] = "reading"]
          /\ UNCHANGED <<exchangeVars, read, view, buffer>>
          /\ missed' = [missed EXCEPT ![s] = {}]
      BY <1>6 DEF Open
    <2> QED
      BY <2>1 DEF TypeOK, Sessional, Quiet, Started
  <1>7. ASSUME NEW s \in Sessions, SendSnapshot(s) PROVE Sessional'
    <2>1. /\ phase' = [phase EXCEPT ![s] = "streaming"]
          /\ UNCHANGED <<exchangeVars, read, view, buffer, missed>>
      BY <1>7 DEF SendSnapshot
    <2>2. InSnapshot \intersect Channels \subseteq read[s]
      BY <1>7, AllRead DEF SendSnapshot
    <2> QED
      BY <2>1, <2>2 DEF TypeOK, Sessional, Quiet, Started
  <1>8. ASSUME NEW s \in Sessions, Deliver(s) PROVE Sessional'
    <2>1. /\ phase[s] = "streaming"
          /\ UNCHANGED <<exchangeVars, phase, read, missed>>
          /\ \A r \in Sessions \ {s} :
               view'[r] = view[r] /\ buffer'[r] = buffer[r]
      BY <1>8 DEF Deliver, TypeOK
    <2> QED
      BY <2>1 DEF Sessional, Quiet, Started
  <1>9. ASSUME NEW s \in Sessions, Leave(s) PROVE Sessional'
    BY <1>9, GoneSessional DEF Leave
  <1>10. ASSUME NEW s \in Sessions, NEW c \in Channels, Read(s, c)
         PROVE  Sessional'
    <2>1. /\ phase[s] = "reading" /\ c \in InSnapshot
          /\ read' = [read EXCEPT ![s] = @ \union {c}]
          /\ UNCHANGED <<exchangeVars, phase, buffer, missed>>
          /\ \A r \in Sessions \ {s} : view'[r] = view[r]
      BY <1>10 DEF Read, TypeOK, IsNextPart, InSnapshot
    <2> QED
      BY <2>1 DEF Sessional, Quiet, Started, TypeOK
  <1>11. ASSUME NEW s \in Sessions, NEW c \in Channels, ReadFails(s, c)
         PROVE  Sessional'
    BY <1>11, GoneSessional DEF ReadFails
  <1> QED
    BY <1>1, <1>2, <1>3, <1>4, <1>5, <1>6, <1>7, <1>8, <1>9, <1>10, <1>11
       DEF Next
-----------------------------------------------------------------------------
(* What a step does to the events on the way to a stream: nothing, one     *)
(* more event, one less.                                                   *)
LEMMA StreamingKinds == States \intersect Logs = {} /\ Fills \subseteq Logs
  BY DEF States, Logs, StateChannels, LogChannels, Fills

LEMMA BroadcastWay ==
  ASSUME TypeOK, Sessional, Broadcast, NEW s \in Sessions
  PROVE  \/ s \in Clients /\ Way(s)' = Way(s) /\ missed'[s] = missed[s]
         \/ /\ s \in Clients
            /\ missed'[s] = missed[s] \union {Head(queue).channel}
            /\ Without(Way(s), Way(s)', Len(buffer[s]) + 1)
            /\ Way(s)[Len(buffer[s]) + 1] = Head(queue)
         \/ /\ s \notin Clients /\ missed'[s] = missed[s]
            /\ Without(Way(s), Way(s)', 1)
  <1>1. /\ queue # <<>> /\ queue' = Tail(queue)
        /\ buffer' = [r \in Sessions |-> IF r \in Clients /\ HasRoom(r)
                                         THEN Append(buffer[r], Head(queue))
                                         ELSE buffer[r]]
        /\ Miss({r \in Clients : ~HasRoom(r)}, Head(queue).channel)
    BY DEF Broadcast
  <1>2. buffer[s] \in Seq(Event) /\ queue \in Seq(Event)
    BY DEF TypeOK
  <1>3. missed'[s] = IF s \in Clients /\ ~HasRoom(s)
                     THEN missed[s] \union {Head(queue).channel}
                     ELSE missed[s]
    BY <1>1 DEF Miss
  <1>4. CASE s \in Clients /\ HasRoom(s)
    <2>1. Way(s)' = Append(buffer[s], Head(queue)) \o Tail(queue)
      BY <1>1, <1>4 DEF Way
    <2> QED
      BY <1>1, <1>2, <1>3, <1>4, <2>1, MovedOnWay DEF Way
  <1>5. CASE s \in Clients /\ ~HasRoom(s)
    <2>1. Way(s)' = buffer[s] \o Tail(queue)
      BY <1>1, <1>5 DEF Way
    <2> QED
      BY <1>1, <1>2, <1>3, <1>5, <2>1, DroppedOnWay DEF Way
  <1>6. CASE s \notin Clients
    <2>1. Way(s)' = buffer[s] \o Tail(queue)
      BY <1>1, <1>6 DEF Way
    <2>2. phase[s] = "closed"
      BY <1>6 DEF Clients, Joins
    <2>3. buffer[s] = <<>>
      BY <2>2 DEF Sessional, Quiet
    <2>4. Len(buffer[s]) + 1 = 1
      BY <2>3
    <2> QED
      BY <1>1, <1>2, <1>3, <1>6, <2>1, <2>4, DroppedOnWay DEF Way
  <1> QED
    BY <1>4, <1>5, <1>6

LEMMA DeliverWay ==
  ASSUME TypeOK, NEW s \in Sessions, Deliver(s), NEW r \in Sessions
  PROVE  /\ r # s => Way(r)' = Way(r) /\ view'[r] = view[r]
         /\ r = s => /\ Without(Way(s), Way(s)', 1)
                     /\ Way(s)[1] = Head(buffer[s])
         /\ queue' = queue
  <1>1. /\ buffer[s] # <<>> /\ buffer' = [buffer EXCEPT ![s] = Tail(@)]
        /\ queue' = queue /\ (r # s => view'[r] = view[r])
    BY DEF Deliver, TypeOK
  <1>2. buffer[s] \in Seq(Event) /\ queue \in Seq(Event)
    BY DEF TypeOK
  <1>3. CASE r # s
    BY <1>1, <1>3 DEF Way, TypeOK
  <1>4. CASE r = s
    <2>1. Way(s)' = Tail(buffer[s]) \o queue
      BY <1>1, <1>4 DEF Way, TypeOK
    <2> QED
      BY <1>1, <1>2, <1>4, <2>1, DeliveredOnWay DEF Way
  <1> QED
    BY <1>3, <1>4

LEMMA GoneQueue ==
  ASSUME TypeOK, NEW s \in Sessions, Gone(s)
  PROVE  /\ queue' \in Seq(Event)
         /\ \/ queue' = queue /\ pushed' = pushed
            \/ /\ queue' = <<>>
               /\ \A c \in Channels : c \notin States => pushed'[c] = pushed[c]
  <1>1. \/ queue' = queue /\ pushed' = pushed
        \/ /\ queue' = <<>>
           /\ pushed' = [c \in Channels |->
                          IF c \in States THEN 0 ELSE pushed[c]]
    BY DEF Gone
  <1>2. CASE queue' = queue /\ pushed' = pushed
    BY <1>2 DEF TypeOK
  <1>3. CASE /\ queue' = <<>>
             /\ pushed' = [c \in Channels |->
                            IF c \in States THEN 0 ELSE pushed[c]]
    <2>1. queue' \in Seq(Event)
      BY <1>3
    <2> QED
      BY <1>3, <2>1
  <1> QED
    BY <1>1, <1>2, <1>3

(* A stream that ends leaves the others what they have; when it is the     *)
(* last one, nothing is on the way any more.                               *)
LEMMA GoneWay ==
  ASSUME TypeOK, Sessional, NEW s \in Sessions, Gone(s), NEW r \in Sessions
  PROVE  \/ /\ r # s /\ Way(r)' = Way(r) /\ queue' = queue /\ pushed' = pushed
            /\ phase'[r] = phase[r] /\ view'[r] = view[r]
            /\ missed'[r] = missed[r] /\ read'[r] = read[r]
            /\ since'[r] = since[r]
         \/ /\ phase'[r] = "closed" /\ read'[r] = {}
            /\ \A c \in Channels : view'[r][c] = <<>>
            /\ Way(r)' = queue'
  <1>1. /\ phase' = [phase EXCEPT ![s] = "closed"]
        /\ read' = [read EXCEPT ![s] = {}]
        /\ view' = [view EXCEPT ![s] = [c \in Channels |-> <<>>]]
        /\ buffer' = [buffer EXCEPT ![s] = <<>>]
        /\ since' = [since EXCEPT ![s] = [c \in Logs |-> 1]]
        /\ missed' = [missed EXCEPT ![s] = {}]
    BY DEF Gone
  <1>2. queue' \in Seq(Event)
    BY GoneQueue
  <1>3. CASE r = s
    <2>1. buffer'[r] = <<>>
      BY <1>1, <1>3 DEF TypeOK
    <2>2. Way(r)' = <<>> \o queue'
      BY <2>1 DEF Way
    <2>3. Way(r)' = queue'
      BY <1>2, <2>2
    <2> QED
      BY <1>1, <1>3, <2>3 DEF TypeOK
  <1>4. CASE r # s /\ Clients \subseteq {s}
    <2>1. phase[r] = "closed"
      BY <1>4 DEF Clients, Joins
    <2>2. buffer'[r] = <<>> /\ read'[r] = {} /\ phase'[r] = "closed"
          /\ \A c \in Channels : view'[r][c] = <<>>
      BY <1>1, <1>4, <2>1 DEF Sessional, Quiet, TypeOK
    <2>3. Way(r)' = <<>> \o queue'
      BY <2>2 DEF Way
    <2> QED
      BY <1>2, <2>2, <2>3
  <1>5. CASE r # s /\ ~(Clients \subseteq {s})
    <2>1. queue' = queue /\ pushed' = pushed
      BY <1>5 DEF Gone
    <2> QED
      BY <1>1, <1>5, <2>1 DEF Way, TypeOK
  <1> QED
    BY <1>3, <1>4, <1>5
-----------------------------------------------------------------------------
(* The states.                                                             *)
StatesCome ==
  /\ \A c \in States : EndsWith(c, queue, pushed[c])
  /\ \A s \in Sessions : \A c \in States : StateComes(s, c)

(* A step that leaves alone what StateComes speaks of, but for newer       *)
(* versions.                                                               *)
LEMMA SameStateComes ==
  ASSUME TypeOK, NEW s \in Sessions, NEW c \in States, StateComes(s, c),
         Way(s)' = Way(s), missed'[s] = missed[s], view'[s][c] = view[s][c],
         read'[s] = read[s], pushed'[c] = pushed[c],
         version'[c] \in Nat, version[c] <= version'[c]
  PROVE  StateComes(s, c)'
  <1>1. c \in Channels /\ pushed[c] \in Nat /\ version[c] \in Nat
    BY DEF States, TypeOK
  <1>2. \A v \in pushed[c]..version[c] : v \in pushed'[c]..version'[c]
    BY <1>1
  <1> QED
    BY <1>2 DEF StateComes

LEMMA GoneStates ==
  ASSUME TypeOK, Sessional, StatesCome, NEW s \in Sessions, Gone(s)
  PROVE  StatesCome'
  <1>1. ASSUME NEW c \in States PROVE EndsWith(c, queue, pushed[c])'
    <2>1. CASE queue' = queue /\ pushed' = pushed
      BY <2>1 DEF StatesCome
    <2>2. CASE queue' = <<>>
      BY <2>2 DEF EndsWith, On
    <2> QED
      BY <2>1, <2>2, GoneQueue
  <1>2. ASSUME NEW r \in Sessions, NEW c \in States PROVE StateComes(r, c)'
    <2>1. /\ c \in Channels /\ version' = version /\ version[c] \in Nat
      BY DEF States, TypeOK, Gone
    <2>2. CASE /\ r # s /\ Way(r)' = Way(r) /\ queue' = queue
               /\ pushed' = pushed /\ view'[r] = view[r]
               /\ missed'[r] = missed[r] /\ read'[r] = read[r]
      BY <2>1, <2>2, SameStateComes DEF StatesCome
    <2>3. CASE /\ phase'[r] = "closed" /\ read'[r] = {}
               /\ \A d \in Channels : view'[r][d] = <<>>
               /\ Way(r)' = queue'
      BY <1>1, <2>1, <2>3 DEF StateComes
    <2> QED
      BY <2>2, <2>3, GoneWay
  <1> QED
    BY <1>1, <1>2 DEF StatesCome

LEMMA PushStateStates ==
  ASSUME TypeOK, Sessional, StatesCome, NEW d \in Channels, PushState(d)
  PROVE  StatesCome'
  <1> DEFINE e == [channel |-> d, first |-> version[d], last |-> version[d]]
  <1>1. /\ queue' = Append(queue, e) /\ e.channel = d /\ e.last = version[d]
        /\ pushed' = [pushed EXCEPT ![d] = version[d]]
        /\ UNCHANGED <<version, sessionVars, buffer, missed>>
    BY DEF PushState
  <1>2. e \in Event /\ queue \in Seq(Event)
    BY DEF TypeOK, Event
  <1> HIDE DEF e
  <1>3. ASSUME NEW c \in States
        PROVE  /\ c \in Channels /\ pushed[c] \in Nat /\ pushed'[c] \in Nat
               /\ version[c] \in Nat /\ pushed'[c] <= version[c]
               /\ IF e.channel = c THEN e.last = pushed'[c]
                  ELSE pushed[c] = pushed'[c]
    BY <1>1 DEF States, TypeOK, Sessional
  <1>4. ASSUME NEW c \in States PROVE EndsWith(c, queue, pushed[c])'
    BY <1>1, <1>2, <1>3, AppendEnds DEF StatesCome
  <1>5. ASSUME NEW s \in Sessions, NEW c \in States PROVE StateComes(s, c)'
    <2>1. buffer[s] \in Seq(Event) /\ Way(s) \in Seq(Event)
      BY WayTyped DEF TypeOK
    <2>2. Way(s)' = Append(Way(s), e)
      BY <1>1, <1>2, <2>1, AppendOnWay DEF Way
    <2>3. c \notin missed[s] => EndsWith(c, Way(s)', pushed'[c])
      <3>1. SUFFICES ASSUME c \notin missed[s]
                     PROVE  EndsWith(c, Append(Way(s), e), pushed'[c])
        BY <2>2
      <3>2. EndsWith(c, Way(s), pushed[c])
        BY <3>1 DEF StatesCome, StateComes
      <3> QED
        BY <1>2, <1>3, <2>1, <3>2, AppendEnds
    <2>4. CASE c = d
      <3>1. On(c, Way(s)') # {}
        BY <1>1, <1>2, <1>3, <2>1, <2>2, <2>4, AppendKeeps
      <3> QED
        BY <1>1, <2>3, <3>1 DEF StateComes
    <2>5. CASE c # d
      <3>1. On(c, Way(s)') = On(c, Way(s)) /\ pushed'[c] = pushed[c]
        BY <1>1, <1>2, <1>3, <2>1, <2>2, <2>5, AppendKeeps
      <3>2. StateComes(s, c)
        BY DEF StatesCome
      <3>3. view' = view /\ read' = read /\ missed' = missed
            /\ version' = version
        BY <1>1 DEF sessionVars
      <3> QED
        BY <2>3, <3>1, <3>2, <3>3 DEF StateComes
    <2> QED
      BY <2>4, <2>5
  <1> QED
    BY <1>4, <1>5 DEF StatesCome

LEMMA PushLogStates ==
  ASSUME TypeOK, Sessional, StatesCome, NEW d \in Channels, PushLog(d)
  PROVE  StatesCome'
  <1> DEFINE first == IF d \notin greeted THEN 1 ELSE pushed[d] + 1
             e == [channel |-> d, first |-> first, last |-> version[d]]
  <1>1. /\ d \in Logs /\ first <= version[d] /\ e.channel = d
        /\ queue' = queue \/ queue' = Append(queue, e)
        /\ pushed' = [pushed EXCEPT ![d] = version[d]]
        /\ UNCHANGED <<version, sessionVars, buffer>>
        /\ UNCHANGED missed \/ \E S : Miss(S, d)
    BY DEF PushLog
  <1>2. e \in Event /\ queue \in Seq(Event)
    <2>1. version[d] \in 1..MaxVersion /\ pushed[d] \in Nat
          /\ queue \in Seq(Event)
      BY DEF TypeOK
    <2>2. first \in Nat /\ 1 <= first
      BY <2>1
    <2>3. first <= version[d]
      BY <1>1
    <2>4. first \in 1..MaxVersion
      BY <2>1, <2>2, <2>3
    <2> QED
      BY <2>1, <2>4 DEF Event
  <1> HIDE DEF e
  <1>3. ASSUME NEW c \in States
        PROVE  /\ c \in Channels /\ c # d /\ pushed[c] \in Nat
               /\ version[c] \in Nat /\ pushed'[c] = pushed[c]
    BY <1>1, StreamingKinds DEF States, TypeOK
  <1>4. ASSUME NEW c \in States PROVE EndsWith(c, queue, pushed[c])'
    <2>1. EndsWith(c, queue, pushed[c])
      BY DEF StatesCome
    <2>2. CASE queue' = queue
      BY <1>3, <2>1, <2>2
    <2>3. CASE queue' = Append(queue, e)
      BY <1>1, <1>2, <1>3, <2>1, <2>3, AppendEnds
    <2> QED
      BY <1>1, <2>2, <2>3
  <1>5. ASSUME NEW s \in Sessions, NEW c \in States PROVE StateComes(s, c)'
    <2>1. buffer[s] \in Seq(Event) /\ Way(s) \in Seq(Event)
      BY WayTyped DEF TypeOK
    <2>2. Way(s)' = Way(s) \/ Way(s)' = Append(Way(s), e)
      <3>1. Way(s)' = buffer[s] \o queue'
        BY <1>1 DEF Way
      <3>2. buffer[s] \o Append(queue, e) = Append(buffer[s] \o queue, e)
        BY <1>2, <2>1, AppendOnWay
      <3> QED
        BY <1>1, <3>1, <3>2 DEF Way
    <2>3. c \in missed'[s] <=> c \in missed[s]
      BY <1>1, <1>3 DEF Miss
    <2>4. StateComes(s, c)
      BY DEF StatesCome
    <2>5. On(c, Way(s)') = On(c, Way(s))
      <3>1. e.channel # c
        BY <1>1, <1>3
      <3>2. On(c, Append(Way(s), e)) = On(c, Way(s))
        BY <1>2, <1>3, <2>1, <3>1, AppendKeeps
      <3> QED
        BY <2>2, <3>2
    <2>6. c \notin missed[s] => EndsWith(c, Way(s)', pushed'[c])
      <3>1. CASE Way(s)' = Way(s)
        BY <1>3, <2>4, <3>1 DEF StateComes
      <3>2. CASE Way(s)' = Append(Way(s), e)
        BY <1>1, <1>2, <1>3, <2>1, <2>4, <3>2, AppendEnds DEF StateComes
      <3> QED
        BY <2>2, <3>1, <3>2
    <2>7. view' = view /\ read' = read /\ version' = version
      BY <1>1 DEF sessionVars
    <2> QED
      BY <1>3, <2>3, <2>4, <2>5, <2>6, <2>7 DEF StateComes
  <1> QED
    BY <1>4, <1>5 DEF StatesCome

LEMMA BroadcastStates ==
  ASSUME TypeOK, TypeOK', Sessional, StatesCome, Broadcast
  PROVE  StatesCome'
  <1>1. /\ queue # <<>> /\ queue' = Tail(queue) /\ queue \in Seq(Event)
        /\ UNCHANGED <<exchangeVars, sessionVars>>
    BY DEF Broadcast, TypeOK
  <1>2. queue' \in Seq(Event) /\ Without(queue, queue', 1)
    BY <1>1, TailOfQueue
  <1>3. ASSUME NEW c \in States
        PROVE  c \in Channels /\ pushed[c] \in Nat /\ pushed'[c] = pushed[c]
    BY <1>1 DEF States, TypeOK, exchangeVars
  <1>4. ASSUME NEW c \in States PROVE EndsWith(c, queue, pushed[c])'
    BY <1>1, <1>2, <1>3, WithoutEnds DEF StatesCome
  <1>5. ASSUME NEW s \in Sessions, NEW c \in States PROVE StateComes(s, c)'
    <2>1. /\ Way(s) \in Seq(Event) /\ buffer[s] \in Seq(Event)
          /\ StateComes(s, c)
          /\ version' = version /\ version[c] \in Nat
          /\ view' = view /\ read' = read /\ phase' = phase
      BY <1>1, <1>3, WayTyped, SMTT(30)
         DEF StatesCome, TypeOK, exchangeVars, sessionVars
    <2>2. CASE Way(s)' = Way(s) /\ missed'[s] = missed[s]
      BY <1>3, <2>1, <2>2, SameStateComes
    <2>3. CASE /\ missed'[s] = missed[s] \union {Head(queue).channel}
               /\ Without(Way(s), Way(s)', Len(buffer[s]) + 1)
               /\ Way(s)[Len(buffer[s]) + 1] = Head(queue)
      <3>1. SUFFICES ASSUME c \notin missed'[s] PROVE StateComes(s, c)'
        BY DEF StateComes
      <3>2. c \notin missed[s] /\ Head(queue).channel # c
        BY <2>3, <3>1
      <3>3. Way(s)' \in Seq(Event)
        BY NextWayTyped
      <3>4. EndsWith(c, Way(s)', pushed[c])
        BY <1>3, <2>1, <2>3, <3>2, <3>3, WithoutEnds DEF StateComes
      <3>5. On(c, Way(s)') = {} => On(c, Way(s)) = {}
        <4>1. Len(buffer[s]) + 1 \notin On(c, Way(s))
          BY <2>3, <3>2 DEF On
        <4> QED
          BY <1>3, <2>1, <2>3, <3>3, <4>1, WithoutKeeps
      <3> QED
        BY <1>3, <2>1, <3>2, <3>4, <3>5 DEF StateComes
    <2>4. CASE /\ s \notin Clients /\ missed'[s] = missed[s]
               /\ Without(Way(s), Way(s)', 1)
      <3>1. read[s] = {} /\ view[s][c] = <<>> /\ missed[s] = {}
        BY <1>3, <2>4 DEF Clients, Joins, Sessional, Quiet
      <3>2. Way(s)' \in Seq(Event)
        BY NextWayTyped
      <3>3. EndsWith(c, Way(s)', pushed[c])
        BY <1>3, <2>1, <2>4, <3>1, <3>2, WithoutEnds DEF StateComes
      <3> QED
        BY <1>3, <2>1, <2>4, <3>1, <3>3 DEF StateComes
    <2> QED
      BY <2>2, <2>3, <2>4, BroadcastWay
  <1> QED
    BY <1>4, <1>5 DEF StatesCome

LEMMA DeliverStates ==
  ASSUME TypeOK, TypeOK', Sessional, StatesCome,
         NEW r \in Sessions, Deliver(r)
  PROVE  StatesCome'
  <1> DEFINE e == Head(buffer[r])
  <1>1. /\ phase[r] = "streaming" /\ buffer[r] # <<>>
        /\ view' = [view EXCEPT ![r][e.channel] = Applied(@, e)]
        /\ UNCHANGED <<exchangeVars, queue, phase, read, missed>>
    BY DEF Deliver
  <1>2. ASSUME NEW c \in States
        PROVE  /\ c \in Channels /\ pushed[c] \in Nat /\ pushed'[c] = pushed[c]
               /\ version[c] \in Nat /\ version'[c] = version[c]
               /\ pushed[c] <= version[c]
    BY <1>1 DEF States, TypeOK, exchangeVars, Sessional
  <1>3. ASSUME NEW c \in States PROVE EndsWith(c, queue, pushed[c])'
    BY <1>1, <1>2 DEF StatesCome
  <1>4. ASSUME NEW s \in Sessions, NEW c \in States PROVE StateComes(s, c)'
    <2>1. StateComes(s, c) /\ Way(s) \in Seq(Event) /\ Way(s)' \in Seq(Event)
      BY WayTyped, NextWayTyped DEF StatesCome
    <2>2. CASE s # r
      <3>1. Way(s)' = Way(s) /\ view'[s] = view[s]
        BY <2>2, DeliverWay
      <3> QED
        BY <1>1, <1>2, <2>1, <3>1, SameStateComes
    <2>3. CASE s = r
      <3>1. Without(Way(s), Way(s)', 1) /\ Way(s)[1] = e
        BY <2>3, DeliverWay
      <3>2. SUFFICES ASSUME c \notin missed[s] PROVE StateComes(s, c)'
        BY <1>1 DEF StateComes
      <3>3. EndsWith(c, Way(s)', pushed[c])
        BY <1>2, <2>1, <3>1, <3>2, WithoutEnds DEF StateComes
      <3>4. CASE e.channel # c
        <4>1. 1 \notin On(c, Way(s))
          BY <3>1, <3>4 DEF On
        <4>2. On(c, Way(s)') = {} => On(c, Way(s)) = {}
          BY <1>2, <2>1, <3>1, <4>1, WithoutKeeps
        <4>3. view'[s][c] = view[s][c]
          BY <1>1, <2>3, <3>4 DEF TypeOK
        <4> QED
          BY <1>1, <1>2, <2>1, <3>2, <3>3, <4>2, <4>3 DEF StateComes
      <3>5. CASE e.channel = c
        <4>1. view'[s][c] = <<e.last>>
          <5>1. view'[s][c] = Applied(view[s][c], e)
            BY <1>1, <1>2, <2>3, <3>5 DEF TypeOK
          <5> QED
            BY <3>5, <5>1 DEF Applied
        <4>2. On(c, Way(s)') = {} => e.last = pushed[c]
          <5> HIDE DEF e
          <5>1. SUFFICES ASSUME On(c, Way(s)') = {} PROVE e.last = pushed[c]
            OBVIOUS
          <5>2. 1 \in On(c, Way(s))
            BY <3>1, <3>5 DEF On, Without
          <5>3. On(c, Way(s)) \ {1} = {}
            BY <1>2, <2>1, <3>1, <5>1, WithoutKeeps
          <5>4. \A j \in On(c, Way(s)) : j <= 1
            BY <5>3
          <5> QED
            BY <2>1, <3>1, <3>2, <5>2, <5>4 DEF StateComes, EndsWith
        <4>3. On(c, Way(s)') = {} =>
                \E v \in pushed'[c]..version'[c] : view'[s][c] = <<v>>
          BY <1>2, <4>1, <4>2
        <4> QED
          BY <1>2, <3>3, <4>3 DEF StateComes
      <3> QED
        BY <3>4, <3>5
    <2> QED
      BY <2>2, <2>3
  <1> QED
    BY <1>3, <1>4 DEF StatesCome

LEMMA ReadStates ==
  ASSUME TypeOK, TypeOK', Sessional, StatesCome,
         NEW r \in Sessions, NEW d \in Channels, Read(r, d)
  PROVE  StatesCome'
  <1>1. /\ read' = [read EXCEPT ![r] = @ \union {d}]
        /\ UNCHANGED <<exchangeVars, queue, phase, buffer, missed>>
    BY DEF Read
  <1>2. PICK part \in Outcomes(d) : view' = [view EXCEPT ![r][d] = part]
    BY DEF Read
  <1>3. ASSUME NEW c \in States
        PROVE  /\ c \in Channels /\ c \notin Logs
               /\ pushed[c] \in Nat /\ pushed'[c] = pushed[c]
               /\ version[c] \in Nat /\ version'[c] = version[c]
               /\ pushed[c] <= version[c]
    BY <1>1, StreamingKinds DEF States, TypeOK, exchangeVars, Sessional
  <1>4. ASSUME NEW c \in States PROVE EndsWith(c, queue, pushed[c])'
    BY <1>1, <1>3 DEF StatesCome
  <1>5. ASSUME NEW s \in Sessions, NEW c \in States PROVE StateComes(s, c)'
    <2>1. StateComes(s, c) /\ Way(s)' = Way(s)
      BY <1>1 DEF StatesCome, Way
    <2>2. CASE s # r \/ c # d
      <3>1. view'[s][c] = view[s][c] /\ (c \in read'[s] <=> c \in read[s])
        BY <1>1, <1>2, <1>3, <2>2 DEF TypeOK
      <3> QED
        BY <1>1, <1>3, <2>1, <3>1 DEF StateComes
    <2>3. CASE s = r /\ c = d
      <3>1. part = <<version[c]>>
        BY <1>2, <1>3, <2>3 DEF Outcomes, Reply
      <3>2. view'[s][c] = <<version[c]>>
        BY <1>2, <1>3, <2>3, <3>1 DEF TypeOK
      <3>3. \E v \in pushed'[c]..version'[c] : view'[s][c] = <<v>>
        BY <1>3, <3>2
      <3> QED
        BY <1>1, <1>3, <2>1, <3>3 DEF StateComes
    <2> QED
      BY <2>2, <2>3
  <1> QED
    BY <1>4, <1>5 DEF StatesCome

LEMMA StateStep ==
  TypeOK /\ TypeOK' /\ Sessional /\ StatesCome /\ [Next]_vars => StatesCome'
  <1> SUFFICES ASSUME TypeOK, TypeOK', Sessional, StatesCome, [Next]_vars
               PROVE  StatesCome'
    OBVIOUS
  <1>1. \A c \in States : c \in Channels /\ version[c] \in Nat
    BY DEF States, TypeOK
  <1>2. ASSUME UNCHANGED <<queue, view, buffer, missed, read, pushed>>,
               \A c \in Channels :
                 version'[c] \in Nat /\ version[c] <= version'[c]
        PROVE  StatesCome'
    <2>1. \A s \in Sessions : Way(s)' = Way(s)
      BY <1>2 DEF Way
    <2> QED
      BY <1>1, <1>2, <2>1, SameStateComes DEF StatesCome
  <1>3. CASE UNCHANGED vars
    BY <1>2, <1>3 DEF vars, exchangeVars, sessionVars, TypeOK
  <1>4. ASSUME NEW c \in Channels, Change(c) PROVE StatesCome'
    BY <1>2, <1>4 DEF Change, TypeOK, exchangeVars, sessionVars
  <1>5. CASE Connect \/ Disconnect
    BY <1>2, <1>5 DEF Connect, Disconnect, TypeOK, exchangeVars, sessionVars
  <1>6. ASSUME NEW s \in Sessions, Open(s) PROVE StatesCome'
    <2>1. /\ UNCHANGED <<exchangeVars, queue, read, view, buffer>>
          /\ missed' = [missed EXCEPT ![s] = {}] /\ phase[s] = "closed"
      BY <1>6 DEF Open
    <2>2. missed' = missed
      <3>1. missed[s] = {}
        BY <2>1 DEF Sessional, Quiet
      <3> QED
        BY <2>1, <3>1 DEF TypeOK
    <2> QED
      BY <1>2, <2>1, <2>2 DEF TypeOK, exchangeVars
  <1>7. ASSUME NEW s \in Sessions, SendSnapshot(s) PROVE StatesCome'
    BY <1>2, <1>7 DEF SendSnapshot, TypeOK, exchangeVars
  <1> QED
    BY <1>3, <1>4, <1>5, <1>6, <1>7, PushStateStates, PushLogStates,
       BroadcastStates, DeliverStates, ReadStates, GoneStates
       DEF Next, Leave, ReadFails
-----------------------------------------------------------------------------
(* The fills.                                                              *)
FillsCome ==
  /\ \A c \in Fills : Sent(c, queue, pushed[c])
  /\ \A s \in Sessions : \A c \in Fills : LogComes(s, c)

LEMMA FillsKinds ==
  ASSUME NEW c \in Fills
  PROVE  /\ c \in Channels /\ c \in Logs /\ c \notin States
         /\ c \notin InSnapshot
         /\ ~Forwards(c, TRUE) /\ Forwards(c, FALSE)
  <1>1. c \in Channels /\ c \in Logs /\ c \notin States
    BY DEF Fills, Logs, States, StateChannels, LogChannels
  <1>2. c \notin InSnapshot
    BY DEF Fills, InSnapshot, Parts
  <1>3. ~Forwards(c, TRUE) /\ Forwards(c, FALSE)
    BY DEF Fills, Forwards, Parses, AsMap, DataOf
  <1> QED
    BY <1>1, <1>2, <1>3

LEMMA FillsTyped ==
  ASSUME TypeOK, NEW s \in Sessions, NEW c \in Fills
  PROVE  /\ pushed[c] \in Nat /\ version[c] \in 1..MaxVersion
         /\ since[s][c] \in Nat /\ view[s][c] \in Seq(Nat)
         /\ \A i \in On(c, Way(s)) :
              /\ i \in Nat /\ Way(s)[i] \in Event
              /\ Way(s)[i].first \in Nat /\ Way(s)[i].last \in Nat
  <1>1. c \in Channels /\ c \in Logs
    BY FillsKinds
  <1>2. pushed[c] \in Nat /\ version[c] \in 1..MaxVersion
        /\ since[s][c] \in Nat /\ view[s][c] \in Seq(1..MaxVersion)
    BY <1>1 DEF TypeOK
  <1>3. view[s][c] \in Seq(Nat)
    BY <1>2
  <1>4. Way(s) \in Seq(Event)
    BY WayTyped
  <1>5. \A i \in On(c, Way(s)) : i \in Nat /\ Way(s)[i] \in Event
    BY <1>4 DEF On
  <1> QED
    BY <1>2, <1>3, <1>5 DEF Event

LEMMA SameLogComes ==
  ASSUME NEW s \in Sessions, NEW c \in Fills, LogComes(s, c),
         Way(s)' = Way(s), c \in missed[s] => c \in missed'[s],
         view'[s][c] = view[s][c], since'[s][c] = since[s][c],
         pushed'[c] = pushed[c], phase[s] = "closed" => phase'[s] = "closed"
  PROVE  LogComes(s, c)'
  <1>1. ComesInOrder(s, c)'
    BY DEF LogComes, ComesInOrder
  <1>2. NoGap(s, c)'
    BY DEF LogComes, NoGap, Shown, Coming
  <1> QED
    BY <1>1, <1>2 DEF LogComes

(* One more event on the way of another channel.                           *)
LEMMA OtherLogComes ==
  ASSUME TypeOK, NEW s \in Sessions, NEW c \in Fills, LogComes(s, c),
         NEW e \in Event, e.channel # c, Way(s)' = Append(Way(s), e),
         c \in missed[s] => c \in missed'[s],
         view'[s][c] = view[s][c], since'[s][c] = since[s][c],
         pushed'[c] = pushed[c], phase'[s] = phase[s]
  PROVE  LogComes(s, c)'
  <1>1. c \in Channels /\ Way(s) \in Seq(Event)
    BY FillsKinds, WayTyped
  <1>2. /\ On(c, Way(s)') = On(c, Way(s))
        /\ \A i \in On(c, Way(s)) : Way(s)'[i] = Way(s)[i]
    BY <1>1, AppendKeeps
  <1>3. Sent(c, Way(s)', pushed'[c])
    BY <1>2 DEF LogComes, Sent, InOrder
  <1>4. ComesInOrder(s, c)'
    BY <1>2 DEF LogComes, ComesInOrder, InOrder
  <1>5. NoGap(s, c)'
    BY <1>2 DEF LogComes, NoGap, Shown, Coming
  <1> QED
    BY <1>3, <1>4, <1>5 DEF LogComes

(* One less, of another channel or one that the stream missed.             *)
LEMMA LessLogComes ==
  ASSUME TypeOK, TypeOK', NEW s \in Sessions, NEW c \in Fills, LogComes(s, c),
         NEW k, Without(Way(s), Way(s)', k),
         \/ Way(s)[k].channel # c \/ c \in missed'[s] \/ phase'[s] = "closed",
         c \in missed[s] => c \in missed'[s],
         view'[s][c] = view[s][c], since'[s][c] = since[s][c],
         pushed'[c] = pushed[c], phase'[s] = phase[s]
  PROVE  LogComes(s, c)'
  <1>1. /\ c \in Channels /\ Way(s) \in Seq(Event) /\ Way(s)' \in Seq(Event)
        /\ pushed[c] \in Nat
    BY FillsKinds, FillsTyped, WayTyped, NextWayTyped
  <1> DEFINE was(i) == IF i < k THEN i ELSE i + 1
             is(o) == IF o < k THEN o ELSE o - 1
  <1>2. /\ \A i \in On(c, Way(s)') :
             was(i) \in On(c, Way(s)) /\ Way(s)'[i] = Way(s)[was(i)]
        /\ \A o \in On(c, Way(s)) \ {k} :
             is(o) \in On(c, Way(s)') /\ Way(s)'[is(o)] = Way(s)[o]
    BY <1>1, WithoutKeeps
  <1> HIDE DEF was, is
  <1>3. Sent(c, Way(s)', pushed'[c])
    BY <1>1, WithoutSent DEF LogComes
  <1>4. ComesInOrder(s, c)'
    BY <1>2, <1>3 DEF LogComes, ComesInOrder, Sent
  <1>5. NoGap(s, c)'
    <2>1. SUFFICES ASSUME phase'[s] # "closed", c \notin missed'[s],
                          NEW n \in (since[s][c] + 1)..pushed[c]
                   PROVE  (Shown(s, c, n) \/ Coming(s, c, n))'
      BY DEF NoGap
    <2>2. Shown(s, c, n) \/ Coming(s, c, n)
      BY <2>1 DEF LogComes, NoGap
    <2>3. Way(s)[k].channel # c
      BY <2>1
    <2>4. k \notin On(c, Way(s))
      BY <2>3 DEF On
    <2>5. Coming(s, c, n) => Coming(s, c, n)'
      BY <1>2, <2>4 DEF Coming
    <2>6. Shown(s, c, n) => Shown(s, c, n)'
      BY DEF Shown
    <2> QED
      BY <2>2, <2>5, <2>6
  <1> QED
    BY <1>3, <1>4, <1>5 DEF LogComes

(* A closed stream has only the queue before it.                           *)
LEMMA ClosedLogComes ==
  ASSUME NEW s \in Sessions, NEW c \in Fills, phase'[s] = "closed",
         view'[s][c] = <<>>, Sent(c, Way(s), pushed[c])'
  PROVE  LogComes(s, c)'
  <1>1. DOMAIN (view'[s][c]) = {}
    OBVIOUS
  <1> QED
    BY <1>1 DEF LogComes, ComesInOrder, Increases, Sent, NoGap

LEMMA GoneFills ==
  ASSUME TypeOK, Sessional, FillsCome, NEW s \in Sessions, Gone(s)
  PROVE  FillsCome'
  <1>1. ASSUME NEW c \in Fills PROVE Sent(c, queue, pushed[c])'
    <2>1. Sent(c, queue, pushed[c]) /\ c \in Channels /\ c \notin States
      BY FillsKinds DEF FillsCome
    <2>2. CASE queue' = queue /\ pushed' = pushed
      BY <2>1, <2>2
    <2>3. CASE queue' = <<>>
      <3>1. On(c, queue') = {}
        BY <2>3 DEF On
      <3> QED
        BY <3>1 DEF Sent, InOrder
    <2> QED
      BY <2>2, <2>3, GoneQueue
  <1>2. ASSUME NEW r \in Sessions, NEW c \in Fills PROVE LogComes(r, c)'
    <2>1. LogComes(r, c) /\ c \in Channels
      BY FillsKinds DEF FillsCome
    <2>2. CASE /\ Way(r)' = Way(r) /\ pushed' = pushed
               /\ phase'[r] = phase[r] /\ view'[r] = view[r]
               /\ missed'[r] = missed[r] /\ since'[r] = since[r]
      BY <2>1, <2>2, SameLogComes
    <2>3. CASE /\ phase'[r] = "closed"
               /\ \A d \in Channels : view'[r][d] = <<>>
               /\ Way(r)' = queue'
      BY <1>1, <2>1, <2>3, ClosedLogComes
    <2> QED
      BY <2>2, <2>3, GoneWay
  <1> QED
    BY <1>1, <1>2 DEF FillsCome

LEMMA PushStateFills ==
  ASSUME TypeOK, Sessional, FillsCome, NEW d \in Channels, PushState(d)
  PROVE  FillsCome'
  <1> DEFINE e == [channel |-> d, first |-> version[d], last |-> version[d]]
  <1>1. /\ queue' = Append(queue, e) /\ e.channel = d /\ d \in States
        /\ pushed' = [pushed EXCEPT ![d] = version[d]]
        /\ UNCHANGED <<version, sessionVars, buffer, missed>>
    BY DEF PushState
  <1>2. e \in Event /\ queue \in Seq(Event)
    BY DEF TypeOK, Event
  <1> HIDE DEF e
  <1>3. ASSUME NEW c \in Fills
        PROVE  /\ c \in Channels /\ c # d
               /\ pushed[c] \in Nat /\ pushed'[c] = pushed[c]
    <2>1. c \in Channels /\ c \notin States
      BY FillsKinds
    <2>2. c # d
      BY <1>1, <2>1
    <2> QED
      BY <1>1, <2>1, <2>2 DEF TypeOK
  <1>4. ASSUME NEW c \in Fills PROVE Sent(c, queue, pushed[c])'
    <2>1. Sent(c, queue, pushed[c]) /\ e.channel # c /\ c \in Channels
          /\ pushed[c] \in Nat
      BY <1>1, <1>3 DEF FillsCome
    <2>2. Sent(c, Append(queue, e), pushed[c])
      BY <1>2, <2>1, AppendSent
    <2> QED
      BY <1>1, <1>3, <2>2
  <1>5. ASSUME NEW s \in Sessions, NEW c \in Fills PROVE LogComes(s, c)'
    <2>1. buffer[s] \in Seq(Event) /\ LogComes(s, c)
      BY DEF TypeOK, FillsCome
    <2>2. Way(s)' = Append(Way(s), e)
      BY <1>1, <1>2, <2>1, AppendOnWay DEF Way
    <2>3. view' = view /\ since' = since /\ phase' = phase /\ missed' = missed
      BY <1>1 DEF sessionVars
    <2> QED
      BY <1>1, <1>2, <1>3, <2>1, <2>2, <2>3, OtherLogComes
  <1> QED
    BY <1>4, <1>5 DEF FillsCome

LEMMA SentFills ==
  ASSUME TypeOK, Sessional, FillsCome, NEW c \in Fills, PushLog(c)
  PROVE  Sent(c, queue, pushed[c])'
  <1> DEFINE e == [channel |-> c, first |-> pushed[c] + 1, last |-> version[c]]
  <1>1. /\ c \in Channels /\ c \in Logs
        /\ ~Forwards(c, TRUE) /\ Forwards(c, FALSE)
    BY FillsKinds
  <1>2. /\ queue \in Seq(Event) /\ pushed[c] \in Nat
        /\ version[c] \in 1..MaxVersion /\ pushed[c] <= version[c]
        /\ pushed'[c] = version[c] /\ Sent(c, queue, pushed[c])
    BY <1>1 DEF PushLog, TypeOK, Sessional, FillsCome
  <1>3. CASE queue' = queue
    <2>1. \A i \in On(c, queue) : queue[i] \in Event
      BY <1>2 DEF On
    <2>2. \A i \in On(c, queue) : queue[i].last \in Nat
      BY <2>1 DEF Event
    <2> QED
      BY <1>2, <1>3, <2>2 DEF Sent
  <1>4. CASE queue' # queue
    <2>1. c \in greeted
      BY <1>1, <1>4 DEF PushLog
    <2>2. queue' = Append(queue, e) /\ pushed[c] + 1 <= version[c]
      BY <1>4, <2>1 DEF PushLog
    <2>3. /\ e \in Event /\ e.channel = c /\ pushed[c] < e.first
          /\ e.first <= e.last /\ e.last = version[c]
      BY <1>1, <1>2, <2>2 DEF Event
    <2> HIDE DEF e
    <2>4. Sent(c, Append(queue, e), version[c])
      BY <1>1, <1>2, <2>3, AppendSent
    <2> QED
      BY <1>2, <2>2, <2>4
  <1> QED
    BY <1>3, <1>4

(* The exchange sends fills; those that are new are put on the way.        *)
LEMMA NewFills ==
  ASSUME TypeOK, TypeOK', Sessional, FillsCome, NEW c \in Fills, PushLog(c),
         NEW s \in Sessions
  PROVE  LogComes(s, c)'
  <1> DEFINE first == pushed[c] + 1
             e == [channel |-> c, first |-> first, last |-> version[c]]
  <1>1. /\ c \in Channels /\ c \in Logs
        /\ ~Forwards(c, TRUE) /\ Forwards(c, FALSE)
    BY FillsKinds
  <1>2. /\ pushed' = [pushed EXCEPT ![c] = version[c]]
        /\ UNCHANGED <<version, sessionVars, buffer>>
    BY DEF PushLog
  <1>3. /\ queue \in Seq(Event) /\ buffer[s] \in Seq(Event)
        /\ Way(s) \in Seq(Event)
        /\ pushed[c] \in Nat /\ version[c] \in 1..MaxVersion
        /\ since[s][c] \in Nat /\ view[s][c] \in Seq(Nat)
        /\ pushed[c] <= version[c]
    BY <1>1, FillsTyped, WayTyped DEF TypeOK, Sessional
  <1>4. Sent(c, queue, pushed[c]) /\ LogComes(s, c)
    BY DEF FillsCome
  <1>5. /\ pushed'[c] = version[c] /\ view' = view /\ since' = since
        /\ phase' = phase
    BY <1>1, <1>2 DEF TypeOK, sessionVars
  <1>6. \A k \in DOMAIN view[s][c] : view[s][c][k] \in Nat
    BY <1>3, SMTT(30)
  <1>7. CASE queue' = queue
    <2>1. Way(s)' = Way(s)
      BY <1>2, <1>7 DEF Way
    <2>2. Sent(c, Way(s)', version[c])
      <3>2. \A i \in On(c, Way(s)) : Way(s)[i].last \in Nat
        BY FillsTyped
      <3> QED
        BY <1>3, <1>4, <1>7, <2>1, <3>2 DEF Sent, LogComes
    <2>3. ComesInOrder(s, c)'
      BY <1>4, <1>5, <2>1 DEF LogComes, ComesInOrder
    <2>4. \A k \in DOMAIN view[s][c] : view[s][c][k] <= version[c]
      BY <1>3, <1>4, <1>6 DEF LogComes
    <2>5. NoGap(s, c)'
      <3>1. SUFFICES ASSUME phase[s] # "closed", c \notin missed'[s],
                            NEW n \in (since[s][c] + 1)..version[c]
                     PROVE  (Shown(s, c, n) \/ Coming(s, c, n))'
        BY <1>5 DEF NoGap
      <3>2. s \in Clients /\ since[s][c] < version[c]
        BY <1>3, <3>1 DEF Clients, Joins
      <3>3. /\ missed' = missed
            /\ c \in greeted \/ ~(pushed[c] < version[c])
        <4>1. ~Miss({r \in Clients : since[r][c] < version[c]}, c)
          BY <3>1, <3>2 DEF Miss
        <4>2. /\ ~((Forwards(c, c \notin greeted) /\ ~QueueHasRoom)
                   \/ (c \notin greeted /\ pushed[c] < version[c]))
              /\ UNCHANGED missed
          BY <4>1 DEF PushLog
        <4> QED
          BY <4>2
      <3>4. pushed[c] = version[c]
        <4>1. CASE c \in greeted
          <5>1. Forwards(c, c \notin greeted)
            BY <1>1, <4>1
          <5>2. QueueHasRoom
            <6>1. ~Miss({r \in Clients : since[r][c] < version[c]}, c)
              BY <3>1, <3>2 DEF Miss
            <6> QED
              BY <5>1, <6>1 DEF PushLog
          <5>3. queue' = Append(queue, e)
            BY <4>1, <5>1, <5>2 DEF PushLog
          <5>4. e \in Event
            <6>1. pushed[c] + 1 <= version[c]
              BY <4>1 DEF PushLog
            <6> QED
              BY <1>1, <1>3, <6>1, SMTT(30) DEF Event
          <5> HIDE DEF e
          <5>5. Len(Append(queue, e)) = Len(queue) + 1 /\ Len(queue) \in Nat
            BY <1>3, <5>4
          <5> QED
            BY <1>7, <5>3, <5>5
        <4>2. CASE c \notin greeted
          BY <1>3, <3>3, <4>2
        <4> QED
          BY <4>1, <4>2
      <3>5. Shown(s, c, n) \/ Coming(s, c, n)
        BY <1>4, <3>1, <3>3, <3>4 DEF LogComes, NoGap
      <3> QED
        BY <1>5, <2>1, <3>5 DEF Shown, Coming
    <2> QED
      BY <1>5, <2>2, <2>3, <2>4, <2>5 DEF LogComes
  <1>8. CASE queue' # queue
    <2>1. /\ c \in greeted /\ pushed[c] + 1 <= version[c]
          /\ queue' = Append(queue, e) /\ missed' = missed
      <3>1. Forwards(c, c \notin greeted) /\ QueueHasRoom
        BY <1>8 DEF PushLog
      <3>2. c \in greeted
        BY <1>1, <3>1
      <3> QED
        BY <3>1, <3>2 DEF PushLog
    <2>2. /\ e \in Event /\ e.channel = c /\ pushed[c] < e.first
          /\ e.first <= e.last /\ e.last = version[c]
          /\ e.first = pushed[c] + 1
      BY <1>1, <1>3, <2>1 DEF Event
    <2> HIDE DEF e
    <2>3. Way(s)' = Append(Way(s), e)
      <3>1. Way(s)' = buffer[s] \o Append(queue, e)
        BY <1>2, <2>1 DEF Way
      <3> QED
        BY <1>3, <2>2, <3>1, AppendOnWay DEF Way
    <2>5. Sent(c, Append(Way(s), e), version[c])
      <3>1. Sent(c, Way(s), pushed[c])
        BY <1>4 DEF LogComes
      <3> QED
        BY <1>1, <1>3, <2>2, <3>1, AppendSent
    <2>6. /\ On(c, Way(s)') = On(c, Way(s)) \union {Len(Way(s)) + 1}
          /\ \A i \in On(c, Way(s)) : Way(s)'[i] = Way(s)[i]
          /\ Way(s)'[Len(Way(s)) + 1] = e
      BY <1>1, <1>3, <2>2, <2>3, AppendKeeps
    <2>7. \A k \in DOMAIN view[s][c] :
            view[s][c][k] < e.first /\ view[s][c][k] <= version[c]
      BY <1>3, <1>4, <1>6, <2>2, SMTT(30) DEF LogComes
    <2>8. ComesInOrder(s, c)'
      <3>1. Increases(view[s][c])'
        BY <1>4, <1>5 DEF LogComes, ComesInOrder
      <3>2. InOrder(c, Way(s))'
        BY <2>3, <2>5 DEF Sent
      <3>3. \A i \in On(c, Way(s)') :
              /\ Way(s)'[i].first <= Way(s)'[i].last
              /\ \A k \in DOMAIN view[s][c] : view[s][c][k] < Way(s)'[i].first
        BY <1>4, <2>2, <2>6, <2>7 DEF LogComes, ComesInOrder
      <3> QED
        BY <1>5, <3>1, <3>2, <3>3 DEF ComesInOrder
    <2>9. NoGap(s, c)'
      <3>1. SUFFICES ASSUME phase[s] # "closed", c \notin missed[s],
                            NEW n \in (since[s][c] + 1)..version[c]
                     PROVE  (Shown(s, c, n) \/ Coming(s, c, n))'
        BY <1>5, <2>1 DEF NoGap
      <3>2. CASE n <= pushed[c]
        <4>1. Shown(s, c, n) \/ Coming(s, c, n)
          BY <1>3, <1>4, <3>1, <3>2 DEF LogComes, NoGap
        <4> QED
          BY <1>5, <2>6, <4>1 DEF Shown, Coming
      <3>3. CASE ~(n <= pushed[c])
        <4>1. n \in e.first..e.last
          BY <1>3, <2>2, <3>1, <3>3
        <4> QED
          BY <2>6, <4>1 DEF Coming
      <3> QED
        BY <3>2, <3>3
    <2> QED
      BY <1>5, <2>3, <2>5, <2>7, <2>8, <2>9 DEF LogComes
  <1> QED
    BY <1>7, <1>8

LEMMA PushLogFills ==
  ASSUME TypeOK, TypeOK', Sessional, FillsCome,
         NEW d \in Channels, PushLog(d)
  PROVE  FillsCome'
  <1> DEFINE first == IF d \notin greeted THEN 1 ELSE pushed[d] + 1
             e == [channel |-> d, first |-> first, last |-> version[d]]
  <1>1. /\ d \in Logs /\ first <= version[d] /\ e.channel = d
        /\ queue' = queue \/ queue' = Append(queue, e)
        /\ pushed' = [pushed EXCEPT ![d] = version[d]]
        /\ UNCHANGED <<version, sessionVars, buffer>>
        /\ UNCHANGED missed \/ \E S : Miss(S, d)
    BY DEF PushLog
  <1>2. e \in Event /\ queue \in Seq(Event)
    <2>1. version[d] \in 1..MaxVersion /\ pushed[d] \in Nat
          /\ queue \in Seq(Event)
      BY DEF TypeOK
    <2>2. first \in Nat /\ 1 <= first
      BY <2>1
    <2>3. first <= version[d]
      BY <1>1
    <2>4. first \in 1..MaxVersion
      BY <2>1, <2>2, <2>3
    <2> QED
      BY <2>1, <2>4 DEF Event
  <1> HIDE DEF e
  <1>3. ASSUME NEW c \in Fills, NEW s \in Sessions, c # d
        PROVE  LogComes(s, c)'
    <2>1. c \in Channels /\ LogComes(s, c) /\ buffer[s] \in Seq(Event)
          /\ Way(s) \in Seq(Event)
      BY FillsKinds, WayTyped DEF TypeOK, FillsCome
    <2>2. /\ pushed'[c] = pushed[c] /\ view' = view /\ since' = since
          /\ phase' = phase /\ e.channel # c
      BY <1>1, <1>3, <2>1 DEF TypeOK, sessionVars
    <2>3. c \in missed[s] => c \in missed'[s]
      BY <1>1 DEF Miss
    <2>4. Way(s)' = Way(s) \/ Way(s)' = Append(Way(s), e)
      <3>1. Way(s)' = buffer[s] \o queue'
        BY <1>1 DEF Way
      <3>2. buffer[s] \o Append(queue, e) = Append(buffer[s] \o queue, e)
        BY <1>2, <2>1, AppendOnWay
      <3> QED
        BY <1>1, <3>1, <3>2 DEF Way
    <2>5. CASE Way(s)' = Way(s)
      BY <2>1, <2>2, <2>3, <2>5, SameLogComes
    <2>6. CASE Way(s)' = Append(Way(s), e)
      BY <1>2, <2>1, <2>2, <2>3, <2>6, OtherLogComes
    <2> QED
      BY <2>4, <2>5, <2>6
  <1>4. ASSUME NEW c \in Fills, c # d PROVE Sent(c, queue, pushed[c])'
    <2>1. Sent(c, queue, pushed[c]) /\ e.channel # c /\ c \in Channels
          /\ pushed[c] \in Nat /\ pushed'[c] = pushed[c]
      <3>1. c \in Channels
        BY FillsKinds
      <3> QED
        BY <1>1, <1>4, <3>1 DEF FillsCome, TypeOK
    <2>2. Sent(c, Append(queue, e), pushed[c])
      BY <1>2, <2>1, AppendSent
    <2> QED
      BY <1>1, <2>1, <2>2
  <1>5. ASSUME NEW s \in Sessions, d \in Fills
        PROVE  LogComes(s, d)'
    BY <1>5, NewFills
  <1>6. ASSUME d \in Fills PROVE Sent(d, queue, pushed[d])'
    BY <1>6, SentFills
  <1> QED
    BY <1>3, <1>4, <1>5, <1>6 DEF FillsCome

LEMMA BroadcastFills ==
  ASSUME TypeOK, TypeOK', Sessional, FillsCome, Broadcast
  PROVE  FillsCome'
  <1>1. /\ queue # <<>> /\ queue' = Tail(queue) /\ queue \in Seq(Event)
        /\ UNCHANGED <<exchangeVars, sessionVars>>
    BY DEF Broadcast, TypeOK
  <1>2. queue' \in Seq(Event) /\ Without(queue, queue', 1)
    BY <1>1, TailOfQueue
  <1>3. ASSUME NEW c \in Fills
        PROVE  c \in Channels /\ pushed[c] \in Nat /\ pushed'[c] = pushed[c]
    <2>1. c \in Channels
      BY FillsKinds
    <2> QED
      BY <1>1, <2>1 DEF TypeOK, exchangeVars
  <1>4. ASSUME NEW c \in Fills PROVE Sent(c, queue, pushed[c])'
    BY <1>1, <1>2, <1>3, WithoutSent DEF FillsCome
  <1>5. ASSUME NEW s \in Sessions, NEW c \in Fills PROVE LogComes(s, c)'
    <2>1. /\ LogComes(s, c) /\ view' = view /\ since' = since
          /\ phase' = phase
      BY <1>1 DEF FillsCome, sessionVars
    <2>2. CASE Way(s)' = Way(s) /\ missed'[s] = missed[s]
      BY <1>3, <2>1, <2>2, SameLogComes
    <2>3. CASE /\ missed'[s] = missed[s] \union {Head(queue).channel}
               /\ Without(Way(s), Way(s)', Len(buffer[s]) + 1)
               /\ Way(s)[Len(buffer[s]) + 1] = Head(queue)
      BY <1>3, <2>1, <2>3, LessLogComes
    <2>4. CASE /\ s \notin Clients /\ missed'[s] = missed[s]
               /\ Without(Way(s), Way(s)', 1)
      <3>1. phase'[s] = "closed"
        BY <2>1, <2>4 DEF Clients, Joins
      <3> QED
        BY <1>3, <2>1, <2>4, <3>1, LessLogComes
    <2> QED
      BY <2>2, <2>3, <2>4, BroadcastWay
  <1> QED
    BY <1>4, <1>5 DEF FillsCome

(* An event that is shown adds its items at the end of the log.            *)
LEMMA ShowsMore ==
  ASSUME NEW shown \in Seq(Nat), NEW e \in Event, e.channel \notin States,
         e.first <= e.last, Increases(shown),
         \A k \in DOMAIN shown : shown[k] < e.first
  PROVE  LET after == Applied(shown, e) IN
         /\ Increases(after)
         /\ \A k \in DOMAIN after : after[k] \in Nat /\ after[k] <= e.last
         /\ \A k \in DOMAIN shown : k \in DOMAIN after /\ after[k] = shown[k]
         /\ \A n \in e.first..e.last : \E k \in DOMAIN after : after[k] = n
  <1> DEFINE from == e.first
             to == e.last
             len == Len(shown)
             m == to + 1 - from
             after == Applied(shown, e)
  <1>1. from \in Nat /\ to \in Nat /\ from <= to /\ m \in Nat
        /\ m = to + 1 - from
    BY DEF Event
  <1>2. /\ Items(e) \in Seq(Nat) /\ Len(Items(e)) = m
        /\ \A i \in 1..m : Items(e)[i] = from - 1 + i
    <2>1. \A i \in 1..m : from - 1 + i \in Nat
      BY <1>1
    <2> QED
      BY <1>1, <2>1 DEF Items
  <1>3. after = shown \o Items(e)
    BY DEF Applied
  <1>4. \A k \in DOMAIN shown : shown[k] \in Nat /\ shown[k] < from
    OBVIOUS
  <1> HIDE DEF from, to, m, after
  <1>5. /\ len \in Nat /\ DOMAIN shown = 1..len
        /\ after \in Seq(Nat) /\ Len(after) = len + m
        /\ \A k \in 1..(len + m) :
             after[k] = IF k <= len THEN shown[k] ELSE Items(e)[k - len]
    <2>1. /\ shown \o Items(e) \in Seq(Nat)
          /\ Len(shown \o Items(e)) = Len(shown) + Len(Items(e))
          /\ \A k \in 1..(Len(shown) + Len(Items(e))) :
               (shown \o Items(e))[k] =
                 IF k <= Len(shown) THEN shown[k] ELSE Items(e)[k - Len(shown)]
      BY <1>2, ConcatProperties
    <2>2. Len(shown) \in Nat /\ DOMAIN shown = 1..Len(shown)
      OBVIOUS
    <2> QED
      BY <1>2, <1>3, <2>1, <2>2
  <1> HIDE DEF len
  <1>6. /\ DOMAIN after = 1..(len + m)
        /\ \A k \in 1..len : k \in 1..(len + m) /\ after[k] = shown[k]
    BY <1>1, <1>5
  <1>7. \A k \in 1..(len + m) :
          ~(k <= len) => k - len \in 1..m /\ after[k] = from - 1 + (k - len)
    <2>1. SUFFICES ASSUME NEW k \in 1..(len + m), ~(k <= len)
                   PROVE  k - len \in 1..m /\ after[k] = from - 1 + (k - len)
      OBVIOUS
    <2>2. k - len \in 1..m
      BY <1>1, <1>5, <2>1
    <2> QED
      BY <1>2, <1>5, <2>1, <2>2
  <1>8. Increases(after)
    <2>1. SUFFICES ASSUME NEW i \in 1..(len + m), NEW j \in 1..(len + m), i < j
                   PROVE  after[i] < after[j]
      BY <1>6 DEF Increases
    <2>2. i \in Nat /\ j \in Nat /\ len \in Nat /\ from \in Nat
      BY <1>1, <1>5
    <2>3. CASE j <= len
      <3>1. i \in 1..len /\ j \in 1..len
        BY <2>1, <2>2, <2>3
      <3> QED
        BY <1>5, <1>6, <2>1, <3>1 DEF Increases
    <2>4. CASE ~(j <= len) /\ i <= len
      <3>1. i \in 1..len
        BY <2>2, <2>4
      <3>2. after[i] \in Nat /\ after[i] < from
        BY <1>4, <1>5, <1>6, <3>1
      <3>3. j - len \in Nat /\ 1 <= j - len /\ after[j] = from - 1 + (j - len)
        BY <1>7, <2>2, <2>4
      <3> QED
        BY <2>2, <3>2, <3>3
    <2>5. CASE ~(i <= len)
      <3>1. ~(j <= len)
        BY <2>1, <2>2, <2>5
      <3>2. /\ after[i] = from - 1 + (i - len)
            /\ after[j] = from - 1 + (j - len)
        BY <1>7, <2>5, <3>1
      <3> QED
        BY <2>1, <2>2, <3>2
    <2> QED
      BY <2>3, <2>4, <2>5
  <1>9. \A k \in 1..(len + m) : after[k] \in Nat /\ after[k] <= to
    <2>1. SUFFICES ASSUME NEW k \in 1..(len + m)
                   PROVE  after[k] \in Nat /\ after[k] <= to
      OBVIOUS
    <2>2. CASE k <= len
      <3>1. k \in 1..len
        BY <1>5, <2>2
      <3>2. after[k] \in Nat /\ after[k] < from
        BY <1>4, <1>5, <1>6, <3>1
      <3> QED
        BY <1>1, <3>2
    <2>3. CASE ~(k <= len)
      <3>1. k - len \in 1..m /\ after[k] = from - 1 + (k - len)
        BY <1>7, <2>3
      <3> QED
        BY <1>1, <3>1
    <2> QED
      BY <2>2, <2>3
  <1>10. \A n \in from..to : \E k \in 1..(len + m) : after[k] = n
    <2>1. SUFFICES ASSUME NEW n \in from..to
                   PROVE  \E k \in 1..(len + m) : after[k] = n
      OBVIOUS
    <2> DEFINE k == len + (n + 1 - from)
    <2>2. k \in 1..(len + m) /\ ~(k <= len) /\ from - 1 + (k - len) = n
      BY <1>1, <1>5
    <2> HIDE DEF k
    <2>3. after[k] = n
      BY <1>7, <2>2
    <2> QED
      BY <2>2, <2>3
  <1> QED
    BY <1>5, <1>6, <1>8, <1>9, <1>10 DEF after, from, to

LEMMA DeliverFills ==
  ASSUME TypeOK, TypeOK', Sessional, FillsCome, NEW r \in Sessions, Deliver(r)
  PROVE  FillsCome'
  <1> DEFINE e == Head(buffer[r])
  <1>1. /\ buffer[r] # <<>> /\ buffer[r] \in Seq(Event)
        /\ view' = [view EXCEPT ![r][e.channel] = Applied(@, e)]
        /\ UNCHANGED <<exchangeVars, queue, phase, since, missed>>
    BY DEF Deliver, TypeOK
  <1>2. e \in Event /\ e.channel \in Channels
    <2>1. e \in Event
      BY <1>1
    <2> QED
      BY <2>1 DEF Event
  <1> HIDE DEF e
  <1>3. ASSUME NEW c \in Fills PROVE Sent(c, queue, pushed[c])'
    BY <1>1 DEF FillsCome, exchangeVars
  <1>4. ASSUME NEW s \in Sessions, NEW c \in Fills PROVE LogComes(s, c)'
    <2>1. /\ LogComes(s, c) /\ c \in Channels /\ c \notin States
          /\ pushed' = pushed
      BY <1>1, FillsKinds DEF FillsCome, exchangeVars
    <2>2. CASE s # r
      <3>1. Way(s)' = Way(s) /\ view'[s] = view[s]
        BY <2>2, DeliverWay
      <3> QED
        BY <1>1, <2>1, <3>1, SameLogComes
    <2>3. CASE s = r
      <3>1. Without(Way(s), Way(s)', 1) /\ Way(s)[1] = e
        BY <2>3, DeliverWay DEF e
      <3>2. CASE e.channel # c
        <4>1. view'[s][c] = view[s][c]
          BY <1>1, <1>2, <2>1, <2>3, <3>2 DEF TypeOK
        <4> QED
          BY <1>1, <2>1, <3>1, <3>2, <4>1, LessLogComes
      <3>3. CASE e.channel = c
        <4> DEFINE shown == view[s][c]
                   after == view'[s][c]
        <4>1. after = Applied(shown, e)
          BY <1>1, <1>2, <2>1, <2>3, <3>3 DEF TypeOK
        <4>2. /\ Way(s) \in Seq(Event) /\ Way(s)' \in Seq(Event)
              /\ pushed[c] \in Nat /\ shown \in Seq(Nat)
              /\ \A k \in DOMAIN shown : shown[k] \in Nat
          BY FillsTyped, WayTyped, NextWayTyped
        <4>3. 1 \in On(c, Way(s))
          BY <3>1, <3>3 DEF On, Without
        <4>4. /\ e.first <= e.last /\ e.last <= pushed[c] /\ Increases(shown)
              /\ \A k \in DOMAIN shown : shown[k] < e.first
          BY <2>1, <3>1, <4>3 DEF LogComes, ComesInOrder, Sent
        <4>5. e.first \in Nat /\ e.last \in Nat
          BY <1>2 DEF Event
        <4>6. /\ Increases(after)
              /\ \A k \in DOMAIN after : after[k] \in Nat /\ after[k] <= e.last
              /\ \A k \in DOMAIN shown :
                   k \in DOMAIN after /\ after[k] = shown[k]
              /\ \A n \in e.first..e.last :
                   \E k \in DOMAIN after : after[k] = n
          <5>1. e.channel \notin States
            BY <2>1, <3>3
          <5> HIDE DEF shown, after
          <5> QED
            BY <1>2, <4>1, <4>2, <4>4, <5>1, ShowsMore, SMTT(30)
        <4>7. /\ \A i \in On(c, Way(s)') :
                   /\ i + 1 \in On(c, Way(s)) /\ i \in Nat /\ 1 <= i
                   /\ Way(s)'[i] = Way(s)[i + 1]
              /\ \A o \in On(c, Way(s)) \ {1} :
                   /\ o - 1 \in On(c, Way(s)')
                   /\ Way(s)'[o - 1] = Way(s)[o]
          <5>1. \A i \in On(c, Way(s)') : i \in Nat /\ 1 <= i
            BY <4>2 DEF On
          <5>2. \A o \in On(c, Way(s)) \ {1} : o \in Nat /\ 1 < o
            BY <4>2 DEF On
          <5> QED
            BY <2>1, <3>1, <4>2, <5>1, <5>2, WithoutKeeps
        <4>8. Sent(c, Way(s)', pushed[c])
          BY <2>1, <3>1, <4>2, WithoutSent DEF LogComes
        <4>9. \A i \in On(c, Way(s)') :
                /\ Way(s)'[i].first \in Nat
                /\ e.last < Way(s)'[i].first
          <5>1. \A i \in On(c, Way(s)') : Way(s)'[i] \in Event
            BY <4>2 DEF On
          <5>2. \A i \in On(c, Way(s)') : Way(s)[1].last < Way(s)[i + 1].first
            BY <2>1, <4>3, <4>7 DEF LogComes, Sent, InOrder
          <5> QED
            BY <3>1, <4>7, <5>1, <5>2 DEF Event
        <4>10. ComesInOrder(s, c)'
          <5>1. \A i \in On(c, Way(s)') : \A k \in DOMAIN after :
                  after[k] < Way(s)'[i].first
            <6> HIDE DEF after
            <6> QED
              BY <4>5, <4>6, <4>9
          <5> QED
            BY <4>6, <4>8, <5>1 DEF ComesInOrder, Sent
        <4>11. \A k \in DOMAIN after : after[k] <= pushed[c]
          <5> HIDE DEF after
          <5> QED
            BY <4>2, <4>4, <4>5, <4>6
        <4>12. NoGap(s, c)'
          <5>1. SUFFICES ASSUME phase[s] # "closed", c \notin missed[s],
                                NEW n \in (since[s][c] + 1)..pushed[c]
                         PROVE  (Shown(s, c, n) \/ Coming(s, c, n))'
            BY <1>1, <2>1 DEF NoGap
          <5>2. Shown(s, c, n) \/ Coming(s, c, n)
            BY <2>1, <5>1 DEF LogComes, NoGap
          <5>3. CASE Shown(s, c, n)
            BY <4>6, <5>3 DEF Shown
          <5>4. CASE Coming(s, c, n)
            <6>1. PICK i \in On(c, Way(s)) :
                    n \in Way(s)[i].first..Way(s)[i].last
              BY <5>4 DEF Coming
            <6>2. CASE i = 1
              BY <3>1, <4>6, <6>1, <6>2 DEF Shown
            <6>3. CASE i # 1
              BY <4>7, <6>1, <6>3 DEF Coming
            <6> QED
              BY <6>2, <6>3
          <5> QED
            BY <5>2, <5>3, <5>4
        <4> QED
          BY <2>1, <4>8, <4>10, <4>11, <4>12 DEF LogComes
      <3> QED
        BY <3>2, <3>3
    <2> QED
      BY <2>2, <2>3
  <1> QED
    BY <1>3, <1>4 DEF FillsCome

LEMMA FillsStep ==
  TypeOK /\ TypeOK' /\ Sessional /\ FillsCome /\ [Next]_vars => FillsCome'
  <1> SUFFICES ASSUME TypeOK, TypeOK', Sessional, FillsCome, [Next]_vars
               PROVE  FillsCome'
    OBVIOUS
  <1>1. ASSUME UNCHANGED <<queue, buffer, pushed>>,
               \A s \in Sessions : phase[s] = "closed" => phase'[s] = "closed",
               \A s \in Sessions, c \in Fills :
                 /\ view'[s][c] = view[s][c] /\ since'[s] = since[s]
                 /\ missed'[s] = missed[s]
        PROVE  FillsCome'
    <2>1. \A s \in Sessions : Way(s)' = Way(s)
      BY <1>1 DEF Way
    <2> QED
      BY <1>1, <2>1, SameLogComes DEF FillsCome
  <1>2. CASE UNCHANGED vars
    BY <1>1, <1>2 DEF vars, exchangeVars, sessionVars
  <1>3. ASSUME NEW c \in Channels, Change(c) PROVE FillsCome'
    BY <1>1, <1>3 DEF Change, exchangeVars, sessionVars
  <1>4. CASE Connect \/ Disconnect
    BY <1>1, <1>4 DEF Connect, Disconnect, exchangeVars, sessionVars
  <1>5. ASSUME NEW s \in Sessions, Open(s) PROVE FillsCome'
    <2>1. /\ phase[s] = "closed" /\ phase' = [phase EXCEPT ![s] = "reading"]
          /\ since' = [since EXCEPT ![s] = [c \in Logs |-> version[c]]]
          /\ missed' = [missed EXCEPT ![s] = {}]
          /\ UNCHANGED <<exchangeVars, queue, read, view, buffer>>
      BY <1>5 DEF Open
    <2>2. ASSUME NEW r \in Sessions, NEW c \in Fills PROVE LogComes(r, c)'
      <3>1. /\ LogComes(r, c) /\ c \in Channels /\ c \in Logs
            /\ Way(r)' = Way(r) /\ pushed' = pushed /\ view' = view
        BY <2>1, FillsKinds DEF FillsCome, Way, exchangeVars
      <3>2. CASE r # s
        BY <2>1, <3>1, <3>2, SameLogComes DEF TypeOK
      <3>3. CASE r = s
        <4>1. /\ since'[r][c] = version[c] /\ pushed[c] <= version[c]
              /\ pushed[c] \in Nat /\ version[c] \in Nat
          BY <2>1, <3>1, <3>3 DEF TypeOK, Sessional
        <4>2. NoGap(r, c)'
          BY <3>1, <4>1 DEF NoGap
        <4>3. ComesInOrder(r, c)'
          BY <3>1 DEF LogComes, ComesInOrder
        <4> QED
          BY <3>1, <4>2, <4>3 DEF LogComes
      <3> QED
        BY <3>2, <3>3
    <2>3. \A c \in Fills : Sent(c, queue, pushed[c])'
      BY <2>1 DEF FillsCome, exchangeVars
    <2> QED
      BY <2>2, <2>3 DEF FillsCome
  <1>6. ASSUME NEW s \in Sessions, SendSnapshot(s) PROVE FillsCome'
    <2>1. \A r \in Sessions : phase[r] = "closed" => phase'[r] = "closed"
      BY <1>6 DEF SendSnapshot, TypeOK
    <2> QED
      BY <1>1, <1>6, <2>1 DEF SendSnapshot, exchangeVars
  <1>7. ASSUME NEW s \in Sessions, NEW d \in Channels, Read(s, d)
        PROVE  FillsCome'
    <2>1. /\ d \in InSnapshot
          /\ UNCHANGED <<exchangeVars, queue, phase, since, buffer, missed>>
          /\ \E part : view' = [view EXCEPT ![s][d] = part]
      BY <1>7 DEF Read, IsNextPart, InSnapshot
    <2>2. ASSUME NEW r \in Sessions, NEW c \in Fills
          PROVE  view'[r][c] = view[r][c]
      <3>1. c \in Channels /\ c # d
        BY <2>1, FillsKinds
      <3> QED
        BY <2>1, <3>1 DEF TypeOK
    <2> QED
      BY <1>1, <2>1, <2>2 DEF exchangeVars
  <1> QED
    BY <1>2, <1>3, <1>4, <1>5, <1>6, <1>7, PushStateFills, PushLogFills,
       BroadcastFills, DeliverFills, GoneFills DEF Next, Leave, ReadFails

-----------------------------------------------------------------------------
IInv == TypeOK /\ Sessional /\ StatesCome /\ FillsCome

(* One of the events on the way is the last.                               *)
LEMMA LastEvent ==
  ASSUME TypeOK, NEW s \in Sessions, NEW c, On(c, Way(s)) # {}
  PROVE  \E i \in On(c, Way(s)) : \A j \in On(c, Way(s)) : j <= i
  <1>1. Way(s) \in Seq(Event)
    BY WayTyped
  <1>2. Len(Way(s)) \in Nat /\ On(c, Way(s)) \in SUBSET (0..Len(Way(s)))
    BY <1>1 DEF On
  <1> QED
    BY <1>2, Largest

LEMMA Start == Init => IInv
  <1> SUFFICES ASSUME Init PROVE IInv
    OBVIOUS
  <1>1. TypeOK
    BY DEF Init, TypeOK
  <1>2. Sessional
    BY DEF Init, Sessional, Quiet, Started
  <1>3. queue = <<>> /\ \A s \in Sessions : buffer[s] = <<>>
    BY DEF Init
  <1>4. \A c \in Channels : On(c, queue) = {}
    BY <1>3 DEF On
  <1>5. \A s \in Sessions : \A c \in Channels : On(c, Way(s)) = {}
    <2>1. \A s \in Sessions : Way(s) = <<>> \o <<>>
      BY <1>3 DEF Way
    <2>2. <<>> \o <<>> = <<>>
      OBVIOUS
    <2> QED
      BY <2>1, <2>2 DEF On
  <1>6. StatesCome
    <2>1. ASSUME NEW c \in States
          PROVE  /\ c \in Channels
                 /\ \A s \in Sessions : view[s][c] = <<>> /\ read[s] = {}
      BY DEF Init, States
    <2> QED
      BY <1>4, <1>5, <2>1 DEF StatesCome, EndsWith, StateComes
  <1>7. FillsCome
    <2>1. ASSUME NEW c \in Fills
          PROVE  /\ c \in Channels
                 /\ \A s \in Sessions :
                      view[s][c] = <<>> /\ phase[s] = "closed"
      BY FillsKinds DEF Init
    <2>2. \A s \in Sessions : \A c \in Fills : DOMAIN (view[s][c]) = {}
      BY <2>1
    <2> QED
      BY <1>4, <1>5, <2>1, <2>2
         DEF FillsCome, Sent, InOrder, LogComes, ComesInOrder, Increases, NoGap
  <1> QED
    BY <1>1, <1>2, <1>6, <1>7 DEF IInv

LEMMA Invariance == SafetySpec => []IInv
  <1>1. IInv /\ [Next]_vars => IInv'
    BY TypeStep, SessionStep, StateStep, FillsStep DEF IInv
  <1> QED
    BY <1>1, Start, PTL DEF SafetySpec

(* A page is about to show the newest state that was sent, whatever was    *)
(* queued before its snapshot was read (server.go:730-745).                *)
THEOREM NewestComes == Spec => []NewestIsComing
  <1>1. IInv => NewestIsComing
    <2>1. SUFFICES ASSUME IInv, NEW s \in Sessions, NEW c \in States,
                          phase[s] = "streaming", c \notin missed[s],
                          pushed[c] = version[c]
                   PROVE
                     \/ \E i \in On(c, Way(s)) :
                          /\ Way(s)[i].last = version[c]
                          /\ \A j \in On(c, Way(s)) : j <= i
                     \/ /\ On(c, Way(s)) = {}
                        /\ \/ view[s][c] = <<version[c]>>
                           \/ c \notin InSnapshot /\ view[s][c] = <<>>
      BY DEF NewestIsComing
    <2>2. /\ StateComes(s, c) /\ c \in Channels /\ version[c] \in Nat
          /\ Started(s) /\ Way(s) \in Seq(Event) /\ TypeOK
      BY <2>1, WayTyped DEF IInv, StatesCome, Sessional, TypeOK, States
    <2>3. CASE On(c, Way(s)) = {}
      <3>1. \A v \in pushed[c]..version[c] : v = version[c]
        BY <2>1, <2>2
      <3> QED
        BY <2>1, <2>2, <2>3, <3>1 DEF StateComes, Started
    <2>4. CASE On(c, Way(s)) # {}
      <3>1. PICK i \in On(c, Way(s)) : \A j \in On(c, Way(s)) : j <= i
        BY <2>2, <2>4, LastEvent
      <3> QED
        BY <2>1, <2>2, <3>1 DEF StateComes, EndsWith
    <2> QED
      BY <2>3, <2>4
  <1> QED
    BY <1>1, Invariance, PTL DEF Spec

(* Every fill reaches the page, none twice, none out of order              *)
(* (client_http.go:514-533).                                               *)
THEOREM FillsOnce == Spec => []FillsArriveOnce
  <1>1. IInv => FillsArriveOnce
    <2>1. SUFFICES ASSUME IInv, NEW c \in {"fills", "funding"}, c \in Logs
                   PROVE  /\ SentIsComing(c)
                          /\ \A s \in Sessions : ComesInOrder(s, c)
      BY DEF FillsArriveOnce, SentIsComing
    <2>2. \A s \in Sessions : LogComes(s, c)
      BY <2>1 DEF IInv, FillsCome, Fills
    <2> QED
      BY <2>2 DEF LogComes, NoGap, SentIsComing
  <1> QED
    BY <1>1, Invariance, PTL DEF Spec
=============================================================================
