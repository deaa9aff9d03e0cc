------------------------ MODULE ExchangeWrites_proofs ------------------------
(***************************************************************************)
(* Proofs about ExchangeWrites for any calls, orders, requests, clock and  *)
(* position.                                                               *)
(*                                                                         *)
(* The argument: a call that has not signed has left no trace outside      *)
(* (Fresh); an action is built from what was read and is not changed after *)
(* (Built); a nonce of this process is at most its last one, and above all *)
(* older ones if the clock always was (NonceUse).  Cancel-all follows an   *)
(* order from "steady" to its target.                                      *)
(***************************************************************************)
EXTENDS ExchangeWrites, TLAPS

Early == {"idle", "readOpen", "readTrigger", "readAccount", "sign"}

(* A call that has not signed is unknown to the exchange; only a call that *)
(* is done has answered.                                                   *)
Fresh ==
  \A c \in Calls :
    /\ pc[c] \in Early => nonce[c] = Unsigned /\ c \notin wire
                          /\ executed[c] = NotRun
    /\ c \in wire => nonce[c] # Unsigned /\ executed[c] = NotRun
    /\ executed[c] # NotRun => nonce[c] # Unsigned
    /\ answer[c] # "none" => pc[c] = "done"
    /\ pc[c] = "posted" => nonce[c] # Unsigned
    /\ pc[c] \in {"readOpen", "readTrigger"} => req[c].op = "cancelAll"
    /\ pc[c] = "readAccount" => req[c].op = "close"

(* The nonces of this process are used up, and lie above those of earlier  *)
(* ones unless the clock was set back.                                     *)
NonceUse ==
  /\ \A c \in ours : nonce[c] # Unsigned /\ nonce[c] <= lastNonce
  /\ ~setBack => \A c \in ours, d \in Calls \ ours : nonce[d] < nonce[c]

(* A close is reduce-only.                                                 *)
Built ==
  \A c \in Calls : action[c].kind = "close" =>
    action[c].reduceOnly /\ action[c].side \in {-1, 1}

(* The orders a cancel-all has to deal with, from its start to its end.    *)
Tracks(c) ==
  /\ \A o \in steady[c] : book[o] # "unused" /\ Meant(req[c], o)
  /\ pc[c] = "readTrigger" =>
       \A o \in steady[c] : book[o] = "open" => o \in seen[c]
  /\ pc[c] = "sign" \/ c \in wire =>
       /\ action[c].kind = "cancel"
       /\ \A o \in steady[c] : book[o] = "gone" \/ o \in action[c].targets
  /\ executed[c] = "all" => \A o \in steady[c] : book[o] = "gone"

Followed == \A c \in Calls : req[c].op = "cancelAll" => Tracks(c)

(* The inductive invariant.                                                *)
IInv ==
  /\ TypeOK
  /\ Fresh
  /\ NonceUse
  /\ Built
  /\ Followed
  /\ NonceUsedOnce
  /\ OkMeansAll
  /\ CancelAllIsComplete

(* What the exchange does with the action of a call.                       *)
Executes(c) ==
  \E result \in Answers, newBook \in [Oids -> Views], newPosition \in Int :
    /\ Execute(c, result, newBook, newPosition)
    /\ \A o \in Oids : \/ newBook[o] = book[o]
                       \/ newBook[o] = "gone"
                       \/ book[o] = "unused"
    /\ action[c].kind = "cancel" /\ result = "all" =>
         \A o \in Oids \intersect action[c].targets : newBook[o] = "gone"
    /\ action[c].kind = "close" =>
         \/ 0 <= newPosition /\ newPosition <= position
         \/ position <= newPosition /\ newPosition <= 0

(* What the account does by itself.                                        *)
Moves ==
  \E newBook \in [Oids -> Views], newPosition \in Int :
    /\ AccountMoves(newBook, newPosition)
    /\ \A o \in Oids : \/ newBook[o] = book[o]
                       \/ newBook[o] = "gone"
                       \/ book[o] = "trigger" /\ newBook[o] = "open"

(* A reduce-only order takes a position towards zero at most.              *)
LEMMA CloseReduces ==
  ASSUME NEW a \in Actions, a.reduceOnly, a.side \in {-1, 1},
         position \in Int, NEW filled \in 0..Reducible(a)
  PROVE  /\ position + a.side * filled \in Int
         /\ \/ /\ 0 <= position + a.side * filled
               /\ position + a.side * filled <= position
            \/ /\ position <= position + a.side * filled
               /\ position + a.side * filled <= 0
  <1>0. a.size \in Nat /\ Reducible(a) \in Nat
    BY DEF Actions, Reducible, Abs
  <1>1. CASE a.side = 1
    <2>1. a.side * filled = filled /\ a.side * position = position
      BY <1>1, <1>0
    <2> QED
      BY <1>0, <2>1 DEF Reducible, Abs
  <1>2. CASE a.side = -1
    <2>1. a.side * filled = -filled /\ a.side * position = -position
      BY <1>2, <1>0
    <2> QED
      BY <1>0, <2>1 DEF Reducible, Abs
  <1> QED
    BY <1>1, <1>2

(* The steps of the exchange, seen alike.                                  *)
LEMMA ExchangeCases ==
  ASSUME TypeOK, Built, NEW c \in Calls, ExchangeStep(c)
  PROVE  Executes(c)
  <1> DEFINE New(b) == \A o \in Oids : \/ b[o] = book[o] \/ b[o] = "gone"
                                       \/ book[o] = "unused"
  <1>0. book \in [Oids -> Views] /\ position \in Int /\ action[c] \in Actions
    BY DEF TypeOK
  <1>1. CASE Refuse(c)
    <2>1. "refused" \in Answers
      BY DEF Answers
    <2> QED
      BY <1>0, <1>1, <2>1 DEF Refuse, Executes
  <1>2. CASE ExecuteCancel(c)
    <2> DEFINE b == [o \in Oids |->
                      IF o \in action[c].targets /\ book[o] \in Live
                      THEN "gone" ELSE book[o]]
               r == IF AllLive(action[c]) THEN "all" ELSE "part"
    <2>1. b \in [Oids -> Views] /\ New(b) /\ r \in Answers
      BY <1>0 DEF Views, Answers
    <2>2. r = "all" => \A o \in Oids \intersect action[c].targets :
                         b[o] = "gone"
      BY DEF AllLive
    <2>3. Execute(c, r, b, position) /\ action[c].kind = "cancel"
      BY <1>2 DEF ExecuteCancel
    <2> QED
      BY <1>0, <2>1, <2>2, <2>3 DEF Executes
  <1>3. CASE ExecuteChange(c)
    <2>1. PICK r \in {"all", "part"} : Execute(c, r, book, position)
      BY <1>3 DEF ExecuteChange
    <2>2. r \in Answers /\ action[c].kind \notin {"cancel", "close"}
      BY <1>3 DEF ExecuteChange, Answers
    <2> QED
      BY <1>0, <2>1, <2>2 DEF Executes
  <1>4. CASE ExecuteOrder(c)
    <2>1. PICK o \in Oids, r \in {"all", "part"}, view \in Views :
            /\ book[o] = "unused"
            /\ Execute(c, r, [book EXCEPT ![o] = view], position)
      BY <1>4 DEF ExecuteOrder
    <2> DEFINE b == [book EXCEPT ![o] = view]
    <2>2. b \in [Oids -> Views] /\ New(b) /\ r \in Answers
      BY <1>0, <2>1 DEF Answers
    <2>3. action[c].kind \notin {"cancel", "close"}
      BY <1>4 DEF ExecuteOrder
    <2> QED
      BY <1>0, <2>1, <2>2, <2>3 DEF Executes
  <1>5. CASE ExecuteClose(c)
    <2>1. PICK filled \in 0..Reducible(action[c]), r \in {"all", "part"} :
            Execute(c, r, book, position + action[c].side * filled)
      BY <1>5 DEF ExecuteClose
    <2>2. action[c].kind = "close" /\ r \in Answers
      BY <1>5 DEF ExecuteClose, Answers
    <2>3. action[c].reduceOnly /\ action[c].side \in {-1, 1}
      BY <2>2 DEF Built
    <2> QED
      BY <1>0, <2>1, <2>2, <2>3, CloseReduces DEF Executes
  <1> QED
    BY <1>1, <1>2, <1>3, <1>4, <1>5 DEF ExchangeStep

(* The steps of the account, seen alike.                                   *)
LEMMA AccountCases ==
  ASSUME TypeOK, (\E o \in Oids : Fire(o) \/ Leave(o)) \/ Drift
  PROVE  Moves
  <1>0. book \in [Oids -> Views] /\ position \in Int
    BY DEF TypeOK
  <1>1. ASSUME NEW o \in Oids, Fire(o) PROVE Moves
    <2>1. [book EXCEPT ![o] = "open"] \in [Oids -> Views]
      BY <1>0 DEF Views, Live
    <2> QED
      BY <1>0, <1>1, <2>1 DEF Fire, Moves
  <1>2. ASSUME NEW o \in Oids, Leave(o) PROVE Moves
    <2>1. [book EXCEPT ![o] = "gone"] \in [Oids -> Views]
      BY <1>0 DEF Views, Live
    <2> QED
      BY <1>0, <1>2, <2>1 DEF Leave, Moves
  <1>3. CASE Drift
    BY <1>0, <1>3, WritesAssumption DEF Drift, Moves
  <1> QED
    BY <1>1, <1>2, <1>3

(* The steps, as the proofs split them.                                    *)
LEMMA NextCases ==
  ASSUME NEW ACTION P, TypeOK, Built, Next,
         ASSUME NEW c \in Calls, NEW r \in Offered, Begin(c, r) PROVE P,
         ASSUME NEW c \in Calls, FailEarly(c) PROVE P,
         ASSUME NEW c \in Calls, ReadOpen(c) PROVE P,
         ASSUME NEW c \in Calls, ReadTrigger(c) PROVE P,
         ASSUME NEW c \in Calls, ReadAccount(c) PROVE P,
         ASSUME NEW c \in Calls, SignAndPost(c) PROVE P,
         ASSUME NEW c \in Calls, AnswerArrives(c) PROVE P,
         ASSUME NEW c \in Calls, GiveUp(c) PROVE P,
         ASSUME NEW c \in Calls, Executes(c) PROVE P,
         ASSUME Moves PROVE P,
         ASSUME Restart PROVE P
  PROVE  P
  BY ExchangeCases, AccountCases DEF Next, CallStep

(* What a request is, and the action a simple one builds.                  *)
LEMMA RequestFacts ==
  ASSUME NEW r \in Requests \union {NoRequest}
  PROVE  /\ r.op \in {"modify", "cancel"} => r.oid \in Oids
         /\ r.percent \in 1..100
  <1>1. Percents \subseteq 1..100 /\ 100 \in 1..100
    BY WritesAssumption
  <1>2. CASE r = NoRequest
    BY <1>1, <1>2 DEF NoRequest
  <1>3. CASE r \in [op : {"close"}, symbol : {Every}, oid : {"none"},
                    percent : Percents]
    BY <1>1, <1>3
  <1>4. CASE r \in [op : {"modify", "cancel"}, symbol : {Every}, oid : Oids,
                    percent : {100}]
    BY <1>1, <1>4
  <1>5. CASE r \in Requests /\ r.op \notin {"close", "modify", "cancel"}
    BY <1>1, <1>5 DEF Requests
  <1> QED
    BY <1>2, <1>3, <1>4, <1>5 DEF Requests

LEMMA SimpleTyped ==
  ASSUME NEW r \in Offered
  PROVE  Simple(r) \in Actions /\ Simple(r).kind # "close"
  BY RequestFacts, WritesAssumption DEF Simple, Actions, Elements, NoAction

(* What a close sends.                                                     *)
LEMMA CloseTyped ==
  ASSUME NEW held \in Int, NEW percent \in 1..100
  PROVE  /\ CloseOrder(held, percent) \in Actions
         /\ CloseOrder(held, percent).reduceOnly
         /\ CloseOrder(held, percent).side \in {-1, 1}
  <1>1. Abs(held) \in Nat
    BY DEF Abs
  <1>2. Abs(held) * percent \in Nat
    BY <1>1
  <1>3. CloseSize(held, percent) \in Nat
    BY <1>2 DEF CloseSize
  <1> QED
    BY <1>3 DEF CloseOrder, Actions, Elements

(* A nonce is a number no less than the clock and above the last one.      *)
LEMMA NonceFacts ==
  ASSUME lastNonce \in Nat, NEW now \in 1..MaxClock
  PROVE  /\ NextNonce(now) \in Nat /\ NextNonce(now) # Unsigned
         /\ lastNonce < NextNonce(now) /\ now <= NextNonce(now)
  BY WritesAssumption DEF NextNonce, Unsigned

(* A step keeps every variable in its type.                                *)
LEMMA TypeStep ==
  TypeOK /\ Built /\ [Next]_vars => TypeOK'
  <1> SUFFICES ASSUME TypeOK, Built, Next PROVE TypeOK'
    BY DEF vars, nonceVars, callVars, exchangeVars, TypeOK
  <1>0. NoAction \in Actions
    BY DEF NoAction, Actions, Elements
  <1> USE DEF TypeOK, Labels, Goto, Finish, nonceVars, callVars,
              exchangeVars
  <1>1. ASSUME NEW c \in Calls, NEW r \in Offered, Begin(c, r)
        PROVE  TypeOK'
    <2>1. r \in Requests /\ Simple(r) \in Actions
      BY WritesAssumption, SimpleTyped
    <2>2. pc' \in [Calls -> Labels]
      BY <1>1 DEF Begin
    <2>3. steady' \in [Calls -> SUBSET Oids]
      BY <1>1 DEF Begin
    <2> QED
      BY <1>1, <2>1, <2>2, <2>3 DEF Begin
  <1>2. ASSUME NEW c \in Calls, FailEarly(c)
        PROVE  TypeOK'
    BY <1>2, <1>0 DEF FailEarly
  <1>3. ASSUME NEW c \in Calls, ReadOpen(c)
        PROVE  TypeOK'
    BY <1>3 DEF ReadOpen
  <1>4. ASSUME NEW c \in Calls, ReadTrigger(c)
        PROVE  TypeOK'
    <2> DEFINE batch == Batch(c, {o \in Oids : book[o] = "trigger"})
               cancel == [NoAction EXCEPT !.kind = "cancel",
                                          !.targets = batch]
    <2>1. batch \subseteq Oids
      BY DEF Batch
    <2>2. cancel \in Actions
      BY <2>1 DEF NoAction, Actions, Elements
    <2>3. action' = action \/ action' = [action EXCEPT ![c] = cancel]
      BY <1>4 DEF ReadTrigger
    <2>4. action' \in [Calls -> Actions]
      BY <2>2, <2>3
    <2>5. /\ pc' \in [Calls -> Labels]
          /\ answer' \in [Calls -> {"none", "ok", "error"}]
          /\ seen' \in [Calls -> SUBSET Oids]
      BY <1>4 DEF ReadTrigger
    <2>6. UNCHANGED <<nonceVars, req, nonce, wire, steady, exchangeVars>>
      BY <1>4 DEF ReadTrigger
    <2> QED
      BY <2>4, <2>5, <2>6
  <1>5. ASSUME NEW c \in Calls, ReadAccount(c)
        PROVE  TypeOK'
    <2> DEFINE order == CloseOrder(position, req[c].percent)
    <2>1. req[c].percent \in 1..100
      BY RequestFacts
    <2>2. order \in Actions /\ order.reduceOnly /\ order.side \in {-1, 1}
      BY <2>1, CloseTyped
    <2> HIDE DEF order
    <2> QED
      BY <1>5, <2>2 DEF ReadAccount, order
  <1>6. ASSUME NEW c \in Calls, SignAndPost(c)
        PROVE  TypeOK'
    <2>1. PICK now \in 1..MaxClock :
            /\ lastNonce' = NextNonce(now)
            /\ nonce' = [nonce EXCEPT ![c] = NextNonce(now)]
            /\ setBack' = (setBack \/ NotPast(now) # {})
      BY <1>6 DEF SignAndPost
    <2>2. NextNonce(now) \in Nat
      BY NonceFacts
    <2>3. setBack' \in BOOLEAN
      BY <2>1
    <2> QED
      BY <1>6, <2>1, <2>2, <2>3 DEF SignAndPost
  <1>7. ASSUME NEW c \in Calls, AnswerArrives(c)
        PROVE  TypeOK'
    BY <1>7 DEF AnswerArrives, Parsed
  <1>8. ASSUME NEW c \in Calls, GiveUp(c)
        PROVE  TypeOK'
    BY <1>8 DEF GiveUp
  <1>9. ASSUME NEW c \in Calls, Executes(c)
        PROVE  TypeOK'
    BY <1>9, <1>0 DEF Executes, Execute
  <1>10. ASSUME Moves
        PROVE  TypeOK'
    BY <1>10 DEF Moves, AccountMoves
  <1>11. ASSUME Restart
        PROVE  TypeOK'
    BY <1>11, <1>0 DEF Restart
  <1> QED
    BY NextCases, <1>1, <1>2, <1>3, <1>4, <1>5, <1>6, <1>7, <1>8, <1>9, <1>10,
       <1>11

(* No step builds a close that is not reduce-only.                         *)
LEMMA BuiltStep ==
  TypeOK /\ Built /\ [Next]_vars => Built'
  <1> SUFFICES ASSUME TypeOK, Built, Next PROVE Built'
    BY DEF vars, nonceVars, callVars, exchangeVars, Built
  <1> USE DEF TypeOK, Built, Goto, Finish, nonceVars, callVars,
              exchangeVars
  <1>1. ASSUME NEW c \in Calls, NEW r \in Offered, Begin(c, r)
        PROVE  Built'
    BY <1>1, SimpleTyped DEF Begin
  <1>2. ASSUME NEW c \in Calls, FailEarly(c)
        PROVE  Built'
    BY <1>2 DEF FailEarly, NoAction
  <1>3. ASSUME NEW c \in Calls, ReadOpen(c)
        PROVE  Built'
    BY <1>3 DEF ReadOpen
  <1>4. ASSUME NEW c \in Calls, ReadTrigger(c)
        PROVE  Built'
    <2> DEFINE cancel == [NoAction EXCEPT !.kind = "cancel", !.targets =
                            Batch(c, {o \in Oids : book[o] = "trigger"})]
    <2>1. cancel.kind = "cancel"
      BY DEF NoAction
    <2>2. action' = action \/ action' = [action EXCEPT ![c] = cancel]
      BY <1>4 DEF ReadTrigger
    <2> HIDE DEF cancel
    <2> QED
      BY <1>4, <2>1, <2>2 DEF ReadTrigger
  <1>5. ASSUME NEW c \in Calls, ReadAccount(c)
        PROVE  Built'
    <2> DEFINE order == CloseOrder(position, req[c].percent)
    <2>1. req[c].percent \in 1..100
      BY RequestFacts
    <2>2. order \in Actions /\ order.reduceOnly /\ order.side \in {-1, 1}
      BY <2>1, CloseTyped
    <2> HIDE DEF order
    <2> QED
      BY <1>5, <2>2 DEF ReadAccount, order
  <1>6. ASSUME NEW c \in Calls, SignAndPost(c)
        PROVE  Built'
    BY <1>6 DEF SignAndPost
  <1>7. ASSUME NEW c \in Calls, AnswerArrives(c)
        PROVE  Built'
    BY <1>7 DEF AnswerArrives
  <1>8. ASSUME NEW c \in Calls, GiveUp(c)
        PROVE  Built'
    BY <1>8 DEF GiveUp
  <1>9. ASSUME NEW c \in Calls, Executes(c)
        PROVE  Built'
    BY <1>9 DEF Executes, Execute, NoAction
  <1>10. ASSUME Moves
        PROVE  Built'
    BY <1>10 DEF Moves, AccountMoves
  <1>11. ASSUME Restart
        PROVE  Built'
    BY <1>11 DEF Restart, NoAction
  <1> QED
    BY NextCases, <1>1, <1>2, <1>3, <1>4, <1>5, <1>6, <1>7, <1>8, <1>9, <1>10,
       <1>11

(* Only a signed action leaves a trace, and only an end an answer.         *)
LEMMA FreshStep ==
  TypeOK /\ Built /\ Fresh /\ [Next]_vars => Fresh'
  <1> SUFFICES ASSUME TypeOK, Built, Fresh, Next PROVE Fresh'
    BY DEF vars, nonceVars, callVars, exchangeVars, Fresh
  <1> USE DEF TypeOK, Fresh, Early, Goto, Finish, nonceVars, callVars,
              exchangeVars
  <1>1. ASSUME NEW c \in Calls, NEW r \in Offered, Begin(c, r)
        PROVE  Fresh'
    BY <1>1 DEF Begin
  <1>2. ASSUME NEW c \in Calls, FailEarly(c)
        PROVE  Fresh'
    BY <1>2 DEF FailEarly
  <1>3. ASSUME NEW c \in Calls, ReadOpen(c)
        PROVE  Fresh'
    BY <1>3 DEF ReadOpen
  <1>4. ASSUME NEW c \in Calls, ReadTrigger(c)
        PROVE  Fresh'
    BY <1>4 DEF ReadTrigger
  <1>5. ASSUME NEW c \in Calls, ReadAccount(c)
        PROVE  Fresh'
    BY <1>5 DEF ReadAccount
  <1>6. ASSUME NEW c \in Calls, SignAndPost(c)
        PROVE  Fresh'
    <2>1. PICK now \in 1..MaxClock :
            nonce' = [nonce EXCEPT ![c] = NextNonce(now)]
      BY <1>6 DEF SignAndPost
    <2>2. NextNonce(now) # Unsigned
      BY NonceFacts
    <2> QED
      BY <1>6, <2>1, <2>2 DEF SignAndPost
  <1>7. ASSUME NEW c \in Calls, AnswerArrives(c)
        PROVE  Fresh'
    BY <1>7 DEF AnswerArrives
  <1>8. ASSUME NEW c \in Calls, GiveUp(c)
        PROVE  Fresh'
    BY <1>8 DEF GiveUp
  <1>9. ASSUME NEW c \in Calls, Executes(c)
        PROVE  Fresh'
    BY <1>9 DEF Executes, Execute, Answers, NotRun
  <1>10. ASSUME Moves
        PROVE  Fresh'
    BY <1>10 DEF Moves, AccountMoves
  <1>11. ASSUME Restart
        PROVE  Fresh'
    BY <1>11 DEF Restart
  <1> QED
    BY NextCases, <1>1, <1>2, <1>3, <1>4, <1>5, <1>6, <1>7, <1>8, <1>9, <1>10,
       <1>11

(* A nonce is new when it is taken, and stays used.                        *)
LEMMA NonceStep ==
  TypeOK /\ Built /\ Fresh /\ NonceUse /\ NonceUsedOnce /\ [Next]_vars
    => NonceUse' /\ NonceUsedOnce'
  <1> DEFINE Kept == NonceUse' /\ NonceUsedOnce'
  <1> SUFFICES ASSUME TypeOK, Built, Fresh, NonceUse, NonceUsedOnce, Next
               PROVE  Kept
    BY DEF vars, nonceVars, callVars, exchangeVars, NonceUse, NonceUsedOnce
  <1>0. UNCHANGED <<nonceVars, nonce>> => Kept
    BY DEF nonceVars, NonceUse, NonceUsedOnce
  <1> USE DEF callVars, exchangeVars
  <1> HIDE DEF Kept
  <1>1. ASSUME NEW c \in Calls, NEW r \in Offered, Begin(c, r) PROVE Kept
    BY <1>0, <1>1 DEF Begin
  <1>2. ASSUME NEW c \in Calls, FailEarly(c) PROVE Kept
    BY <1>0, <1>2 DEF FailEarly
  <1>3. ASSUME NEW c \in Calls, ReadOpen(c) PROVE Kept
    BY <1>0, <1>3 DEF ReadOpen
  <1>4. ASSUME NEW c \in Calls, ReadTrigger(c) PROVE Kept
    BY <1>0, <1>4 DEF ReadTrigger
  <1>5. ASSUME NEW c \in Calls, ReadAccount(c) PROVE Kept
    BY <1>0, <1>5 DEF ReadAccount
  <1>6. ASSUME NEW c \in Calls, SignAndPost(c) PROVE Kept
    <2>1. PICK now \in 1..MaxClock :
            /\ lastNonce' = NextNonce(now)
            /\ nonce' = [nonce EXCEPT ![c] = NextNonce(now)]
            /\ setBack' = (setBack \/ NotPast(now) # {})
      BY <1>6 DEF SignAndPost
    <2>2. /\ NextNonce(now) \in Nat /\ NextNonce(now) # Unsigned
          /\ lastNonce < NextNonce(now) /\ now <= NextNonce(now)
      BY NonceFacts DEF TypeOK
    <2>3. ours' = ours \union {c} /\ ours \subseteq Calls
          /\ nonce \in [Calls -> Nat] /\ lastNonce \in Nat /\ now \in Nat
      BY <1>6 DEF SignAndPost, TypeOK
    <2>4. nonce'[c] = NextNonce(now)
          /\ \A d \in Calls \ {c} : nonce'[d] = nonce[d]
      BY <2>1, <2>3
    <2>5. \A d \in ours : nonce[d] # Unsigned /\ nonce[d] <= lastNonce
          /\ d # c
      BY <1>6 DEF SignAndPost, NonceUse, Fresh, Early
    <2>6. ~setBack' => ~setBack /\ \A d \in Calls \ ours : nonce[d] < now
      <3>1. ~setBack' => ~setBack /\ NotPast(now) = {}
        BY <2>1, Zenon
      <3>2. NotPast(now) = {} => \A d \in Calls \ ours : nonce[d] < now
        BY <2>3 DEF NotPast
      <3> QED
        BY <3>1, <3>2, Zenon
    <2>7. \A d \in ours' : nonce'[d] # Unsigned /\ nonce'[d] <= lastNonce'
      BY <2>1, <2>2, <2>3, <2>4, <2>5
    <2>8. ~setBack' =>
            \A e \in ours', d \in Calls \ ours' : nonce'[d] < nonce'[e]
      <3> SUFFICES ASSUME ~setBack', NEW e \in ours', NEW d \in Calls \ ours'
                   PROVE  nonce'[d] < nonce'[e]
        OBVIOUS
      <3>1. d \in Calls \ ours /\ nonce'[d] = nonce[d] /\ nonce[d] < now
        BY <2>3, <2>4, <2>6
      <3>2. CASE e = c
        BY <2>2, <2>3, <2>4, <3>1, <3>2
      <3>3. CASE e \in ours
        BY <2>3, <2>4, <2>5, <2>6, <3>1, <3>3 DEF NonceUse
      <3> QED
        BY <2>3, <3>2, <3>3
    <2>9. \A e \in ours', d \in ours' : e # d => nonce'[e] # nonce'[d]
      BY <2>2, <2>3, <2>4, <2>5 DEF NonceUsedOnce
    <2>10. nonce' \in [Calls -> Nat]
      BY <2>1, <2>2, <2>3
    <2>11. NonceUsedOnce'
      BY <2>3, <2>8, <2>9, <2>10 DEF NonceUsedOnce
    <2> QED
      BY <2>7, <2>8, <2>11 DEF NonceUse, Kept
  <1>7. ASSUME NEW c \in Calls, AnswerArrives(c) PROVE Kept
    BY <1>0, <1>7 DEF AnswerArrives
  <1>8. ASSUME NEW c \in Calls, GiveUp(c) PROVE Kept
    BY <1>0, <1>8 DEF GiveUp
  <1>9. ASSUME NEW c \in Calls, Executes(c) PROVE Kept
    BY <1>0, <1>9 DEF Executes, Execute
  <1>10. ASSUME Moves PROVE Kept
    BY <1>0, <1>10 DEF Moves, AccountMoves
  <1>11. ASSUME Restart PROVE Kept
    BY <1>11 DEF Restart, NonceUse, NonceUsedOnce, Kept
  <1> QED
    BY NextCases, <1>1, <1>2, <1>3, <1>4, <1>5, <1>6, <1>7, <1>8, <1>9, <1>10,
       <1>11

(* No order a cancel-all is meant for gets out of its sight.               *)
LEMMA FollowStep ==
  TypeOK /\ Built /\ Fresh /\ Followed /\ CancelAllIsComplete /\ [Next]_vars
    => Followed' /\ CancelAllIsComplete'
  <1> SUFFICES ASSUME TypeOK, Built, Fresh, Followed, CancelAllIsComplete, Next
                  PROVE  Followed' /\ CancelAllIsComplete'
    BY DEF vars, nonceVars, callVars, exchangeVars, Followed, Tracks, Meant,
       CancelAllIsComplete
  <1> USE DEF TypeOK, Fresh, Followed, Tracks, CancelAllIsComplete, Goto,
              Finish, nonceVars, callVars,
              exchangeVars
  <1>1. ASSUME NEW c \in Calls, NEW r \in Offered, Begin(c, r)
        PROVE  Followed' /\ CancelAllIsComplete'
    BY <1>1 DEF Begin, Live, NotRun, Early
  <1>2. ASSUME NEW c \in Calls, FailEarly(c)
        PROVE  Followed' /\ CancelAllIsComplete'
    BY <1>2 DEF FailEarly, Early, NotRun
  <1>3. ASSUME NEW c \in Calls, ReadOpen(c)
        PROVE  Followed' /\ CancelAllIsComplete'
    BY <1>3 DEF ReadOpen, Views, Live, Early
  <1>4. ASSUME NEW c \in Calls, ReadTrigger(c)
        PROVE  Followed' /\ CancelAllIsComplete'
    <2> DEFINE batch == Batch(c, {o \in Oids : book[o] = "trigger"})
               cancel == [NoAction EXCEPT !.kind = "cancel",
                                          !.targets = batch]
    <2>1. cancel.kind = "cancel" /\ cancel.targets = batch
      BY DEF NoAction
    <2>2. \A o \in steady[c] : book[o] = "gone" \/ o \in batch
      <3> SUFFICES ASSUME NEW o \in steady[c]
                   PROVE  book[o] = "gone" \/ o \in batch
        OBVIOUS
      <3>1. o \in Oids /\ book[o] \in {"open", "trigger", "gone"}
        BY <1>4 DEF ReadTrigger, Views, Live
      <3>2. Meant(req[c], o) /\ (book[o] = "open" => o \in seen[c])
        BY <1>4 DEF ReadTrigger
      <3> QED
        BY <3>1, <3>2 DEF Batch
    <2>3. executed[c] = NotRun /\ c \notin wire
      BY <1>4 DEF ReadTrigger, Early
    <2> HIDE DEF batch, cancel
    <2>4. \/ pc' = [pc EXCEPT ![c] = "done"] /\ UNCHANGED action
             /\ answer' = [answer EXCEPT ![c] = "error"]
          \/ pc' = [pc EXCEPT ![c] = "done"] /\ UNCHANGED action
             /\ answer' = [answer EXCEPT ![c] = "ok"] /\ batch = {}
          \/ pc' = [pc EXCEPT ![c] = "sign"] /\ UNCHANGED answer
             /\ action' = [action EXCEPT ![c] = cancel]
      BY <1>4 DEF ReadTrigger, batch, cancel
    <2>5. UNCHANGED <<req, wire, executed, book, steady>>
      BY <1>4 DEF ReadTrigger
    <2>6. Followed'
      <3> SUFFICES ASSUME NEW d \in Calls, req[d].op = "cancelAll"
                   PROVE  Tracks(d)'
        BY <2>5
      <3>1. CASE d = c
        BY <2>1, <2>2, <2>3, <2>4, <2>5, <3>1 DEF NotRun, Meant
      <3>2. CASE d # c
        BY <2>4, <2>5, <3>2, <1>4 DEF ReadTrigger, Meant
      <3> QED
        BY <3>1, <3>2
    <2>7. CancelAllIsComplete'
      BY <2>2, <2>4, <2>5
    <2> QED
      BY <2>6, <2>7
  <1>5. ASSUME NEW c \in Calls, ReadAccount(c)
        PROVE  Followed' /\ CancelAllIsComplete'
    BY <1>5 DEF ReadAccount
  <1>6. ASSUME NEW c \in Calls, SignAndPost(c)
        PROVE  Followed' /\ CancelAllIsComplete'
    BY <1>6 DEF SignAndPost
  <1>7. ASSUME NEW c \in Calls, AnswerArrives(c)
        PROVE  Followed' /\ CancelAllIsComplete'
    BY <1>7 DEF AnswerArrives, Parsed
  <1>8. ASSUME NEW c \in Calls, GiveUp(c)
        PROVE  Followed' /\ CancelAllIsComplete'
    BY <1>8 DEF GiveUp
  <1>9. ASSUME NEW c \in Calls, Executes(c)
        PROVE  Followed' /\ CancelAllIsComplete'
    <2>1. PICK result \in Answers, newBook \in [Oids -> Views],
               newPosition \in Int :
            /\ Execute(c, result, newBook, newPosition)
            /\ \A o \in Oids : \/ newBook[o] = book[o]
                               \/ newBook[o] = "gone"
                               \/ book[o] = "unused"
            /\ action[c].kind = "cancel" /\ result = "all" =>
                 \A o \in Oids \intersect action[c].targets :
                   newBook[o] = "gone"
      BY <1>9 DEF Executes
    <2>2. /\ book' = newBook /\ UNCHANGED <<req, steady, pc, answer, seen>>
          /\ c \in wire /\ wire' = wire \ {c}
          /\ executed' = [executed EXCEPT ![c] = result]
          /\ \A d \in Calls : d # c => action'[d] = action[d]
      BY <2>1 DEF Execute
    <2>3. \A d \in Calls : req[d].op = "cancelAll" => \A o \in steady[d] :
            /\ o \in Oids /\ newBook[o] # "unused"
            /\ book[o] = "gone" => newBook[o] = "gone"
            /\ newBook[o] = "open" => book[o] = "open"
      BY <2>1
    <2>4. pc[c] # "sign" /\ pc[c] # "readTrigger"
      BY <2>2 DEF Early
    <2>5. req[c].op = "cancelAll" /\ result = "all" =>
            \A o \in steady[c] : newBook[o] = "gone"
      BY <2>1, <2>2, <2>3
    <2>6. ASSUME NEW d \in Calls, req[d].op = "cancelAll", NEW o \in steady[d]
          PROVE  /\ newBook[o] # "unused" /\ Meant(req[d], o)
                 /\ pc[d] = "readTrigger" /\ newBook[o] = "open"
                      => o \in seen[d]
                 /\ pc[d] = "sign" \/ d \in wire' => action[d].kind = "cancel"
                      /\ (newBook[o] = "gone" \/ o \in action[d].targets)
                 /\ executed'[d] = "all" => newBook[o] = "gone"
                 /\ answer[d] = "ok" => newBook[o] = "gone"
      BY <2>2, <2>3, <2>4, <2>5, <2>6
    <2>7. \A d \in Calls : (pc[d] = "sign" \/ d \in wire') /\
            req[d].op = "cancelAll" => action'[d].kind = "cancel" /\
              action'[d] = action[d]
      BY <2>2, <2>4
    <2>8. CancelAllIsComplete'
      BY <2>2, <2>6
    <2>9. Followed'
      BY <2>2, <2>6, <2>7 DEF Meant
    <2> QED
      BY <2>8, <2>9
  <1>10. ASSUME Moves
        PROVE  Followed' /\ CancelAllIsComplete'
    BY <1>10 DEF Moves, AccountMoves, NotRun
  <1>11. ASSUME Restart
        PROVE  Followed' /\ CancelAllIsComplete'
    BY <1>11 DEF Restart
  <1> QED
    BY NextCases, <1>1, <1>2, <1>3, <1>4, <1>5, <1>6, <1>7, <1>8, <1>9, <1>10,
       <1>11

(* Only an answer with no failed element becomes "ok".                     *)
LEMMA OkStep ==
  TypeOK /\ Built /\ Fresh /\ OkMeansAll /\ [Next]_vars => OkMeansAll'
  <1> SUFFICES ASSUME TypeOK, Built, Fresh, OkMeansAll, Next PROVE OkMeansAll'
    BY DEF vars, nonceVars, callVars, exchangeVars, OkMeansAll
  <1> USE DEF TypeOK, Fresh, OkMeansAll, Goto, Finish, nonceVars, callVars,
              exchangeVars
  <1>1. ASSUME NEW c \in Calls, NEW r \in Offered, Begin(c, r)
        PROVE  OkMeansAll'
    BY <1>1 DEF Begin
  <1>2. ASSUME NEW c \in Calls, FailEarly(c)
        PROVE  OkMeansAll'
    BY <1>2 DEF FailEarly, Early
  <1>3. ASSUME NEW c \in Calls, ReadOpen(c)
        PROVE  OkMeansAll'
    BY <1>3 DEF ReadOpen
  <1>4. ASSUME NEW c \in Calls, ReadTrigger(c)
        PROVE  OkMeansAll'
    BY <1>4 DEF ReadTrigger, Early
  <1>5. ASSUME NEW c \in Calls, ReadAccount(c)
        PROVE  OkMeansAll'
    BY <1>5 DEF ReadAccount
  <1>6. ASSUME NEW c \in Calls, SignAndPost(c)
        PROVE  OkMeansAll'
    BY <1>6 DEF SignAndPost
  <1>7. ASSUME NEW c \in Calls, AnswerArrives(c)
        PROVE  OkMeansAll'
    BY <1>7 DEF AnswerArrives, Parsed
  <1>8. ASSUME NEW c \in Calls, GiveUp(c)
        PROVE  OkMeansAll'
    BY <1>8 DEF GiveUp
  <1>9. ASSUME NEW c \in Calls, Executes(c)
        PROVE  OkMeansAll'
    BY <1>9 DEF Executes, Execute, NotRun, Answers
  <1>10. ASSUME Moves
        PROVE  OkMeansAll'
    BY <1>10 DEF Moves, AccountMoves
  <1>11. ASSUME Restart
        PROVE  OkMeansAll'
    BY <1>11 DEF Restart
  <1> QED
    BY NextCases, <1>1, <1>2, <1>3, <1>4, <1>5, <1>6, <1>7, <1>8, <1>9, <1>10,
       <1>11

LEMMA Invariance == Spec => []IInv
  <1>1. Init => IInv
    <2> SUFFICES ASSUME Init PROVE IInv
      OBVIOUS
    <2> USE DEF Init
    <2>1. NoAction \in Actions
      BY DEF NoAction, Actions, Elements
    <2>2. TypeOK
      <3>1. book \in [Oids -> Views] /\ position \in Int
        BY WritesAssumption DEF Views, Live
      <3> QED
        BY <2>1, <3>1 DEF TypeOK, Labels, Answers, NotRun, Unsigned
    <2>3. NoAction.kind = "none"
      BY DEF NoAction
    <2>4. Fresh /\ NonceUse /\ Built /\ Followed
      BY <2>3, <2>2 DEF Fresh, NonceUse, Built, Followed, Tracks, NotRun,
                        Unsigned, TypeOK
    <2>5. NonceUsedOnce /\ OkMeansAll /\ CancelAllIsComplete
      BY DEF NonceUsedOnce, OkMeansAll, CancelAllIsComplete, Unsigned
    <2> QED
      BY <2>2, <2>4, <2>5 DEF IInv
  <1>2. IInv /\ [Next]_vars => IInv'
    BY TypeStep, BuiltStep, FreshStep, NonceStep, FollowStep, OkStep DEF IInv
  <1> QED
    BY <1>1, <1>2, PTL DEF Spec

(* Every variable keeps its type.                                          *)
THEOREM TypeCorrect == Spec => []TypeOK
  BY Invariance, PTL DEF IInv

(* No two actions of one process are signed with one nonce, whatever the   *)
(* clock does and however many are signed at once; an action of an earlier *)
(* process shares one only if the clock was not past it, as when it is set *)
(* back across the restart (client_trading.go:561-570).                    *)
THEOREM NoncesDiffer == Spec => []NonceUsedOnce
  BY Invariance, PTL DEF IInv

(* A batch is only reported as done when all of it is                      *)
(* (client_trading.go:691-725).                                            *)
THEOREM SuccessIsWhole == Spec => []OkMeansAll
  BY Invariance, PTL DEF IInv

(* Cancel-all misses no order that stayed where it was                     *)
(* (client_trading.go:218-262).                                            *)
THEOREM CancelsAll == Spec => []CancelAllIsComplete
  BY Invariance, PTL DEF IInv

(* A close can be late and still do no harm (client_trading.go:276-317).   *)
THEOREM ClosesReduce == Spec => CloseOnlyReduces
  <1> DEFINE Reduces ==
        \A c \in Calls :
          action[c].kind = "close" /\ executed'[c] # executed[c] =>
            \/ 0 <= position' /\ position' <= position
            \/ position <= position' /\ position' <= 0
  <1>1. IInv /\ [Next]_vars => [Reduces]_vars
    <2> SUFFICES ASSUME IInv, Next PROVE Reduces
      OBVIOUS
    <2> USE DEF nonceVars, callVars, exchangeVars
    <2>0. TypeOK /\ Built
      BY DEF IInv
    <2>1. ASSUME NEW c \in Calls, NEW r \in Offered, Begin(c, r)
          PROVE  Reduces
      BY <2>1 DEF Begin
    <2>2. ASSUME NEW c \in Calls, FailEarly(c) PROVE Reduces
      BY <2>2 DEF FailEarly
    <2>3. ASSUME NEW c \in Calls, ReadOpen(c) PROVE Reduces
      BY <2>3 DEF ReadOpen
    <2>4. ASSUME NEW c \in Calls, ReadTrigger(c) PROVE Reduces
      BY <2>4 DEF ReadTrigger
    <2>5. ASSUME NEW c \in Calls, ReadAccount(c) PROVE Reduces
      BY <2>5 DEF ReadAccount
    <2>6. ASSUME NEW c \in Calls, SignAndPost(c) PROVE Reduces
      BY <2>6 DEF SignAndPost
    <2>7. ASSUME NEW c \in Calls, AnswerArrives(c) PROVE Reduces
      BY <2>7 DEF AnswerArrives
    <2>8. ASSUME NEW c \in Calls, GiveUp(c) PROVE Reduces
      BY <2>8 DEF GiveUp
    <2>9. ASSUME NEW c \in Calls, Executes(c) PROVE Reduces
      BY <2>0, <2>9 DEF Executes, Execute, TypeOK
    <2>10. ASSUME Moves PROVE Reduces
      BY <2>10 DEF Moves, AccountMoves
    <2>11. ASSUME Restart PROVE Reduces
      BY <2>11 DEF Restart
    <2> HIDE DEF Reduces
    <2> QED
      BY NextCases, <2>0, <2>1, <2>2, <2>3, <2>4, <2>5, <2>6, <2>7, <2>8, <2>9,
         <2>10, <2>11
  <1> QED
    BY <1>1, Invariance, PTL DEF Spec, CloseOnlyReduces
-----------------------------------------------------------------------------
(* What the contract sees of a call.                                       *)
Sent == [c \in Calls |-> nonce[c] # Unsigned]
Effect == [c \in Calls |->
  IF executed[c] # NotRun THEN executed[c]
  ELSE IF answer[c] = "ok" THEN "all" ELSE "none"]
Told == [c \in Calls |->
  IF pc[c] = "done" /\ answer[c] = "none" THEN "lost" ELSE answer[c]]

CStep == [Contract!Next]_Contract!vars

LEMMA Stutters == UNCHANGED <<Sent, Effect, Told>> => CStep
  BY DEF CStep, Contract!vars, Sent, Effect, Told

(* Every step of the calls and of the exchange is one of the contract's.   *)
LEMMA ContractStep == IInv /\ [Next]_vars => CStep
  <1> SUFFICES ASSUME IInv, Next PROVE CStep
    <2>1. UNCHANGED vars => UNCHANGED <<Sent, Effect, Told>>
      BY DEF vars, nonceVars, callVars, exchangeVars, Sent, Effect, Told
    <2> QED
      BY <2>1, Stutters
  <1>0. TypeOK /\ Built /\ Fresh /\ OkMeansAll
    BY DEF IInv
  <1> USE <1>0 DEF TypeOK, Fresh, Goto, Finish, nonceVars, callVars,
              exchangeVars, Early
  <1>1. ASSUME NEW c \in Calls, NEW r \in Offered, Begin(c, r)
        PROVE  CStep
    <2>1. UNCHANGED <<Sent, Effect, Told>>
      BY <1>1 DEF Begin, Sent, Effect, Told
    <2> QED
      BY <2>1, Stutters
  <1>2. ASSUME NEW c \in Calls, FailEarly(c)
        PROVE  CStep
    <2>1. Contract!Fail(c)
      BY <1>2 DEF FailEarly, Contract!Fail
    <2> QED
      BY <2>1 DEF CStep, Contract!Next
  <1>3. ASSUME NEW c \in Calls, ReadOpen(c)
        PROVE  CStep
    <2>1. UNCHANGED <<Sent, Effect, Told>>
      BY <1>3 DEF ReadOpen, Sent, Effect, Told
    <2> QED
      BY <2>1, Stutters
  <1>4. ASSUME NEW c \in Calls, ReadTrigger(c)
        PROVE  CStep
    <2>1. CASE answer' = [answer EXCEPT ![c] = "error"]
      <3>1. Contract!Fail(c)
        BY <1>4, <2>1, ZenonT(60) DEF ReadTrigger, Contract!Fail
      <3> QED
        BY <3>1 DEF CStep, Contract!Next
    <2>2. CASE answer' = [answer EXCEPT ![c] = "ok"]
               /\ pc' = [pc EXCEPT ![c] = "done"]
      <3>1. Contract!Skip(c)
        BY <1>4, <2>2 DEF ReadTrigger, Contract!Skip
      <3> QED
        BY <3>1 DEF CStep, Contract!Next
    <2>3. CASE answer' = answer /\ pc' = [pc EXCEPT ![c] = "sign"]
      <3>1. UNCHANGED <<Sent, Effect, Told>>
        BY <1>4, <2>3 DEF ReadTrigger, Sent, Effect, Told
      <3> QED
        BY <3>1, Stutters
    <2> QED
      BY <1>4, <2>1, <2>2, <2>3 DEF ReadTrigger
  <1>5. ASSUME NEW c \in Calls, ReadAccount(c)
        PROVE  CStep
    <2>1. CASE answer' = [answer EXCEPT ![c] = "error"]
               /\ pc' = [pc EXCEPT ![c] = "done"]
      <3>1. Contract!Fail(c)
        BY <1>5, <2>1 DEF ReadAccount, Contract!Fail
      <3> QED
        BY <3>1 DEF CStep, Contract!Next
    <2>2. CASE answer' = answer /\ pc' = [pc EXCEPT ![c] = "sign"]
      <3>1. UNCHANGED <<Sent, Effect, Told>>
        BY <1>5, <2>2 DEF ReadAccount, Sent, Effect, Told
      <3> QED
        BY <3>1, Stutters
    <2> QED
      BY <1>5, <2>1, <2>2 DEF ReadAccount
  <1>6. ASSUME NEW c \in Calls, SignAndPost(c)
        PROVE  CStep
    <2>1. PICK now \in 1..MaxClock :
            nonce' = [nonce EXCEPT ![c] = NextNonce(now)]
      BY <1>6 DEF SignAndPost
    <2>2. NextNonce(now) # Unsigned
      BY NonceFacts
    <2>3. Contract!Send(c)
      BY <1>6, <2>1, <2>2 DEF SignAndPost, Contract!Send
    <2> QED
      BY <2>3 DEF CStep, Contract!Next
  <1>7. ASSUME NEW c \in Calls, AnswerArrives(c)
        PROVE  CStep
    <2>1. CASE executed[c] = "all"
      <3>1. Contract!Confirm(c)
        BY <1>7, <2>1 DEF AnswerArrives, Parsed, Contract!Confirm
      <3> QED
        BY <3>1 DEF CStep, Contract!Next
    <2>2. CASE executed[c] # "all"
      <3>1. Contract!Fail(c)
        BY <1>7, <2>2 DEF AnswerArrives, Parsed, Contract!Fail
      <3> QED
        BY <3>1 DEF CStep, Contract!Next
    <2> QED
      BY <2>1, <2>2
  <1>8. ASSUME NEW c \in Calls, GiveUp(c)
        PROVE  CStep
    <2>1. Contract!Fail(c)
      BY <1>8 DEF GiveUp, Contract!Fail
    <2> QED
      BY <2>1 DEF CStep, Contract!Next
  <1>9. ASSUME NEW c \in Calls, Executes(c)
        PROVE  CStep
    <2>1. PICK result \in Answers :
            /\ executed' = [executed EXCEPT ![c] = result]
            /\ c \in wire
            /\ UNCHANGED <<pc, nonce, answer>>
      BY <1>9 DEF Executes, Execute
    <2>2. result \in {"refused", "part", "all"} /\ result # NotRun
      BY DEF Answers, NotRun
    <2>3. executed[c] = NotRun /\ nonce[c] # Unsigned /\ answer[c] # "ok"
      BY <2>1 DEF OkMeansAll, NotRun
    <2>4. Contract!TakeEffect(c)
      BY <2>1, <2>2, <2>3 DEF Contract!TakeEffect
    <2> QED
      BY <2>4 DEF CStep, Contract!Next
  <1>10. ASSUME Moves
        PROVE  CStep
    <2>1. UNCHANGED <<Sent, Effect, Told>>
      BY <1>10 DEF Moves, AccountMoves, Sent, Effect, Told
    <2> QED
      BY <2>1, Stutters
  <1>11. ASSUME Restart
        PROVE  CStep
    <2> DEFINE dead == {c \in Calls : pc[c] \notin {"idle", "done"}}
    <2>1. dead \subseteq {c \in Calls : Told[c] = "none"}
      BY DEF Told
    <2>2. Told' = [c \in Calls |-> IF c \in dead THEN "lost" ELSE Told[c]]
      BY <1>11 DEF Restart, Told, Labels
    <2>3. UNCHANGED <<Sent, Effect>>
      BY <1>11 DEF Restart, Sent, Effect
    <2>4. Contract!Die
      BY <2>1, <2>2, <2>3 DEF Contract!Die, Sent, Effect, Told
    <2> QED
      BY <2>4 DEF CStep, Contract!Next
  <1> QED
    BY NextCases, <1>1, <1>2, <1>3, <1>4, <1>5, <1>6, <1>7, <1>8, <1>9, <1>10,
       <1>11

(* The client keeps the contract for any number of concurrent writes,      *)
(* whatever is lost, late, refused or restarted.                           *)
THEOREM Implements == Spec => ImplementsContract
  <1>1. Init => Contract!Init
    BY DEF Init, Contract!Init, Unsigned, NotRun
  <1> QED
    BY <1>1, ContractStep, Invariance, PTL
       DEF Spec, ImplementsContract, Contract!Spec, CStep
=============================================================================
