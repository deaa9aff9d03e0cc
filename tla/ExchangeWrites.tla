--------------------------- MODULE ExchangeWrites ---------------------------
(***************************************************************************)
(* The writes of one network's signing client                              *)
(* (backend/internal/exchange/client_trading.go) against an exchange whose *)
(* account changes meanwhile.                                              *)
(*                                                                         *)
(* A call is one write from the handler's call of the client to its        *)
(* answer: it reads markets, orders or the position, builds an action,     *)
(* takes a nonce, signs and posts it once.  The exchange executes a posted *)
(* action at any later time or never, also when the caller has given up,   *)
(* and its reply can be lost.  Prices and wire formats are in OrderRules.  *)
(*                                                                         *)
(* The exchange is not part of the repository: it is modelled from how the *)
(* code uses it (oids, views, reduce-only, one status per element).        *)
(***************************************************************************)
EXTENDS Integers, FiniteSets

CONSTANTS
  Calls,       (* the writes of a run, each made once                      *)
  Oids,        (* order ids of the account                                 *)
  Symbols,     (* symbols an order may be of                               *)
  SymbolOf,    (* the symbol of each order id                              *)
  Listed,      (* symbols that are perpetual markets                       *)
  Percents,    (* what a close may ask for (server.go:30)                  *)
  Offered,     (* the requests of a run                                    *)
  Positions,   (* bound: sizes the position that is closed may have        *)
  MaxClock     (* bound of what the clock may show, in milliseconds        *)

VARIABLES
  lastNonce,  (* safeClient.lastNonce                                      *)
  ours,       (* history: the calls this process has signed                *)
  setBack,    (* history: while it signed, the clock was not past a nonce  *)
              (* of an earlier process                                     *)
  pc,         (* where each call is                                        *)
  req,        (* what it was called for                                    *)
  seen,       (* what its reads have returned                              *)
  action,     (* the action it has built, until that was executed          *)
  nonce,      (* the nonce it was signed with, or Unsigned                 *)
  answer,     (* what it has returned                                      *)
  wire,       (* calls whose action is on its way to the exchange          *)
  book,       (* exchange: per order id, the view it is in                 *)
  position,   (* exchange: signed size of the position that is closed      *)
  executed,   (* exchange: per call, what came of its action               *)
  steady      (* history: orders live, in one view, since a call began     *)

callVars == <<pc, req, seen, action, nonce, answer, steady>>
exchangeVars == <<book, position, executed>>
nonceVars == <<lastNonce, ours, setBack>>
vars == <<nonceVars, wire, callVars, exchangeVars>>

Live == {"open", "trigger"}
Views == Live \union {"unused", "gone"}
Every == "every symbol"

Unsigned == 0

(* The answers of the exchange: every element of the action succeeded,     *)
(* the action was accepted but some element failed, all was refused.       *)
Answers == {"all", "part", "refused"}
NotRun == "none"
NoAction == [kind |-> "none", targets |-> {}, side |-> 0, size |-> 0,
             reduceOnly |-> FALSE]
NoRequest == [op |-> "none", symbol |-> Every, oid |-> "none", percent |-> 100]

(* What the handlers call the client with.  Only cancel-all may name no    *)
(* symbol; it is the only operation whose symbol matters here.             *)
Requests ==
  [op : {"place", "placeAttached", "leverage"}, symbol : {Every},
   oid : {"none"}, percent : {100}]
    \union [op : {"modify", "cancel"}, symbol : {Every}, oid : Oids,
            percent : {100}]
    \union [op : {"cancelAll"}, symbol : Symbols \union {Every},
            oid : {"none"}, percent : {100}]
    \union [op : {"close"}, symbol : {Every}, oid : {"none"},
            percent : Percents]

ASSUME WritesAssumption ==
  /\ SymbolOf \in [Oids -> Symbols]
  /\ Listed \subseteq Symbols
  /\ Percents \subseteq 1..100
  /\ Offered \subseteq Requests
  /\ Positions \subseteq Int
  /\ MaxClock \in Nat

Init ==
  /\ lastNonce = 0 /\ ours = {} /\ setBack = FALSE
  /\ pc = [c \in Calls |-> "idle"]
  /\ req = [c \in Calls |-> NoRequest]
  /\ seen = [c \in Calls |-> {}]
  /\ action = [c \in Calls |-> NoAction]
  /\ nonce = [c \in Calls |-> Unsigned]
  /\ answer = [c \in Calls |-> "none"]
  /\ wire = {}
  /\ book \in [Oids -> {"unused", "open", "trigger"}]
  /\ position \in Positions
  /\ executed = [c \in Calls |-> NotRun]
  /\ steady = [c \in Calls |-> {}]

Goto(c, label) == pc' = [pc EXCEPT ![c] = label]
Finish(c, a) == Goto(c, "done") /\ answer' = [answer EXCEPT ![c] = a]
Abs(n) == IF n < 0 THEN -n ELSE n
Meant(r, o) == r.symbol \in {Every, SymbolOf[o]}
-----------------------------------------------------------------------------
(* PlaceOrder, with its take-profit or stop-loss as a second element of    *)
(* the batch; ModifyOrder, CancelOrder, SetLeverage.                       *)
Simple(r) ==
  CASE r.op = "place" ->
         [NoAction EXCEPT !.kind = "order", !.targets = {"parent"}]
    [] r.op = "placeAttached" ->
         [NoAction EXCEPT !.kind = "order", !.targets = {"parent", "child"}]
    [] r.op \in {"modify", "cancel"} ->
         [NoAction EXCEPT !.kind = r.op, !.targets = {r.oid}]
    [] r.op = "leverage" ->
         [NoAction EXCEPT !.kind = "leverage", !.targets = {"leverage"}]
    [] OTHER -> NoAction

(* A handler calls the client, which reads the markets; two operations go  *)
(* on reading.                                                             *)
Begin(c, r) ==
  /\ pc[c] = "idle"
  /\ Goto(c, CASE r.op = "cancelAll" -> "readOpen"
               [] r.op = "close" -> "readAccount"
               [] OTHER -> "sign")
  /\ req' = [req EXCEPT ![c] = r]
  /\ action' = [action EXCEPT ![c] = Simple(r)]
  /\ steady' = [steady EXCEPT ![c] =
       {o \in Oids : r.op = "cancelAll" /\ book[o] \in Live /\ Meant(r, o)}]
  /\ UNCHANGED <<nonceVars, seen, nonce, answer, wire,
                 exchangeVars>>

(* Any read can fail, that of the markets among them, and so can building  *)
(* or signing the action; then nothing was posted.                         *)
FailEarly(c) ==
  /\ pc[c] \in {"readOpen", "readTrigger", "readAccount", "sign"}
  /\ Finish(c, "error")
  /\ action' = [action EXCEPT ![c] = NoAction]
  /\ UNCHANGED <<nonceVars, req, seen, nonce, wire,
                 steady, exchangeVars>>

(* CancelAllOrders asks for the open orders and then for the triggers.     *)
(* Orders sends the same request both times, and keeps of the answer what  *)
(* is in the view it was asked for.                                        *)
ReadOpen(c) ==
  /\ pc[c] = "readOpen"
  /\ Goto(c, "readTrigger")
  /\ seen' = [seen EXCEPT ![c] = {o \in Oids : book[o] = "open"}]
  /\ UNCHANGED <<nonceVars, req, action, nonce, answer, wire,
                 steady, exchangeVars>>

(* Mutants of the batch: of the open orders alone, of any symbol.          *)
BatchOfOpen(c, triggers) ==
  {o \in seen[c] : Meant(req[c], o)}

(* The orders of both reads, of the symbol asked for, each once.           *)
Batch(c, triggers) ==
  {o \in seen[c] \union triggers : Meant(req[c], o)}

(* An order that is not of a perpetual market fails the whole call; with   *)
(* nothing to cancel it answers without posting.                           *)
ReadTrigger(c) ==
  LET batch == Batch(c, {o \in Oids : book[o] = "trigger"}) IN
  /\ pc[c] = "readTrigger"
  /\ IF \E o \in batch : SymbolOf[o] \notin Listed
     THEN Finish(c, "error") /\ UNCHANGED action
     ELSE IF batch = {}
     THEN Finish(c, "ok") /\ UNCHANGED action
     ELSE /\ Goto(c, "sign")
          /\ action' = [action EXCEPT ![c] = [NoAction EXCEPT
               !.kind = "cancel", !.targets = batch]]
          /\ UNCHANGED answer
  /\ seen' = [seen EXCEPT ![c] = {}]
  /\ UNCHANGED <<nonceVars, req, nonce, wire, steady,
                 exchangeVars>>

(* Mutant: of the signed size.                                             *)
SizeOfSigned(held, percent) == (held * percent) \div 100

(* percentageOfDecimal, in units of the market's size precision.           *)
CloseSize(held, percent) == (Abs(held) * percent) \div 100

(* Mutant: not reduce-only.                                                *)
CloseOrderPlain(held, percent) ==
  [kind |-> "close", targets |-> {"close"}, size |-> CloseSize(held, percent),
   side |-> IF held > 0 THEN -1 ELSE 1, reduceOnly |-> FALSE]

(* A reduce-only order on the other side, of a share of the position read. *)
CloseOrder(held, percent) ==
  [kind |-> "close", targets |-> {"close"}, size |-> CloseSize(held, percent),
   side |-> IF held > 0 THEN -1 ELSE 1, reduceOnly |-> TRUE]

(* ClosePosition: no position, or too small a share of it, is an error.    *)
ReadAccount(c) ==
  /\ pc[c] = "readAccount"
  /\ IF CloseSize(position, req[c].percent) = 0
     THEN Finish(c, "error") /\ UNCHANGED action
     ELSE /\ Goto(c, "sign")
          /\ action' = [action EXCEPT ![c] =
                          CloseOrder(position, req[c].percent)]
          /\ UNCHANGED answer
  /\ UNCHANGED <<nonceVars, req, seen, nonce, wire,
                 steady, exchangeVars>>
-----------------------------------------------------------------------------
(* Mutant: the clock alone.                                                *)
NonceOfClock(now) == now

(* nextNonce: what the clock shows, unless that was used already.          *)
NextNonce(now) == IF now <= lastNonce THEN lastNonce + 1 ELSE now

(* What earlier processes have signed, and the clock is not past.          *)
NotPast(now) == {d \in Calls \ ours : now <= nonce[d]}

(* signAndPost.  time.Now may show anything, also less than before.        *)
(* Nothing posts an action a second time.                                  *)
SignAndPost(c) ==
  /\ pc[c] = "sign"
  /\ \E now \in 1..MaxClock :
       /\ lastNonce' = NextNonce(now)
       /\ nonce' = [nonce EXCEPT ![c] = NextNonce(now)]
       /\ setBack' = (setBack \/ NotPast(now) # {})
  /\ ours' = ours \union {c}
  /\ wire' = wire \union {c}
  /\ Goto(c, "posted")
  /\ UNCHANGED <<req, seen, action, answer, steady, exchangeVars>>

(* Mutant: the statuses of the elements are not looked at.                 *)
ParsedStatus(result) == IF result = "refused" THEN "error" ELSE "ok"

(* parseWriteResponse: one failed element makes the whole answer an error. *)
Parsed(result) == IF result = "all" THEN "ok" ELSE "error"

(* The reply comes back; one that is lost never does.                      *)
AnswerArrives(c) ==
  /\ pc[c] = "posted"
  /\ executed[c] # NotRun
  /\ Finish(c, Parsed(executed[c]))
  /\ UNCHANGED <<nonceVars, req, seen, action, nonce, wire,
                 steady, exchangeVars>>

(* Mutant: a call that timed out tries again.                              *)
GiveUpAndRetry(c) ==
  /\ pc[c] = "posted"
  /\ Goto(c, "sign")
  /\ UNCHANGED <<nonceVars, req, seen, action, nonce, answer,
                 wire, steady, exchangeVars>>

(* The context ends, the connection breaks, the status is not 2xx or the   *)
(* body does not parse: an error, whatever became of the action.           *)
GiveUp(c) ==
  /\ pc[c] = "posted"
  /\ Finish(c, "error")
  /\ UNCHANGED <<nonceVars, req, seen, action, nonce, wire,
                 steady, exchangeVars>>
-----------------------------------------------------------------------------
(* The exchange executes a posted action, or never does: it was lost.      *)
Execute(c, result, newBook, newPosition) ==
  /\ c \in wire
  /\ wire' = wire \ {c}
  /\ action' = [action EXCEPT ![c] = NoAction]
  /\ executed' = [executed EXCEPT ![c] = result]
  /\ book' = newBook /\ position' = newPosition
  /\ UNCHANGED <<nonceVars, pc, req, seen, nonce, answer,
                 steady>>

(* Whether every order of a cancel or modify can still be changed.         *)
AllLive(a) == \A o \in a.targets : book[o] \in Live

(* All of an action may be refused, and a modify or the leverage may fail. *)
Refuse(c) == Execute(c, "refused", book, position)

ExecuteChange(c) ==
  /\ action[c].kind \in {"modify", "leverage"}
  /\ \E result \in {"all", "part"} :
       /\ result = "all" /\ action[c].kind = "modify" => AllLive(action[c])
       /\ Execute(c, result, book, position)

ExecuteCancel(c) ==
  /\ action[c].kind = "cancel"
  /\ Execute(c, IF AllLive(action[c]) THEN "all" ELSE "part",
             [o \in Oids |-> IF o \in action[c].targets /\ book[o] \in Live
                             THEN "gone" ELSE book[o]], position)

(* A parent rests or is filled, a child waits for its trigger; either may  *)
(* be turned down alone.  One order id stands for what came of them.       *)
ExecuteOrder(c) ==
  /\ action[c].kind = "order"
  /\ \E o \in Oids, result \in {"all", "part"}, view \in Views :
       /\ book[o] = "unused"
       /\ result = "all" => view # "unused"
       /\ Execute(c, result, [book EXCEPT ![o] = view], position)

(* A close fills up to its size, rests, or is turned down; a reduce-only   *)
(* order can only take from a position on the other side.                  *)
Reducible(a) ==
  IF ~a.reduceOnly THEN a.size
  ELSE IF a.side * position >= 0 THEN 0
  ELSE IF a.size < Abs(position) THEN a.size ELSE Abs(position)

ExecuteClose(c) ==
  LET a == action[c] IN
  /\ a.kind = "close"
  /\ \E filled \in 0..Reducible(a), result \in {"all", "part"} :
       /\ filled > 0 => result = "all"
       /\ Execute(c, result, book, position + a.side * filled)

(* The account changes by itself: a trigger fires, an order is filled or   *)
(* expires, the position moves.  Whoever watches for steady orders notes   *)
(* the change.                                                             *)
AccountMoves(newBook, newPosition) ==
  /\ book' = newBook /\ position' = newPosition
  /\ steady' = [c \in Calls |->
                  IF pc[c] \in {"readOpen", "readTrigger"}
                  THEN {o \in steady[c] : newBook[o] = book[o]} ELSE steady[c]]
  /\ UNCHANGED <<nonceVars, wire, pc, req, seen,
                 action, nonce, answer, executed>>

Fire(o) == /\ book[o] = "trigger"
           /\ AccountMoves([book EXCEPT ![o] = "open"], position)
Leave(o) == /\ book[o] \in Live
            /\ AccountMoves([book EXCEPT ![o] = "gone"], position)
Drift == \E p \in Positions : AccountMoves(book, p)
-----------------------------------------------------------------------------
(* The backend stops and starts again, whatever the clock shows; what it   *)
(* posted is still on its way.  Nothing keeps the last nonce.              *)
Restart ==
  /\ lastNonce' = 0 /\ ours' = {} /\ setBack' = FALSE
  /\ pc' = [c \in Calls |-> IF pc[c] = "idle" THEN "idle" ELSE "done"]
  /\ answer' = [c \in Calls |-> IF pc[c] \in {"idle", "done"} THEN answer[c]
                                ELSE "none"]
  /\ action' = [c \in Calls |-> IF c \in wire THEN action[c] ELSE NoAction]
  /\ UNCHANGED <<wire, req, seen, nonce, steady, exchangeVars>>

CallStep(c) ==
  \/ FailEarly(c) \/ ReadOpen(c) \/ ReadTrigger(c) \/ ReadAccount(c)
  \/ SignAndPost(c) \/ AnswerArrives(c) \/ GiveUp(c)

ExchangeStep(c) ==
  \/ Refuse(c) \/ ExecuteCancel(c) \/ ExecuteChange(c) \/ ExecuteOrder(c)
  \/ ExecuteClose(c)

Next ==
  \/ \E c \in Calls : \/ \E r \in Offered : Begin(c, r)
                      \/ CallStep(c)
                      \/ ExchangeStep(c)
  \/ \E o \in Oids : Fire(o) \/ Leave(o)
  \/ Drift \/ Restart

Spec == Init /\ [][Next]_vars
-----------------------------------------------------------------------------
Labels == {"idle", "readOpen", "readTrigger", "readAccount", "sign",
           "posted", "done"}
Elements == Oids \union {"parent", "child", "leverage", "close"}
Actions == [kind : {"none", "order", "modify", "cancel", "leverage", "close"},
            targets : SUBSET Elements, side : {-1, 0, 1}, size : Nat,
            reduceOnly : BOOLEAN]

(* Every variable has its type.                                            *)
TypeOK ==
  /\ lastNonce \in Nat /\ ours \subseteq Calls /\ setBack \in BOOLEAN
  /\ pc \in [Calls -> Labels]
  /\ req \in [Calls -> Requests \union {NoRequest}]
  /\ seen \in [Calls -> SUBSET Oids]
  /\ action \in [Calls -> Actions]
  /\ nonce \in [Calls -> Nat]
  /\ answer \in [Calls -> {"none", "ok", "error"}]
  /\ wire \subseteq Calls
  /\ book \in [Oids -> Views]
  /\ position \in Int
  /\ executed \in [Calls -> Answers \union {NotRun}]
  /\ steady \in [Calls -> SUBSET Oids]

(* No action that this process signed shares its nonce with another one of *)
(* this process, whatever the clock does, several writes in a millisecond  *)
(* and a clock set back included.  Nor does it with one that an earlier    *)
(* process signed, unless the clock was not past that nonce, as when it is *)
(* set back across the restart: lastNonce starts again from 0, and only    *)
(* the clock keeps the two processes apart (client_trading.go:561-570).    *)
NonceUsedOnce ==
  \A c \in ours, d \in Calls :
    c # d /\ nonce[d] # Unsigned /\ (d \in ours \/ ~setBack) =>
      nonce[c] # nonce[d]

(* "ok" after a batch means that every element of it succeeded: a child    *)
(* order or one of many cancels that failed is never reported as success   *)
(* (client_trading.go:691-725).                                            *)
OkMeansAll ==
  \A c \in Calls : answer[c] = "ok" /\ nonce[c] # Unsigned =>
    executed[c] = "all"

(* When cancel-all answers "ok", every order it was meant for that was     *)
(* live, in one view, from its start to its last read is gone, although    *)
(* the two views were read one after the other and the account kept moving *)
(* (docs/api-contract.md:30).  An order that stops being a trigger between *)
(* the two reads would be in neither, and is not covered.                  *)
CancelAllIsComplete ==
  \A c \in Calls : answer[c] = "ok" /\ req[c].op = "cancelAll" =>
    \A o \in steady[c] : book[o] = "gone"

(* However much the position moved since it was read, and whatever was     *)
(* closed in the meantime, a close never turns it around nor adds to it.   *)
CloseOnlyReduces ==
  [][\A c \in Calls : action[c].kind = "close" /\ executed'[c] # executed[c] =>
       \/ 0 <= position' /\ position' <= position
       \/ position <= position' /\ position' <= 0]_vars

(* What a caller may rely on, to which every step of the calls maps.       *)
Contract == INSTANCE WriteContract WITH
  sent <- [c \in Calls |-> nonce[c] # Unsigned],
  effect <- [c \in Calls |->
    IF executed[c] # NotRun THEN executed[c]
    ELSE IF answer[c] = "ok" THEN "all" ELSE "none"],
  told <- [c \in Calls |->
    IF pc[c] = "done" /\ answer[c] = "none" THEN "lost" ELSE answer[c]]

(* The calls implement the contract: an action takes effect once at most,  *)
(* only after it was sent, and "ok" is only said of a full effect.         *)
ImplementsContract == Contract!Spec
=============================================================================
