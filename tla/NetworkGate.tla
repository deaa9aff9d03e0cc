---------------------------- MODULE NetworkGate ----------------------------
(***************************************************************************)
(* The part of the HTTP server every request goes through: which network   *)
(* is active, whether trading is armed, and the read-write lock that keeps *)
(* a network switch apart from the requests in flight                      *)
(* (backend/internal/http/server.go).                                      *)
(*                                                                         *)
(* A thread is the goroutine of one request.  Every handler but the switch *)
(* holds the read lock from its first statement to its return, body        *)
(* decoding and upstream calls included; the switch decodes and validates  *)
(* first and then takes the write lock.  Payloads, validation rules and    *)
(* market data are reduced to whether they make a handler fail.  A restart *)
(* reads the configuration file again, which may have changed (Startup).   *)
(***************************************************************************)
EXTENDS RWMutex, Startup

CONSTANT Offered (* operations the clients of a run ask for                *)

WriteOps == {"createOrder", "modifyOrder", "cancelOrder",
             "cancelAllOrders", "leverage", "closePosition"}
AccountOps == {"account", "orders", "fills", "funding"}
ReadOps == AccountOps \union {"markets", "bootstrap"}
StatusOps == {"health", "networkStatus", "tradingStatus"}
ToggleOps == {"toggleOn", "toggleOff"}
SharedOps ==
  WriteOps \union ReadOps \union StatusOps \union ToggleOps \union {"stream"}
Ops == SharedOps \union {"switch"}

(* Names a client may ask to switch to: "other" is any name but the two.   *)
SwitchTargets == {Testnet, Mainnet, "other"}
Requests == [op : SharedOps, network : {"none"}]
              \union [op : {"switch"}, network : SwitchTargets]
OfferedRequests == {r \in Requests : r.op \in Offered}

ASSUME OfferedAssumption == Offered \subseteq Ops

VARIABLES
  networks,        (* Server.networks: what main bound to each network     *)
  active,          (* Server.active: the selected network                  *)
  tradingEnabled,  (* Server.tradingEnabled: trading is armed              *)
  pc,              (* where each thread is in its handler                  *)
  req,             (* the request each thread serves                       *)
  runtime,         (* the network captured by s.current(), or "none"       *)
  reply,           (* the answer it has written                            *)
  subscribed       (* per network, threads subscribed to its stream.Manager*)

gateVars == <<active, tradingEnabled, pc, req, runtime, reply, subscribed>>
vars == <<networks, gateVars, lockVars>>

(* Networks whose runtime knows an account, has complete credentials, and  *)
(* may sign.                                                               *)
AccountReady == {n \in Networks : networks[n].account # ""}
Configured == {n \in Networks : networks[n].configured}
Tradable == {n \in Networks : networks[n].canTrade}

NoRequest == [op |-> "none", network |-> "none"]
Answer(s) == [status |-> s, network |-> "none", enabled |-> FALSE]
Status(n, e) == [status |-> "ok", network |-> n, enabled |-> e]

Init ==
  /\ LockInit
  /\ networks \in Started
  /\ active = Testnet
  /\ tradingEnabled = FALSE
  /\ pc = [t \in Threads |-> "idle"]
  /\ req = [t \in Threads |-> NoRequest]
  /\ runtime = [t \in Threads |-> "none"]
  /\ reply = [t \in Threads |-> Answer("none")]
  /\ subscribed = [n \in Networks |-> {}]

Goto(t, label) == pc' = [pc EXCEPT ![t] = label]
Say(t, answer) == reply' = [reply EXCEPT ![t] = answer]
Respond(t, s) == Goto(t, "replied") /\ Say(t, Answer(s))
Capture(t) == runtime' = [runtime EXCEPT ![t] = active]

(* Thread t holds the read lock and is at the first statement after it.    *)
Entered(t, ops) == /\ pc[t] = "entry"
                   /\ req[t].op \in ops
                   /\ t \in readers
-----------------------------------------------------------------------------
(* A request arrives.  All handlers but the switch call RLock first.       *)
ReceiveShared(t, r) ==
  /\ pc[t] = "idle"
  /\ r.op # "switch"
  /\ req' = [req EXCEPT ![t] = r]
  /\ Goto(t, "entry")
  /\ RLock(t)
  /\ UNCHANGED <<active, tradingEnabled, runtime, reply, subscribed>>

(* Mutant: a switch to any name.                                           *)
MaySwitchAnywhere(n) == n = Mainnet => n \in Configured

(* networkSwitchHandler up to Lock: the name must be bound, and mainnet    *)
(* needs complete credentials.  No lock is held while this is decided.     *)
MaySwitchTo(n) == n \in Networks /\ (n = Mainnet => n \in Configured)

ReceiveSwitch(t, r) ==
  /\ pc[t] = "idle"
  /\ r.op = "switch"
  /\ req' = [req EXCEPT ![t] = r]
  /\ IF MaySwitchTo(r.network)
     THEN Goto(t, "entry") /\ Lock(t) /\ UNCHANGED reply
     ELSE /\ Goto(t, "refused")
          /\ Say(t, Answer(IF r.network \in Networks THEN "precondition"
                                                     ELSE "invalid"))
          /\ UNCHANGED lockVars
  /\ UNCHANGED <<active, tradingEnabled, runtime, subscribed>>

AnnounceSwitch(t) == Announce(t) /\ UNCHANGED gateVars

(* Mutants of the next three: a commit that does not wait for the lock, a  *)
(* switch that stays armed, one that keeps the streams of what it leaves.  *)
MayCommitUnlocked(t) == pc[t] = "entry" /\ req[t].op = "switch" /\ writer = t
StayArmed == UNCHANGED tradingEnabled
KeepStreams(n) == UNCHANGED subscribed

MayCommit(t) == pc[t] = "entry" /\ req[t].op = "switch" /\ HoldsWriteLock(t)
Disarm == tradingEnabled' = FALSE
ResetStreams(n) ==
  subscribed' = IF active = n THEN subscribed
                ELSE [subscribed EXCEPT ![active] = {}]

(* The switch under the write lock: disarm, swap the runtime, and end the  *)
(* streams of the network that is left.                                    *)
CommitSwitch(t) ==
  /\ MayCommit(t)
  /\ Disarm
  /\ active' = req[t].network
  /\ runtime' = [runtime EXCEPT ![t] = req[t].network]
  /\ ResetStreams(req[t].network)
  /\ Goto(t, "status")
  /\ UNCHANGED <<req, reply, lockVars>>
-----------------------------------------------------------------------------
(* createOrder .. closePosition: the account check and requireTrading.     *)
AdmitWrite(t) ==
  /\ Entered(t, WriteOps)
  /\ Capture(t)
  /\ IF active \notin AccountReady \/ active \notin Tradable
     THEN Respond(t, "precondition")
     ELSE IF ~tradingEnabled
     THEN Respond(t, "disabled")
     ELSE Goto(t, "admitted") /\ UNCHANGED reply
  /\ UNCHANGED <<active, tradingEnabled, req, subscribed, lockVars>>

(* Decoding, validation and market lookup.  Cancelling everything has none *)
(* of them; the others may find the request invalid.                       *)
ValidateWrite(t) ==
  /\ pc[t] = "admitted"
  /\ \/ Goto(t, "valid") /\ UNCHANGED reply
     \/ req[t].op # "cancelAllOrders" /\ Respond(t, "invalid")
  /\ UNCHANGED <<active, tradingEnabled, req, runtime, subscribed, lockVars>>

(* The client of the captured runtime signs the action and posts it.       *)
PostAction(t) ==
  /\ pc[t] = "valid"
  /\ Goto(t, "posted")
  /\ UNCHANGED <<active, tradingEnabled, req, runtime, reply, subscribed,
                 lockVars>>

(* The exchange answers, or the call fails or runs out of its 8 seconds.   *)
ActionReturns(t) ==
  /\ pc[t] = "posted"
  /\ \E s \in {"ok", "upstream"} : Respond(t, s)
  /\ UNCHANGED <<active, tradingEnabled, req, runtime, subscribed, lockVars>>
-----------------------------------------------------------------------------
(* Mutant of the check of a toggle: it is made when disarming.             *)
MayToggleSwapped(t) == req[t].op = "toggleOff" => active \in Tradable
MayToggle(t) == req[t].op = "toggleOn" => active \in Tradable

(* tradingToggleHandler: the body is decoded under the read lock; arming   *)
(* is refused on a network that cannot sign.                               *)
Toggle(t) ==
  /\ Entered(t, ToggleOps)
  /\ \/ /\ Respond(t, "invalid")
        /\ UNCHANGED <<tradingEnabled, runtime>>
     \/ /\ Capture(t)
        /\ IF ~MayToggle(t)
           THEN Respond(t, "precondition") /\ UNCHANGED tradingEnabled
           ELSE /\ tradingEnabled' = (req[t].op = "toggleOn")
                /\ Goto(t, "status")
                /\ UNCHANGED reply
  /\ UNCHANGED <<active, req, subscribed, lockVars>>

(* healthHandler, networkStatusHandler, tradingStatusHandler up to the     *)
(* load of the toggle; health calls the exchange in between.               *)
BeginStatus(t) ==
  /\ Entered(t, StatusOps)
  /\ Capture(t)
  /\ Goto(t, "status")
  /\ UNCHANGED <<active, tradingEnabled, req, reply, subscribed, lockVars>>

(* The status document: the captured network and the toggle as it is now.  *)
WriteStatus(t) ==
  /\ pc[t] = "status"
  /\ Say(t, Status(runtime[t], tradingEnabled))
  /\ Goto(t, "replied")
  /\ UNCHANGED <<active, tradingEnabled, req, runtime, subscribed, lockVars>>

(* The read handlers: some need an account; orders and bootstrap also      *)
(* validate their query.                                                   *)
BeginRead(t) ==
  /\ Entered(t, ReadOps)
  /\ Capture(t)
  /\ IF req[t].op \in AccountOps /\ active \notin AccountReady
     THEN Respond(t, "precondition")
     ELSE \/ Goto(t, "reading") /\ UNCHANGED reply
          \/ req[t].op \in {"orders", "bootstrap"} /\ Respond(t, "invalid")
  /\ UNCHANGED <<active, tradingEnabled, req, subscribed, lockVars>>

ReadReturns(t) ==
  /\ pc[t] = "reading"
  /\ \E s \in {"ok", "upstream"} : Respond(t, s)
  /\ UNCHANGED <<active, tradingEnabled, req, runtime, subscribed, lockVars>>
-----------------------------------------------------------------------------
(* openStreamSnapshot: subscribe to the active network's manager, then     *)
(* take the snapshot; a failed snapshot gives the subscription back.       *)
OpenStream(t) ==
  /\ Entered(t, {"stream"})
  /\ Capture(t)
  /\ subscribed' = [subscribed EXCEPT ![active] = @ \union {t}]
  /\ Goto(t, "snapshot")
  /\ UNCHANGED <<active, tradingEnabled, req, reply, lockVars>>

SnapshotReturns(t) ==
  /\ pc[t] = "snapshot"
  /\ \/ /\ Goto(t, "streaming")
        /\ RUnlock(t)
        /\ UNCHANGED <<reply, subscribed>>
     \/ /\ Respond(t, "upstream")
        /\ subscribed' = [subscribed EXCEPT ![runtime[t]] = @ \ {t}]
        /\ UNCHANGED lockVars
  /\ UNCHANGED <<active, tradingEnabled, req, runtime>>

(* streamHandler returns: the manager closed the subscription, or the      *)
(* client left.  The deferred Close is a no-op in the first case.          *)
LeaveStream(t) ==
  /\ pc[t] = "streaming"
  /\ subscribed' = [subscribed EXCEPT ![runtime[t]] = @ \ {t}]
  /\ Goto(t, "idle")
  /\ req' = [req EXCEPT ![t] = NoRequest]
  /\ runtime' = [runtime EXCEPT ![t] = "none"]
  /\ UNCHANGED <<active, tradingEnabled, reply, lockVars>>

StreamClosed(t) == /\ pc[t] = "streaming"
                   /\ t \notin subscribed[runtime[t]]
                   /\ LeaveStream(t)
-----------------------------------------------------------------------------
(* The handler returns and its deferred unlock runs.                       *)
Return(t, label) ==
  /\ pc[t] = label
  /\ Goto(t, "idle")
  /\ req' = [req EXCEPT ![t] = NoRequest]
  /\ runtime' = [runtime EXCEPT ![t] = "none"]
  /\ Say(t, Answer("none"))
  /\ UNCHANGED <<active, tradingEnabled, subscribed>>

(* Mutant: the lock is released by hand, and not where a call failed.      *)
ReturnSharedLeaking(t) ==
  /\ req[t].op # "switch"
  /\ IF reply[t].status = "upstream" THEN UNCHANGED lockVars ELSE RUnlock(t)
  /\ Return(t, "replied")

ReturnShared(t) == req[t].op # "switch" /\ RUnlock(t) /\ Return(t, "replied")
ReturnSwitch(t) == req[t].op = "switch" /\ Unlock(t) /\ Return(t, "replied")
ReturnRefused(t) == Return(t, "refused") /\ UNCHANGED lockVars

(* The process dies and is started again, perhaps from another file:       *)
(* nothing survives it.                                                    *)
Restart ==
  /\ networks' \in Started
  /\ readers' = {} /\ blockedReaders' = {}
  /\ writer' = NoThread /\ blockedWriters' = {}
  /\ active' = Testnet
  /\ tradingEnabled' = FALSE
  /\ pc' = [t \in Threads |-> "idle"]
  /\ req' = [t \in Threads |-> NoRequest]
  /\ runtime' = [t \in Threads |-> "none"]
  /\ reply' = [t \in Threads |-> Answer("none")]
  /\ subscribed' = [n \in Networks |-> {}]
-----------------------------------------------------------------------------
(* What a handler does of its own accord once its request has arrived.     *)
HandlerStep(t) ==
  \/ CommitSwitch(t)
  \/ AdmitWrite(t) \/ ValidateWrite(t) \/ PostAction(t) \/ ActionReturns(t)
  \/ Toggle(t) \/ BeginStatus(t) \/ WriteStatus(t)
  \/ BeginRead(t) \/ ReadReturns(t)
  \/ OpenStream(t) \/ SnapshotReturns(t) \/ StreamClosed(t)
  \/ ReturnShared(t) \/ ReturnSwitch(t) \/ ReturnRefused(t)

Serve ==
  \E t \in Threads :
    \/ \E r \in OfferedRequests : ReceiveShared(t, r) \/ ReceiveSwitch(t, r)
    \/ AnnounceSwitch(t)
    \/ HandlerStep(t)
    \/ LeaveStream(t)

Next == (Serve /\ UNCHANGED networks) \/ Restart

(* Every blocking call of a handler is bounded (http.Server.ReadTimeout,   *)
(* the context timeouts, the exchange client's own timeout), so a handler  *)
(* that can run does.  Go's mutex hands itself to the longest waiter, so a *)
(* queued switch is not overtaken for ever: strong fairness.  Nothing is   *)
(* assumed of the clients or of restarts.                                  *)
Fairness ==
  \A t \in Threads : /\ WF_vars(HandlerStep(t) /\ UNCHANGED networks)
                     /\ SF_vars(AnnounceSwitch(t) /\ UNCHANGED networks)

SafetySpec == Init /\ [][Next]_vars
Spec == SafetySpec /\ Fairness
-----------------------------------------------------------------------------
(* Threads whose write passed the gate and has not been answered.          *)
InFlight(t) == pc[t] \in {"admitted", "valid", "posted"}

Labels == {"idle", "entry", "refused", "status", "admitted", "valid", "posted",
           "reading", "snapshot", "streaming", "replied"}
Answers == [status : {"none", "ok", "invalid", "precondition", "disabled",
                      "upstream"},
            network : Networks \union {"none"}, enabled : BOOLEAN]

(* Every variable has its type.                                            *)
TypeOK ==
  /\ LockTypeOK
  /\ networks \in Started
  /\ active \in Networks
  /\ tradingEnabled \in BOOLEAN
  /\ pc \in [Threads -> Labels]
  /\ req \in [Threads -> Requests \union {NoRequest}]
  /\ runtime \in [Threads -> Networks \union {"none"}]
  /\ reply \in [Threads -> Answers]
  /\ subscribed \in [Networks -> SUBSET Threads]

(* A write that passed the gate is signed and sent by the client of the    *)
(* network that is still selected, and that network may sign: a write      *)
(* cannot cross from one network configuration into the other              *)
(* (docs/api-contract.md:87-89, server.go:255-257).                        *)
WritesStayOnTheirNetwork ==
  \A t \in Threads : InFlight(t) => runtime[t] = active /\ active \in Tradable

(* Trading is never armed on a network whose runtime cannot sign, whatever *)
(* the order of toggles and switches (docs/api-contract.md:19-20).         *)
ArmedOnlyWhereTradable == tradingEnabled => active \in Tradable

(* Mainnet is never selected without complete credentials, not even after  *)
(* a restart (docs/api-contract.md:14-15).                                 *)
MainnetNeedsCredentials == active = Mainnet => Mainnet \in Configured

(* Whatever the file and its edits between restarts, a network that can be *)
(* armed signs with the key of its own wallet, for its own account, and    *)
(* sends to its own exchange, old settings mixed with new ones included    *)
(* (README.md:81-98, config.go:258-291).                                   *)
SignersFitTheirNetwork ==
  \A n \in Tradable : /\ networks[n].url = n
                      /\ Derives(networks[n].key, networks[n].wallet)
                      /\ networks[n].vault \in {"", networks[n].account}

(* No stream stays subscribed to a network that is not selected, even when *)
(* it was opened while the switch was waiting (docs/api-contract.md:109).  *)
NoStreamOnInactiveNetwork ==
  \A n \in Networks : n # active => subscribed[n] = {}

(* A status document that is about to be sent names the selected network,  *)
(* shows trading armed only where it can be, and a switch never reports    *)
(* trading armed.                                                          *)
StatusIsOfOneConfiguration ==
  \A t \in Threads : pc[t] = "replied" /\ reply[t].network # "none" =>
    /\ reply[t].network = active
    /\ reply[t].enabled => active \in Tradable
    /\ req[t].op = "switch" => ~reply[t].enabled

(* Every request is answered: a switch gets its turn however many requests *)
(* keep coming, and the requests it holds up get theirs.                   *)
EveryRequestIsAnswered ==
  \A t \in Threads : pc[t] \notin {"idle", "streaming"}
                       ~> pc[t] \in {"idle", "streaming"}

(* A stream of a network that is no longer selected ends, whether or not   *)
(* its client leaves (docs/api-contract.md:109-110).                       *)
StreamsFollowTheNetwork ==
  \A t \in Threads : pc[t] = "streaming" /\ runtime[t] # active
                       ~> pc[t] # "streaming"

(* The contract of the gate, to which every step of the handlers maps.     *)
Contract == INSTANCE GateContract WITH
  Clients <- Threads,
  network <- active,
  armed <- tradingEnabled,
  writing <- [t \in Threads |-> IF InFlight(t) THEN runtime[t] ELSE "none"],
  streams <- subscribed[active],
  tradable <- Tradable

(* The handlers implement the contract: arming, switching and writing      *)
(* appear to happen one at a time, and only as the contract allows.        *)
ImplementsContract == Contract!Spec
=============================================================================
