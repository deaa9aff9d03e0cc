------------------------- MODULE NetworkGate_proofs -------------------------
(***************************************************************************)
(* Proofs about NetworkGate for any threads and any configuration files.   *)
(*                                                                         *)
(* The argument: whoever works under a lock holds it (LockUse).  A switch  *)
(* therefore runs alone, and whatever a handler captured when it entered   *)
(* is still selected while it works (GateUse).  The safety properties and  *)
(* the steps of the contract follow from the two.                          *)
(***************************************************************************)
EXTENDS NetworkGate, TLAPS

(* Labels at which a handler works under the lock.                         *)
Working == {"status", "admitted", "valid", "posted", "reading", "snapshot",
            "replied"}

(* A thread that works under the lock holds it, a switch exclusively.      *)
LockUse ==
  \A t \in Threads : pc[t] \in Working =>
    IF req[t].op = "switch" THEN writer = t /\ readers = {} ELSE t \in readers

(* What a handler has captured and checked still holds while it works.     *)
GateUse ==
  \A t \in Threads :
    /\ pc[t] \in Working \ {"replied"} => runtime[t] = active
    /\ pc[t] \in {"admitted", "valid", "posted"}
         => active \in Tradable /\ req[t].op # "switch"
    /\ pc[t] \in {"reading", "snapshot", "streaming"} => req[t].op # "switch"
    /\ pc[t] = "streaming" => runtime[t] \in Networks
    /\ pc[t] = "entry" /\ req[t].op = "switch" => MaySwitchTo(req[t].network)
    /\ pc[t] = "status" /\ req[t].op = "switch" => ~tradingEnabled

(* The inductive invariant.                                                *)
IInv ==
  /\ TypeOK
  /\ LockUse
  /\ GateUse
  /\ ArmedOnlyWhereTradable
  /\ MainnetNeedsCredentials
  /\ NoStreamOnInactiveNetwork
  /\ StatusIsOfOneConfiguration

USE DEF Testnet, Mainnet

(* What a request finds of the networks the server was started with.       *)
Kept == /\ networks' = networks
        /\ Tradable' = Tradable
        /\ Configured' = Configured
        /\ AccountReady' = AccountReady

LEMMA NetworksKept == UNCHANGED networks => Kept
  BY DEF Kept, Tradable, Configured, AccountReady

(* Both networks are offered, whichever may trade.                         *)
LEMMA NetworkFacts == /\ Testnet \in Networks
                      /\ Networks = {Testnet, Mainnet}
                      /\ Tradable \subseteq Networks
                      /\ Tradable' \subseteq Networks
  BY DEF Networks, Tradable

(* The steps of a thread, as the proofs split them.                        *)
LEMMA NextCases ==
  ASSUME NEW ACTION P, Next,
         ASSUME NEW t \in Threads, NEW r \in Requests,
                ReceiveShared(t, r), Kept
         PROVE  P,
         ASSUME NEW t \in Threads, NEW r \in Requests,
                ReceiveSwitch(t, r), Kept
         PROVE  P,
         ASSUME NEW t \in Threads, AnnounceSwitch(t), Kept PROVE P,
         ASSUME NEW t \in Threads, CommitSwitch(t), Kept PROVE P,
         ASSUME NEW t \in Threads, AdmitWrite(t), Kept PROVE P,
         ASSUME NEW t \in Threads, ValidateWrite(t), Kept PROVE P,
         ASSUME NEW t \in Threads, PostAction(t), Kept PROVE P,
         ASSUME NEW t \in Threads, ActionReturns(t), Kept PROVE P,
         ASSUME NEW t \in Threads, Toggle(t), Kept PROVE P,
         ASSUME NEW t \in Threads, BeginStatus(t), Kept PROVE P,
         ASSUME NEW t \in Threads, WriteStatus(t), Kept PROVE P,
         ASSUME NEW t \in Threads, BeginRead(t), Kept PROVE P,
         ASSUME NEW t \in Threads, ReadReturns(t), Kept PROVE P,
         ASSUME NEW t \in Threads, OpenStream(t), Kept PROVE P,
         ASSUME NEW t \in Threads, SnapshotReturns(t), Kept PROVE P,
         ASSUME NEW t \in Threads, LeaveStream(t), Kept PROVE P,
         ASSUME NEW t \in Threads, ReturnShared(t), Kept PROVE P,
         ASSUME NEW t \in Threads, ReturnSwitch(t), Kept PROVE P,
         ASSUME NEW t \in Threads, ReturnRefused(t), Kept PROVE P,
         ASSUME Restart PROVE P
  PROVE P
  BY NetworksKept DEF Next, Serve, HandlerStep, StreamClosed, OfferedRequests

(* The answers the handlers write.                                         *)
LEMMA AnswersTyped ==
  /\ \A s \in {"none", "ok", "invalid", "precondition", "disabled",
              "upstream"} : Answer(s) \in Answers
  /\ \A n \in Networks \union {"none"}, e \in BOOLEAN :
       Status(n, e) \in Answers
  BY DEF Answer, Status, Answers

(* A step keeps every variable in its type.                                *)
LEMMA TypeStep == TypeOK /\ GateUse /\ [Next]_vars => TypeOK'
  <1> SUFFICES ASSUME TypeOK, GateUse, Next PROVE TypeOK'
    BY DEF vars, gateVars, lockVars, TypeOK, LockTypeOK
  <1> USE AnswersTyped
      DEF Kept, TypeOK, LockTypeOK, Labels, Goto, Say, Respond, Capture
  <1>1. ASSUME NEW t \in Threads, NEW r \in Requests, ReceiveShared(t, r), Kept
        PROVE  TypeOK'
    BY <1>1 DEF ReceiveShared, RLock
  <1>2. ASSUME NEW t \in Threads, NEW r \in Requests, ReceiveSwitch(t, r), Kept
        PROVE  TypeOK'
    BY <1>2 DEF ReceiveSwitch, Lock, lockVars
  <1>3. ASSUME NEW t \in Threads, AnnounceSwitch(t), Kept PROVE TypeOK'
    BY <1>3 DEF AnnounceSwitch, Announce, gateVars
  <1>4. ASSUME NEW t \in Threads, CommitSwitch(t), Kept PROVE TypeOK'
    <2>1. req[t].network \in Networks
      BY <1>4 DEF CommitSwitch, MayCommit, Disarm, ResetStreams, GateUse,
                  MaySwitchTo
    <2> QED
      BY <1>4, <2>1 DEF CommitSwitch, MayCommit, Disarm, ResetStreams, lockVars
  <1>5. ASSUME NEW t \in Threads, AdmitWrite(t), Kept PROVE TypeOK'
    BY <1>5 DEF AdmitWrite, lockVars
  <1>6. ASSUME NEW t \in Threads, ValidateWrite(t), Kept PROVE TypeOK'
    BY <1>6 DEF ValidateWrite, lockVars
  <1>7. ASSUME NEW t \in Threads, PostAction(t), Kept PROVE TypeOK'
    BY <1>7 DEF PostAction, lockVars
  <1>8. ASSUME NEW t \in Threads, ActionReturns(t), Kept PROVE TypeOK'
    BY <1>8 DEF ActionReturns, lockVars
  <1>9. ASSUME NEW t \in Threads, Toggle(t), Kept PROVE TypeOK'
    <2>1. tradingEnabled' \in BOOLEAN
      BY <1>9 DEF Toggle, MayToggle
    <2>2. pc' \in [Threads -> Labels]
          /\ runtime' \in [Threads -> Networks \union {"none"}]
      BY <1>9 DEF Toggle, MayToggle
    <2>3. reply' \in [Threads -> Answers]
      BY <1>9 DEF Toggle, MayToggle
    <2> QED
      BY <1>9, <2>1, <2>2, <2>3 DEF Toggle, MayToggle, lockVars
  <1>10. ASSUME NEW t \in Threads, BeginStatus(t), Kept PROVE TypeOK'
    BY <1>10 DEF BeginStatus, lockVars
  <1>11. ASSUME NEW t \in Threads, WriteStatus(t), Kept PROVE TypeOK'
    BY <1>11 DEF WriteStatus, lockVars
  <1>12. ASSUME NEW t \in Threads, BeginRead(t), Kept PROVE TypeOK'
    BY <1>12 DEF BeginRead, lockVars
  <1>13. ASSUME NEW t \in Threads, ReadReturns(t), Kept PROVE TypeOK'
    BY <1>13 DEF ReadReturns, lockVars
  <1>14. ASSUME NEW t \in Threads, OpenStream(t), Kept PROVE TypeOK'
    BY <1>14 DEF OpenStream, lockVars
  <1>15. ASSUME NEW t \in Threads, SnapshotReturns(t), Kept PROVE TypeOK'
    <2>1. CASE RUnlock(t)
      BY <1>15, <2>1 DEF SnapshotReturns, RUnlock
    <2>2. CASE UNCHANGED lockVars
      BY <1>15, <2>2 DEF SnapshotReturns, lockVars
    <2> QED
      BY <1>15, <2>1, <2>2 DEF SnapshotReturns
  <1>16. ASSUME NEW t \in Threads, LeaveStream(t), Kept PROVE TypeOK'
    BY <1>16 DEF LeaveStream, lockVars
  <1>17. ASSUME NEW t \in Threads, ReturnShared(t), Kept PROVE TypeOK'
    BY <1>17 DEF ReturnShared, Return, RUnlock
  <1>18. ASSUME NEW t \in Threads, ReturnSwitch(t), Kept PROVE TypeOK'
    BY <1>18 DEF ReturnSwitch, Return, Unlock
  <1>19. ASSUME NEW t \in Threads, ReturnRefused(t), Kept PROVE TypeOK'
    BY <1>19 DEF ReturnRefused, Return, lockVars
  <1>20. ASSUME Restart PROVE TypeOK'
    BY <1>20, NetworkFacts DEF Restart
  <1> QED
    BY NextCases, <1>1, <1>2, <1>3, <1>4, <1>5, <1>6, <1>7, <1>8, <1>9, <1>10,
       <1>11, <1>12, <1>13, <1>14, <1>15, <1>16, <1>17, <1>18, <1>19, <1>20

(* A step leaves the lock with whoever works under it.                     *)
LEMMA LockStep == TypeOK /\ LockUse /\ GateUse /\ [Next]_vars => LockUse'
  <1> SUFFICES ASSUME TypeOK, LockUse, GateUse, Next PROVE LockUse'
    BY DEF vars, gateVars, lockVars, LockUse
  <1> USE NoThreadAssumption
      DEF Kept, TypeOK, LockTypeOK, LockUse, Working, Goto, Say, Respond,
          Capture
  <1>1. ASSUME NEW t \in Threads, NEW r \in Requests, ReceiveShared(t, r), Kept
        PROVE  LockUse'
    BY <1>1 DEF ReceiveShared, RLock
  <1>2. ASSUME NEW t \in Threads, NEW r \in Requests, ReceiveSwitch(t, r), Kept
        PROVE  LockUse'
    BY <1>2 DEF ReceiveSwitch, Lock, lockVars
  <1>3. ASSUME NEW t \in Threads, AnnounceSwitch(t), Kept PROVE LockUse'
    BY <1>3 DEF AnnounceSwitch, Announce, gateVars
  <1>4. ASSUME NEW t \in Threads, CommitSwitch(t), Kept PROVE LockUse'
    BY <1>4 DEF CommitSwitch, MayCommit, Disarm, ResetStreams, HoldsWriteLock,
                lockVars
  <1>5. ASSUME NEW t \in Threads, AdmitWrite(t), Kept PROVE LockUse'
    BY <1>5 DEF AdmitWrite, lockVars, Entered, WriteOps
  <1>6. ASSUME NEW t \in Threads, ValidateWrite(t), Kept PROVE LockUse'
    BY <1>6 DEF ValidateWrite, lockVars
  <1>7. ASSUME NEW t \in Threads, PostAction(t), Kept PROVE LockUse'
    BY <1>7 DEF PostAction, lockVars
  <1>8. ASSUME NEW t \in Threads, ActionReturns(t), Kept PROVE LockUse'
    BY <1>8 DEF ActionReturns, lockVars
  <1>9. ASSUME NEW t \in Threads, Toggle(t), Kept PROVE LockUse'
    BY <1>9 DEF Toggle, MayToggle, lockVars, Entered, ToggleOps
  <1>10. ASSUME NEW t \in Threads, BeginStatus(t), Kept PROVE LockUse'
    BY <1>10 DEF BeginStatus, lockVars, Entered, StatusOps
  <1>11. ASSUME NEW t \in Threads, WriteStatus(t), Kept PROVE LockUse'
    BY <1>11 DEF WriteStatus, lockVars
  <1>12. ASSUME NEW t \in Threads, BeginRead(t), Kept PROVE LockUse'
    BY <1>12 DEF BeginRead, lockVars, Entered, ReadOps, AccountOps
  <1>13. ASSUME NEW t \in Threads, ReadReturns(t), Kept PROVE LockUse'
    BY <1>13 DEF ReadReturns, lockVars
  <1>14. ASSUME NEW t \in Threads, OpenStream(t), Kept PROVE LockUse'
    BY <1>14 DEF OpenStream, lockVars, Entered
  <1>15. ASSUME NEW t \in Threads, SnapshotReturns(t), Kept PROVE LockUse'
    BY <1>15 DEF SnapshotReturns, RUnlock, lockVars
  <1>16. ASSUME NEW t \in Threads, LeaveStream(t), Kept PROVE LockUse'
    BY <1>16 DEF LeaveStream, lockVars
  <1>17. ASSUME NEW t \in Threads, ReturnShared(t), Kept PROVE LockUse'
    BY <1>17 DEF ReturnShared, Return, RUnlock
  <1>18. ASSUME NEW t \in Threads, ReturnSwitch(t), Kept PROVE LockUse'
    BY <1>18 DEF ReturnSwitch, Return, Unlock, HoldsWriteLock
  <1>19. ASSUME NEW t \in Threads, ReturnRefused(t), Kept PROVE LockUse'
    BY <1>19 DEF ReturnRefused, Return, lockVars
  <1>20. ASSUME Restart PROVE LockUse'
    BY <1>20 DEF Restart
  <1> QED
    BY NextCases, <1>1, <1>2, <1>3, <1>4, <1>5, <1>6, <1>7, <1>8, <1>9, <1>10,
       <1>11, <1>12, <1>13, <1>14, <1>15, <1>16, <1>17, <1>18, <1>19, <1>20

(* A step keeps what a handler captured on the selected network.           *)
LEMMA GateStep == TypeOK /\ LockUse /\ GateUse /\ [Next]_vars => GateUse'
  <1> SUFFICES ASSUME TypeOK, LockUse, GateUse, Next PROVE GateUse'
    BY NetworksKept
       DEF vars, gateVars, lockVars, GateUse, MaySwitchTo, Kept
  <1> USE NoThreadAssumption, NetworkFacts
      DEF Kept, TypeOK, LockTypeOK, GateUse, Working, MaySwitchTo, Goto, Say,
          Respond, Capture
  <1>1. ASSUME NEW t \in Threads, NEW r \in Requests, ReceiveShared(t, r), Kept
        PROVE  GateUse'
    BY <1>1 DEF ReceiveShared, RLock
  <1>2. ASSUME NEW t \in Threads, NEW r \in Requests, ReceiveSwitch(t, r), Kept
        PROVE  GateUse'
    BY <1>2 DEF ReceiveSwitch, Lock, lockVars
  <1>3. ASSUME NEW t \in Threads, AnnounceSwitch(t), Kept PROVE GateUse'
    BY <1>3 DEF AnnounceSwitch, Announce, gateVars
  <1>4. ASSUME NEW t \in Threads, CommitSwitch(t), Kept PROVE GateUse'
    <2>1. \A u \in Threads : u # t => pc[u] \notin Working
      BY <1>4 DEF CommitSwitch, MayCommit, Disarm, ResetStreams,
                  HoldsWriteLock, LockUse
    <2> QED
      BY <1>4, <2>1 DEF CommitSwitch, MayCommit, Disarm, ResetStreams
  <1>5. ASSUME NEW t \in Threads, AdmitWrite(t), Kept PROVE GateUse'
    BY <1>5 DEF AdmitWrite, lockVars, Entered, WriteOps
  <1>6. ASSUME NEW t \in Threads, ValidateWrite(t), Kept PROVE GateUse'
    BY <1>6 DEF ValidateWrite, lockVars
  <1>7. ASSUME NEW t \in Threads, PostAction(t), Kept PROVE GateUse'
    BY <1>7 DEF PostAction, lockVars
  <1>8. ASSUME NEW t \in Threads, ActionReturns(t), Kept PROVE GateUse'
    BY <1>8 DEF ActionReturns, lockVars
  <1>9. ASSUME NEW t \in Threads, Toggle(t), Kept PROVE GateUse'
    <2>1. \A u \in Threads : pc[u] = "status" => req[u].op # "switch"
      BY <1>9 DEF Toggle, MayToggle, Entered, LockUse
    <2> QED
      BY <1>9, <2>1 DEF Toggle, MayToggle, Entered, ToggleOps
  <1>10. ASSUME NEW t \in Threads, BeginStatus(t), Kept PROVE GateUse'
    BY <1>10 DEF BeginStatus, lockVars, Entered, StatusOps
  <1>11. ASSUME NEW t \in Threads, WriteStatus(t), Kept PROVE GateUse'
    BY <1>11 DEF WriteStatus, lockVars
  <1>12. ASSUME NEW t \in Threads, BeginRead(t), Kept PROVE GateUse'
    BY <1>12 DEF BeginRead, lockVars, Entered, ReadOps, AccountOps
  <1>13. ASSUME NEW t \in Threads, ReadReturns(t), Kept PROVE GateUse'
    BY <1>13 DEF ReadReturns, lockVars
  <1>14. ASSUME NEW t \in Threads, OpenStream(t), Kept PROVE GateUse'
    BY <1>14 DEF OpenStream, lockVars, Entered
  <1>15. ASSUME NEW t \in Threads, SnapshotReturns(t), Kept PROVE GateUse'
    BY <1>15 DEF SnapshotReturns, RUnlock, lockVars
  <1>16. ASSUME NEW t \in Threads, LeaveStream(t), Kept PROVE GateUse'
    BY <1>16 DEF LeaveStream, lockVars
  <1>17. ASSUME NEW t \in Threads, ReturnShared(t), Kept PROVE GateUse'
    BY <1>17 DEF ReturnShared, Return, RUnlock
  <1>18. ASSUME NEW t \in Threads, ReturnSwitch(t), Kept PROVE GateUse'
    BY <1>18 DEF ReturnSwitch, Return, Unlock, HoldsWriteLock
  <1>19. ASSUME NEW t \in Threads, ReturnRefused(t), Kept PROVE GateUse'
    BY <1>19 DEF ReturnRefused, Return, lockVars
  <1>20. ASSUME Restart PROVE GateUse'
    BY <1>20 DEF Restart
  <1> QED
    BY NextCases, <1>1, <1>2, <1>3, <1>4, <1>5, <1>6, <1>7, <1>8, <1>9, <1>10,
       <1>11, <1>12, <1>13, <1>14, <1>15, <1>16, <1>17, <1>18, <1>19, <1>20

(* What may hold of the selected network.                                  *)
Selection == /\ ArmedOnlyWhereTradable
             /\ MainnetNeedsCredentials
             /\ NoStreamOnInactiveNetwork

(* A step keeps trading armed, mainnet selected and streams open only      *)
(* where they may be.                                                      *)
LEMMA SelectionStep == IInv /\ [Next]_vars => Selection'
  <1> SUFFICES ASSUME TypeOK, LockUse, GateUse, Selection, Next
               PROVE  Selection'
    BY NetworksKept
       DEF vars, gateVars, lockVars, IInv, Selection, ArmedOnlyWhereTradable,
           MainnetNeedsCredentials, NoStreamOnInactiveNetwork, Kept
  <1> USE NoThreadAssumption, NetworkFacts
      DEF Kept, TypeOK, GateUse, MaySwitchTo, Goto, Respond, Capture,
          Selection,           ArmedOnlyWhereTradable, MainnetNeedsCredentials,
          NoStreamOnInactiveNetwork
  <1>1. ASSUME NEW t \in Threads, NEW r \in Requests, ReceiveShared(t, r), Kept
        PROVE  Selection'
    BY <1>1 DEF ReceiveShared
  <1>2. ASSUME NEW t \in Threads, NEW r \in Requests, ReceiveSwitch(t, r), Kept
        PROVE  Selection'
    BY <1>2 DEF ReceiveSwitch
  <1>3. ASSUME NEW t \in Threads, AnnounceSwitch(t), Kept PROVE Selection'
    BY <1>3 DEF AnnounceSwitch, gateVars
  <1>4. ASSUME NEW t \in Threads, CommitSwitch(t), Kept PROVE Selection'
    BY <1>4 DEF CommitSwitch, MayCommit, Disarm, ResetStreams
  <1>5. ASSUME NEW t \in Threads, AdmitWrite(t), Kept PROVE Selection'
    BY <1>5 DEF AdmitWrite, Entered, WriteOps
  <1>6. ASSUME NEW t \in Threads, ValidateWrite(t), Kept PROVE Selection'
    BY <1>6 DEF ValidateWrite
  <1>7. ASSUME NEW t \in Threads, PostAction(t), Kept PROVE Selection'
    BY <1>7 DEF PostAction
  <1>8. ASSUME NEW t \in Threads, ActionReturns(t), Kept PROVE Selection'
    BY <1>8 DEF ActionReturns
  <1>9. ASSUME NEW t \in Threads, Toggle(t), Kept PROVE Selection'
    BY <1>9 DEF Toggle, MayToggle, Entered, ToggleOps
  <1>10. ASSUME NEW t \in Threads, BeginStatus(t), Kept PROVE Selection'
    BY <1>10 DEF BeginStatus, Entered, StatusOps
  <1>11. ASSUME NEW t \in Threads, WriteStatus(t), Kept PROVE Selection'
    BY <1>11 DEF WriteStatus
  <1>12. ASSUME NEW t \in Threads, BeginRead(t), Kept PROVE Selection'
    BY <1>12 DEF BeginRead, Entered, ReadOps, AccountOps
  <1>13. ASSUME NEW t \in Threads, ReadReturns(t), Kept PROVE Selection'
    BY <1>13 DEF ReadReturns
  <1>14. ASSUME NEW t \in Threads, OpenStream(t), Kept PROVE Selection'
    BY <1>14 DEF OpenStream, Entered
  <1>15. ASSUME NEW t \in Threads, SnapshotReturns(t), Kept PROVE Selection'
    BY <1>15 DEF SnapshotReturns
  <1>16. ASSUME NEW t \in Threads, LeaveStream(t), Kept PROVE Selection'
    BY <1>16 DEF LeaveStream
  <1>17. ASSUME NEW t \in Threads, ReturnShared(t), Kept PROVE Selection'
    BY <1>17 DEF ReturnShared, Return
  <1>18. ASSUME NEW t \in Threads, ReturnSwitch(t), Kept PROVE Selection'
    BY <1>18 DEF ReturnSwitch, Return
  <1>19. ASSUME NEW t \in Threads, ReturnRefused(t), Kept PROVE Selection'
    BY <1>19 DEF ReturnRefused, Return
  <1>20. ASSUME Restart PROVE Selection'
    BY <1>20 DEF Restart
  <1> QED
    BY NextCases, <1>1, <1>2, <1>3, <1>4, <1>5, <1>6, <1>7, <1>8, <1>9, <1>10,
       <1>11, <1>12, <1>13, <1>14, <1>15, <1>16, <1>17, <1>18, <1>19, <1>20

(* What the documents a handler writes hold.                               *)
LEMMA AnswerFields ==
  /\ \A s : Answer(s).network = "none"
  /\ \A n, e : Status(n, e).network = n /\ Status(n, e).enabled = e
  BY DEF Answer, Status

(* A step keeps every status document that is being sent true.             *)
LEMMA StatusStep == IInv /\ [Next]_vars => StatusIsOfOneConfiguration'
  <1> SUFFICES ASSUME TypeOK, LockUse, GateUse, ArmedOnlyWhereTradable,
                      StatusIsOfOneConfiguration, Next
               PROVE  StatusIsOfOneConfiguration'
    BY NetworksKept
       DEF vars, gateVars, lockVars, IInv, StatusIsOfOneConfiguration, Kept
  <1> USE AnswerFields
      DEF Kept, TypeOK, StatusIsOfOneConfiguration, Goto, Say, Respond, Capture
  <1>1. ASSUME NEW t \in Threads, NEW r \in Requests, ReceiveShared(t, r), Kept
        PROVE  StatusIsOfOneConfiguration'
    BY <1>1 DEF ReceiveShared
  <1>2. ASSUME NEW t \in Threads, NEW r \in Requests, ReceiveSwitch(t, r), Kept
        PROVE  StatusIsOfOneConfiguration'
    BY <1>2 DEF ReceiveSwitch
  <1>3. ASSUME NEW t \in Threads, AnnounceSwitch(t), Kept
        PROVE  StatusIsOfOneConfiguration'
    BY <1>3 DEF AnnounceSwitch, gateVars
  <1>4. ASSUME NEW t \in Threads, CommitSwitch(t), Kept
        PROVE  StatusIsOfOneConfiguration'
    <2>1. \A u \in Threads : u # t => pc[u] \notin Working
      BY <1>4 DEF CommitSwitch, MayCommit, Disarm, ResetStreams,
                  HoldsWriteLock, LockUse
    <2> QED
      BY <1>4, <2>1 DEF CommitSwitch, MayCommit, Disarm, ResetStreams, Working
  <1>5. ASSUME NEW t \in Threads, AdmitWrite(t), Kept
        PROVE  StatusIsOfOneConfiguration'
    BY <1>5 DEF AdmitWrite, Entered, WriteOps
  <1>6. ASSUME NEW t \in Threads, ValidateWrite(t), Kept
        PROVE  StatusIsOfOneConfiguration'
    BY <1>6 DEF ValidateWrite
  <1>7. ASSUME NEW t \in Threads, PostAction(t), Kept
        PROVE  StatusIsOfOneConfiguration'
    BY <1>7 DEF PostAction
  <1>8. ASSUME NEW t \in Threads, ActionReturns(t), Kept
        PROVE  StatusIsOfOneConfiguration'
    BY <1>8 DEF ActionReturns
  <1>9. ASSUME NEW t \in Threads, Toggle(t), Kept
        PROVE  StatusIsOfOneConfiguration'
    BY <1>9 DEF Toggle, MayToggle, Entered, ToggleOps
  <1>10. ASSUME NEW t \in Threads, BeginStatus(t), Kept
         PROVE  StatusIsOfOneConfiguration'
    BY <1>10 DEF BeginStatus, Entered, StatusOps
  <1>11. ASSUME NEW t \in Threads, WriteStatus(t), Kept
         PROVE  StatusIsOfOneConfiguration'
    <2>1. runtime[t] = active
      BY <1>11 DEF WriteStatus, GateUse, Working
    <2>2. req[t].op = "switch" => ~tradingEnabled
      BY <1>11 DEF WriteStatus, GateUse
    <2> QED
      BY <1>11, <2>1, <2>2 DEF WriteStatus, ArmedOnlyWhereTradable
  <1>12. ASSUME NEW t \in Threads, BeginRead(t), Kept
         PROVE  StatusIsOfOneConfiguration'
    BY <1>12 DEF BeginRead, Entered, ReadOps, AccountOps
  <1>13. ASSUME NEW t \in Threads, ReadReturns(t), Kept
         PROVE  StatusIsOfOneConfiguration'
    BY <1>13 DEF ReadReturns
  <1>14. ASSUME NEW t \in Threads, OpenStream(t), Kept
         PROVE  StatusIsOfOneConfiguration'
    BY <1>14 DEF OpenStream, Entered
  <1>15. ASSUME NEW t \in Threads, SnapshotReturns(t), Kept
         PROVE  StatusIsOfOneConfiguration'
    BY <1>15 DEF SnapshotReturns
  <1>16. ASSUME NEW t \in Threads, LeaveStream(t), Kept
         PROVE  StatusIsOfOneConfiguration'
    BY <1>16 DEF LeaveStream
  <1>17. ASSUME NEW t \in Threads, ReturnShared(t), Kept
         PROVE  StatusIsOfOneConfiguration'
    BY <1>17 DEF ReturnShared, Return
  <1>18. ASSUME NEW t \in Threads, ReturnSwitch(t), Kept
         PROVE  StatusIsOfOneConfiguration'
    BY <1>18 DEF ReturnSwitch, Return
  <1>19. ASSUME NEW t \in Threads, ReturnRefused(t), Kept
         PROVE  StatusIsOfOneConfiguration'
    BY <1>19 DEF ReturnRefused, Return
  <1>20. ASSUME Restart PROVE StatusIsOfOneConfiguration'
    BY <1>20 DEF Restart
  <1> QED
    BY NextCases, <1>1, <1>2, <1>3, <1>4, <1>5, <1>6, <1>7, <1>8, <1>9, <1>10,
       <1>11, <1>12, <1>13, <1>14, <1>15, <1>16, <1>17, <1>18, <1>19, <1>20

(* The inductive invariant holds initially and is kept by every step.      *)
LEMMA IInvInit == Init => IInv
  <1> SUFFICES ASSUME Init PROVE IInv
    OBVIOUS
  <1> USE NetworkFacts DEF Init
  <1>1. TypeOK
    BY AnswersTyped DEF LockInit, TypeOK, LockTypeOK, Labels
  <1>2. LockUse /\ GateUse
    BY DEF LockUse, GateUse, Working
  <1>3. Selection /\ StatusIsOfOneConfiguration
    BY DEF Selection, ArmedOnlyWhereTradable, MainnetNeedsCredentials,
           NoStreamOnInactiveNetwork, StatusIsOfOneConfiguration
  <1> QED
    BY <1>1, <1>2, <1>3 DEF IInv, Selection

(* Every step keeps the inductive invariant.                               *)
LEMMA IInvStep == IInv /\ [Next]_vars => IInv'
  BY TypeStep, LockStep, GateStep, SelectionStep, StatusStep DEF IInv,
                                                                 Selection

(* The inductive invariant holds in every state the server can reach.      *)
THEOREM Invariant == SafetySpec => []IInv
  BY IInvInit, IInvStep, PTL DEF SafetySpec

(* So it does under the fairness of the handlers.                          *)
LEMMA InvariantOfSpec == Spec => []IInv
  BY Invariant, PTL DEF Spec

(* Every variable keeps its type, whatever the requests and their order.   *)
THEOREM TypeCorrect == Spec => []TypeOK
  <1>1. IInv => TypeOK
    BY DEF IInv
  <1> QED
    BY <1>1, InvariantOfSpec, PTL

(* A write is sent by the network it was admitted on, which is still the   *)
(* selected one and may sign, for any number of requests and switches.     *)
THEOREM WritesStay == Spec => []WritesStayOnTheirNetwork
  <1>1. IInv => WritesStayOnTheirNetwork
    BY DEF IInv, GateUse, Working, WritesStayOnTheirNetwork, InFlight
  <1> QED
    BY <1>1, InvariantOfSpec, PTL

(* Trading is armed only where the runtime can sign, and mainnet selected  *)
(* only with complete credentials.                                         *)
THEOREM Armed == Spec => [](ArmedOnlyWhereTradable /\ MainnetNeedsCredentials)
  <1>1. IInv => ArmedOnlyWhereTradable /\ MainnetNeedsCredentials
    BY DEF IInv
  <1> QED
    BY <1>1, InvariantOfSpec, PTL

(* A file that lets a network trade was accepted only with that network's  *)
(* URL, and with the key of the wallet it names.                           *)
LEMMA StartFits ==
  ASSUME NEW f \in Files, NEW a \in Roles, NEW n \in Networks, Starts(f, a),
         CanTrade(f, n)
  PROVE  /\ Settings(f, n).url = n
         /\ Derives(Settings(f, n).key, Settings(f, n).wallet)
  <1>1. ValidExchange(Settings(f, n), n)
    BY DEF Starts, Loads
  <1>2. Settings(f, n).key # ""
    BY DEF CanTrade, HasCredentials
  <1> QED
    BY <1>1, <1>2 DEF ValidExchange

(* Whatever is in the files the server is started from, a network that can *)
(* be armed signs with its own wallet's key and sends to its own exchange. *)
THEOREM SignersFit == Spec => []SignersFitTheirNetwork
  <1>1. TypeOK => SignersFitTheirNetwork
    <2> SUFFICES ASSUME networks \in Started, NEW n \in Tradable
                 PROVE  /\ networks[n].url = n
                        /\ Derives(networks[n].key, networks[n].wallet)
                        /\ networks[n].vault \in {"", networks[n].account}
      BY DEF TypeOK, SignersFitTheirNetwork
    <2>1. PICK f \in Files, a \in Roles :
            /\ Starts(f, a)
            /\ networks = [m \in Networks |-> Binding(f, a, m)]
      BY DEF Started
    <2>2. n \in Networks /\ networks[n].canTrade
      BY DEF Tradable
    <2>3. networks[n] = Binding(f, a, n)
      BY <2>1, <2>2
    <2>4. CanTrade(f, n)
      <3>1. Binding(f, a, n).canTrade = CanTrade(f, n)
        BY DEF Binding
      <3> QED
        BY <2>2, <2>3, <3>1, Zenon
    <2> QED
      BY <2>1, <2>2, <2>3, <2>4, StartFits DEF Binding
  <1> QED
    BY <1>1, TypeCorrect, PTL

(* No stream stays subscribed to a network that is not selected, also when *)
(* it was opened while the switch was waiting.                             *)
THEOREM StreamsFollow == Spec => []NoStreamOnInactiveNetwork
  <1>1. IInv => NoStreamOnInactiveNetwork
    BY DEF IInv
  <1> QED
    BY <1>1, InvariantOfSpec, PTL

(* A status document is true of the one configuration it was taken from    *)
(* until it has been sent.                                                 *)
THEOREM Statuses == Spec => []StatusIsOfOneConfiguration
  <1>1. IInv => StatusIsOfOneConfiguration
    BY DEF IInv
  <1> QED
    BY <1>1, InvariantOfSpec, PTL

-----------------------------------------------------------------------------
(* The writes and streams the contract sees in a state of the handlers.    *)
InFlightWrites ==
  [t \in Threads |-> IF InFlight(t) THEN runtime[t] ELSE "none"]
OpenStreams == subscribed[active]

(* A step on which the contract does not move.                             *)
LEMMA Stutters ==
  ASSUME Kept, active' = active, tradingEnabled' = tradingEnabled,
         InFlightWrites' = InFlightWrites, OpenStreams' = OpenStreams
  PROVE  [Contract!Next]_(Contract!vars)
  BY DEF Kept, Contract!vars, InFlightWrites, OpenStreams

(* Every step of the handlers is a step of the contract or leaves it alone.*)
LEMMA ContractStep == IInv /\ [Next]_vars => [Contract!Next]_(Contract!vars)
  <1> DEFINE CStep == [Contract!Next]_(Contract!vars)
  <1> SUFFICES ASSUME TypeOK, LockUse, GateUse, Selection, Next PROVE CStep
    <2>1. UNCHANGED vars =>
            InFlightWrites' = InFlightWrites /\ OpenStreams' = OpenStreams
      BY DEF vars, gateVars, InFlightWrites, OpenStreams, InFlight
    <2> QED
      BY <2>1, Stutters, NetworksKept DEF vars, gateVars, IInv, Selection
  <1> USE
      DEF Kept, TypeOK, Goto, Say, Respond, Capture, InFlightWrites,
          OpenStreams,           InFlight
  <1>1. ASSUME NEW t \in Threads, NEW r \in Requests, ReceiveShared(t, r), Kept
        PROVE  CStep
    <2>1. InFlightWrites' = InFlightWrites /\ OpenStreams' = OpenStreams
      BY <1>1 DEF ReceiveShared
    <2> QED
      BY <1>1, <2>1, Stutters DEF ReceiveShared
  <1>2. ASSUME NEW t \in Threads, NEW r \in Requests, ReceiveSwitch(t, r), Kept
        PROVE  CStep
    <2>1. InFlightWrites' = InFlightWrites /\ OpenStreams' = OpenStreams
      BY <1>2 DEF ReceiveSwitch
    <2> QED
      BY <1>2, <2>1, Stutters DEF ReceiveSwitch
  <1>3. ASSUME NEW t \in Threads, AnnounceSwitch(t), Kept PROVE CStep
    <2>1. InFlightWrites' = InFlightWrites /\ OpenStreams' = OpenStreams
      BY <1>3 DEF AnnounceSwitch, gateVars
    <2> QED
      BY <1>3, <2>1, Stutters DEF AnnounceSwitch, gateVars
  <1>4. ASSUME NEW t \in Threads, CommitSwitch(t), Kept PROVE CStep
    <2>1. \A u \in Threads : ~InFlight(u) /\ ~InFlight(u)'
      BY <1>4 DEF CommitSwitch, MayCommit, Disarm, ResetStreams,
                  HoldsWriteLock, LockUse, Working
    <2>2. req[t].network \in Networks
      BY <1>4 DEF CommitSwitch, MayCommit, Disarm, ResetStreams, GateUse,
                  MaySwitchTo
    <2>3. Contract!Switch(req[t].network)
      BY <1>4, <2>1, <2>2
         DEF CommitSwitch, MayCommit, Disarm, ResetStreams, Selection,
             NoStreamOnInactiveNetwork, Contract!Switch, Contract!NoWrites
    <2> QED
      BY <2>2, <2>3 DEF Contract!Next
  <1>5. ASSUME NEW t \in Threads, AdmitWrite(t), Kept PROVE CStep
    <2>1. CASE pc'[t] = "admitted"
      <3>1. Contract!StartWrite(t)
        BY <1>5, <2>1 DEF AdmitWrite, Entered, Contract!StartWrite
      <3> QED
        BY <3>1 DEF Contract!Next
    <2>2. CASE pc'[t] # "admitted"
      BY <1>5, <2>2, Stutters DEF AdmitWrite, Entered
    <2> QED
      BY <2>1, <2>2
  <1>6. ASSUME NEW t \in Threads, ValidateWrite(t), Kept PROVE CStep
    <2>1. CASE pc'[t] = "valid"
      BY <1>6, <2>1, Stutters DEF ValidateWrite
    <2>2. CASE pc'[t] # "valid"
      <3>1. Contract!EndWrite(t)
        BY <1>6, <2>2 DEF ValidateWrite, Contract!EndWrite
      <3> QED
        BY <3>1 DEF Contract!Next
    <2> QED
      BY <2>1, <2>2
  <1>7. ASSUME NEW t \in Threads, PostAction(t), Kept PROVE CStep
    <2>1. InFlightWrites' = InFlightWrites /\ OpenStreams' = OpenStreams
      BY <1>7 DEF PostAction
    <2> QED
      BY <1>7, <2>1, Stutters DEF PostAction
  <1>8. ASSUME NEW t \in Threads, ActionReturns(t), Kept PROVE CStep
    <2>1. Contract!EndWrite(t)
      BY <1>8 DEF ActionReturns, Contract!EndWrite
    <2> QED
      BY <2>1 DEF Contract!Next
  <1>9. ASSUME NEW t \in Threads, Toggle(t), Kept PROVE CStep
    <2>1. InFlightWrites' = InFlightWrites /\ OpenStreams' = OpenStreams
          /\ active' = active
      BY <1>9 DEF Toggle, MayToggle, Entered
    <2>2. tradingEnabled' = tradingEnabled \/ Contract!Arm \/ Contract!Disarm
      BY <1>9, <2>1 DEF Toggle, MayToggle, Contract!Arm, Contract!Disarm
    <2> QED
      BY <1>9, <2>1, <2>2, Stutters DEF Contract!Next
  <1>10. ASSUME NEW t \in Threads, BeginStatus(t), Kept PROVE CStep
    <2>1. InFlightWrites' = InFlightWrites /\ OpenStreams' = OpenStreams
      BY <1>10 DEF BeginStatus, Entered
    <2> QED
      BY <1>10, <2>1, Stutters DEF BeginStatus, Entered
  <1>11. ASSUME NEW t \in Threads, WriteStatus(t), Kept PROVE CStep
    <2>1. InFlightWrites' = InFlightWrites /\ OpenStreams' = OpenStreams
      BY <1>11 DEF WriteStatus
    <2> QED
      BY <1>11, <2>1, Stutters DEF WriteStatus
  <1>12. ASSUME NEW t \in Threads, BeginRead(t), Kept PROVE CStep
    <2>1. InFlightWrites' = InFlightWrites /\ OpenStreams' = OpenStreams
      BY <1>12 DEF BeginRead, Entered
    <2> QED
      BY <1>12, <2>1, Stutters DEF BeginRead, Entered
  <1>13. ASSUME NEW t \in Threads, ReadReturns(t), Kept PROVE CStep
    <2>1. InFlightWrites' = InFlightWrites /\ OpenStreams' = OpenStreams
      BY <1>13 DEF ReadReturns
    <2> QED
      BY <1>13, <2>1, Stutters DEF ReadReturns
  <1>14. ASSUME NEW t \in Threads, OpenStream(t), Kept PROVE CStep
    <2>1. Contract!OpenStream(t)
      BY <1>14 DEF OpenStream, Entered, Contract!OpenStream
    <2> QED
      BY <2>1 DEF Contract!Next
  <1>15. ASSUME NEW t \in Threads, SnapshotReturns(t), Kept PROVE CStep
    <2>1. InFlightWrites' = InFlightWrites /\ active' = active
          /\ tradingEnabled' = tradingEnabled
      BY <1>15 DEF SnapshotReturns
    <2>2. CASE UNCHANGED subscribed
      BY <1>15, <2>1, <2>2, Stutters DEF SnapshotReturns
    <2>3. CASE subscribed' = [subscribed EXCEPT ![runtime[t]] = @ \ {t}]
      <3>1. Contract!EndStream(t)
        BY <1>15, <2>1, <2>3 DEF SnapshotReturns, GateUse, Working,
                                 Contract!EndStream
      <3> QED
        BY <3>1 DEF Contract!Next
    <2> QED
      BY <1>15, <2>2, <2>3 DEF SnapshotReturns
  <1>16. ASSUME NEW t \in Threads, LeaveStream(t), Kept PROVE CStep
    <2>1. InFlightWrites' = InFlightWrites /\ active' = active
          /\ tradingEnabled' = tradingEnabled
      BY <1>16 DEF LeaveStream
    <2>2. CASE runtime[t] = active
      <3>1. Contract!EndStream(t)
        BY <1>16, <2>1, <2>2 DEF LeaveStream, Contract!EndStream
      <3> QED
        BY <3>1 DEF Contract!Next
    <2>3. CASE runtime[t] # active
      BY <1>16, <2>1, <2>3, Stutters DEF LeaveStream, GateUse
    <2> QED
      BY <2>2, <2>3
  <1>17. ASSUME NEW t \in Threads, ReturnShared(t), Kept PROVE CStep
    <2>1. InFlightWrites' = InFlightWrites /\ OpenStreams' = OpenStreams
      BY <1>17 DEF ReturnShared, Return
    <2> QED
      BY <1>17, <2>1, Stutters DEF ReturnShared, Return
  <1>18. ASSUME NEW t \in Threads, ReturnSwitch(t), Kept PROVE CStep
    <2>1. InFlightWrites' = InFlightWrites /\ OpenStreams' = OpenStreams
      BY <1>18 DEF ReturnSwitch, Return
    <2> QED
      BY <1>18, <2>1, Stutters DEF ReturnSwitch, Return
  <1>19. ASSUME NEW t \in Threads, ReturnRefused(t), Kept PROVE CStep
    <2>1. InFlightWrites' = InFlightWrites /\ OpenStreams' = OpenStreams
      BY <1>19 DEF ReturnRefused, Return
    <2> QED
      BY <1>19, <2>1, Stutters DEF ReturnRefused, Return
  <1>20. ASSUME Restart PROVE CStep
    <2>1. Contract!Restart
      BY <1>20, NetworkFacts DEF Restart, Contract!Restart,
                                      Contract!NoWrites
    <2> QED
      BY <2>1 DEF Contract!Next
  <1> QED
    BY NextCases, <1>1, <1>2, <1>3, <1>4, <1>5, <1>6, <1>7, <1>8, <1>9, <1>10,
       <1>11, <1>12, <1>13, <1>14, <1>15, <1>16, <1>17, <1>18, <1>19, <1>20

(* The server keeps the contract: arming, switching, writing and streaming *)
(* appear to happen one at a time and only as the contract allows, for any *)
(* number of concurrent requests.                                          *)
THEOREM Implements == Spec => ImplementsContract
  <1>1. Init => Contract!Init
    BY NetworkFacts DEF Init, Contract!Init, Contract!NoWrites, InFlight
  <1> QED
    BY <1>1, ContractStep, InvariantOfSpec, PTL
       DEF Spec, SafetySpec, ImplementsContract, Contract!Spec
=============================================================================
