---------------------------- MODULE GateContract ----------------------------
(***************************************************************************)
(* What the server promises about its two gates (README.md:100-111,        *)
(* docs/api-contract.md:12-20 and 86-89): one network is selected, trading *)
(* is armed for it or not, writes start only while it is armed, a switch   *)
(* waits for every write that has started, disarms, and takes the streams  *)
(* of the other network away.                                              *)
(***************************************************************************)
CONSTANTS Clients,   (* who may write or stream                            *)
          Networks   (* the networks that can be selected                  *)

VARIABLES tradable,  (* the networks that can be armed                     *)
          network,   (* the selected network                               *)
          armed,     (* whether trading is armed for it                    *)
          writing,   (* per client, the network of its write, or "none"    *)
          streams    (* clients with an open stream, all of network        *)

vars == <<tradable, network, armed, writing, streams>>

NoWrites == [c \in Clients |-> "none"]

Init == /\ tradable \in SUBSET Networks
        /\ network = "testnet"
        /\ armed = FALSE
        /\ writing = NoWrites
        /\ streams = {}

Arm == /\ network \in tradable
       /\ armed' = TRUE
       /\ UNCHANGED <<tradable, network, writing, streams>>

Disarm == /\ armed' = FALSE
          /\ UNCHANGED <<tradable, network, writing, streams>>

StartWrite(c) == /\ armed
                 /\ writing[c] = "none"
                 /\ writing' = [writing EXCEPT ![c] = network]
                 /\ UNCHANGED <<tradable, network, armed, streams>>

EndWrite(c) == /\ writing' = [writing EXCEPT ![c] = "none"]
               /\ UNCHANGED <<tradable, network, armed, streams>>

OpenStream(c) == /\ streams' = streams \union {c}
                 /\ UNCHANGED <<tradable, network, armed, writing>>

EndStream(c) == /\ streams' = streams \ {c}
                /\ UNCHANGED <<tradable, network, armed, writing>>

Switch(n) == /\ writing = NoWrites
             /\ network' = n
             /\ armed' = FALSE
             /\ streams' = IF n = network THEN streams ELSE {}
             /\ UNCHANGED <<tradable, writing>>

(* The backend restarts: everything it held is gone, and which networks  *)
(* can be armed is decided anew.                                           *)
Restart == /\ tradable' \in SUBSET Networks
           /\ network' = "testnet"
           /\ armed' = FALSE
           /\ writing' = NoWrites
           /\ streams' = {}

Next == \/ Arm \/ Disarm \/ Restart
        \/ \E n \in Networks : Switch(n)
        \/ \E c \in Clients : StartWrite(c) \/ EndWrite(c)
                              \/ OpenStream(c) \/ EndStream(c)

Spec == Init /\ [][Next]_vars
=============================================================================
