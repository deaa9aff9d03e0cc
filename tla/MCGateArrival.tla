--------------------------- MODULE MCGateArrival ---------------------------
(***************************************************************************)
(* NetworkGate with one history variable: the network that was selected    *)
(* when a request arrived, which is the one its sender could have seen.    *)
(***************************************************************************)
EXTENDS MCNetworkGate

VARIABLE arrivedOn

ArrivalInit == Init /\ arrivedOn = [t \in Threads |-> active]
ArrivalNext ==
  /\ Next
  /\ arrivedOn' = [t \in Threads |-> IF pc[t] = "idle" THEN active
                                                       ELSE arrivedOn[t]]
ArrivalSpec == ArrivalInit /\ [][ArrivalNext]_<<vars, arrivedOn>>

(* Trading is armed only by a request that arrived while the network it is *)
(* armed for was selected: after a switch it takes an explicit             *)
(* re-enablement on the selected network (server.go:255-257).  The code    *)
(* lets a request that waited for the switch arm the new network.          *)
ArmedOnTheNetworkSeen ==
  \A t \in Threads :
    pc[t] = "status" /\ req[t].op = "toggleOn" => arrivedOn[t] = active
=============================================================================
