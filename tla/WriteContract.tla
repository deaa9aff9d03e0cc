---------------------------- MODULE WriteContract ----------------------------
(***************************************************************************)
(* What a caller of a write may rely on (docs/api-contract.md:20-36): the  *)
(* action takes effect at most once, and only if it was sent; "ok" is said *)
(* only of an action all of which took effect; an error says nothing of an *)
(* action that was sent.                                                   *)
(***************************************************************************)
CONSTANT Calls    (* the writes                                            *)

VARIABLES sent,   (* whether the action of a write has left                *)
          effect, (* what became of it: "none", "refused", "part", "all"   *)
          told    (* what its caller knows: "none", "ok", "error", or      *)
                  (* "lost" when the process died first                    *)

vars == <<sent, effect, told>>

Init == /\ sent = [c \in Calls |-> FALSE]
        /\ effect = [c \in Calls |-> "none"]
        /\ told = [c \in Calls |-> "none"]

Send(c) == /\ told[c] = "none" /\ ~sent[c]
           /\ sent' = [sent EXCEPT ![c] = TRUE]
           /\ UNCHANGED <<effect, told>>

TakeEffect(c) == /\ sent[c] /\ effect[c] = "none"
                 /\ \E e \in {"refused", "part", "all"} :
                      effect' = [effect EXCEPT ![c] = e]
                 /\ UNCHANGED <<sent, told>>

(* There was nothing to do.                                                *)
Skip(c) == /\ told[c] = "none" /\ ~sent[c]
           /\ effect' = [effect EXCEPT ![c] = "all"]
           /\ told' = [told EXCEPT ![c] = "ok"]
           /\ UNCHANGED sent

Confirm(c) == /\ told[c] = "none" /\ sent[c] /\ effect[c] = "all"
              /\ told' = [told EXCEPT ![c] = "ok"]
              /\ UNCHANGED <<sent, effect>>

Fail(c) == /\ told[c] = "none"
           /\ told' = [told EXCEPT ![c] = "error"]
           /\ UNCHANGED <<sent, effect>>

(* The process dies: open writes are never answered.                       *)
Die == /\ \E dead \in SUBSET {c \in Calls : told[c] = "none"} :
            told' = [c \in Calls |-> IF c \in dead THEN "lost" ELSE told[c]]
       /\ UNCHANGED <<sent, effect>>

Next == \/ Die
        \/ \E c \in Calls : \/ Send(c) \/ TakeEffect(c) \/ Skip(c)
                            \/ Confirm(c) \/ Fail(c)

Spec == Init /\ [][Next]_vars
=============================================================================
