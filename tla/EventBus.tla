------------------------------ MODULE EventBus ------------------------------
(***************************************************************************)
(* What stream.Manager promises to the streams it serves: per topic an     *)
(* audience, and every event of the topic goes to exactly the subscribers  *)
(* that are in its audience at that moment and have room for it.  After a  *)
(* clearing nobody who was in an audience gets anything.                   *)
(***************************************************************************)
EXTENDS Naturals, Sequences

CONSTANTS Topics, Subscribers,
          Events,   (* what can be published                               *)
          Room      (* size of an inbox                                    *)

VARIABLES audience,  (* per topic, the subscribers that listen             *)
          inbox      (* per subscriber, events not yet taken               *)

vars == <<audience, inbox>>

Init == /\ audience = [k \in Topics |-> {}]
        /\ inbox = [s \in Subscribers |-> <<>>]

(* One topic at a time, with a new inbox.                                  *)
Join(s, k) == /\ \A j \in Topics : s \notin audience[j]
              /\ inbox[s] = <<>>
              /\ audience' = [audience EXCEPT ![k] = @ \union {s}]
              /\ UNCHANGED inbox

Leave(s) == /\ audience' = [k \in Topics |-> audience[k] \ {s}]
            /\ UNCHANGED inbox

Clear == /\ audience' = [k \in Topics |-> {}]
         /\ UNCHANGED inbox

Publish(k, e) ==
  /\ inbox' = [s \in Subscribers |->
                 IF s \in audience[k] /\ Len(inbox[s]) < Room
                 THEN Append(inbox[s], e) ELSE inbox[s]]
  /\ UNCHANGED audience

Take(s) == /\ inbox[s] # <<>>
           /\ inbox' = [inbox EXCEPT ![s] = Tail(@)]
           /\ UNCHANGED audience

(* A subscriber outside every audience drops what it has not taken.        *)
Drop(s) == /\ \A k \in Topics : s \notin audience[k]
           /\ inbox' = [inbox EXCEPT ![s] = <<>>]
           /\ UNCHANGED audience

Next == \/ \E s \in Subscribers :
             \/ \E k \in Topics : Join(s, k)
             \/ Leave(s) \/ Take(s) \/ Drop(s)
        \/ \E k \in Topics, e \in Events : Publish(k, e)
        \/ Clear

Spec == Init /\ [][Next]_vars
=============================================================================
