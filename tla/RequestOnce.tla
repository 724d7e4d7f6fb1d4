------------------------------ MODULE RequestOnce ------------------------------
(***************************************************************************)
(* What the sender of a Request is promised: once the Request waits for    *)
(* its Ack, it ends exactly once, answered or timed out.                   *)
(***************************************************************************)
CONSTANT Requests

VARIABLE state

Init == state = [q \in Requests |-> "idle"]

Issue(q) ==
  /\ state[q] = "idle"
  /\ state' = [state EXCEPT ![q] = "pending"]

End(q) ==
  /\ state[q] = "pending"
  /\ \E end \in {"answered", "timedout"} : state' = [state EXCEPT ![q] = end]

Next == \E q \in Requests : Issue(q) \/ End(q)

Spec == Init /\ [][Next]_state
=============================================================================
