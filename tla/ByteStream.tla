------------------------------ MODULE ByteStream ------------------------------
(***************************************************************************)
(* What a session's send buffer promises: a stream of bytes.  Bytes are    *)
(* numbered in the order in which they are accepted; whatever is handed to *)
(* the socket is the next run of accepted bytes, none twice, none left     *)
(* out, none out of order.                                                 *)
(***************************************************************************)
EXTENDS Naturals, Sequences

VARIABLES
  accepted,  \* how many bytes the stream has taken
  emitted,   \* how many of them have been handed to the socket
  chunk      \* the bytes handed over by the last step that did so

Init == accepted = 0 /\ emitted = 0 /\ chunk = <<>>

Accept ==
  /\ accepted' > accepted
  /\ UNCHANGED <<emitted, chunk>>

Emit ==
  /\ emitted' \in emitted .. accepted
  /\ chunk' = [i \in 1 .. emitted' - emitted |-> emitted + i]
  /\ UNCHANGED accepted

Next == Accept \/ Emit

Spec == Init /\ [][Next]_<<accepted, emitted, chunk>>
=============================================================================
