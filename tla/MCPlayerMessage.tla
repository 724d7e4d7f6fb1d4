--------------------------- MODULE MCPlayerMessage ---------------------------
(* PlayerMessage on small instances. *)
EXTENDS PlayerMessage

\* One player, whom gates name with the server id 0 or 1.
TwoNames == {<<0, 1>>, <<1, 1>>}
OneName  == {<<0, 1>>}
=============================================================================
