------------------------------- MODULE MCParts -------------------------------
(* The parts on small instances. *)
EXTENDS Parts

\* Three binary messages with bodies of up to two bytes, the last of a kind
\* nobody registered; requests of HTTP; the one of Flash, twice.
Good(kind, body) == [kind |-> kind, body |-> body, known |-> TRUE]
Bad(kind)        == [kind |-> kind, body |-> 1, known |-> FALSE]
SmallStreams ==
  {[protocol |-> "tcp4", messages |-> <<Good("bin", i), Good("bin", j), m>>] :
     i, j \in 0 .. 2, m \in {Good("bin", k) : k \in 0 .. 2} \cup {Bad("bin")}}
  \cup {[protocol |-> "http", messages |-> <<Good("post", i), m, Good("post", j)>>] :
          i, j \in 0 .. 2, m \in {Good("get", 0), Bad("get")}}
  \cup {[protocol |-> "flash", messages |-> <<Good("flash", 0), Good("flash", 0)>>]}

\* Each login name is a group of its own.
LoginGroups == [n \in {"a", "b"} |-> n]

\* Two servers, one with a group of two, the other to be connected again.
Groups == <<1, 2>>
Configs == <<1, 2, 2>>

\* Three keys of a chain, and one of another.
ChainOf == [k \in {"a1", "a2", "a3", "b1"} |-> IF k = "b1" THEN 2 ELSE 1]

\* Three handlers of a group.
OneGroup == <<<<1, 2, 3>>>>

\* Two pointers of the one thread, one of the other.
Pointers == <<{1, 2}, {3}>>

\* The clock goes back, and on.
Differences == {-1, 1, 3, 4}
=============================================================================
