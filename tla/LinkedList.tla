------------------------------ MODULE LinkedList ------------------------------
(***************************************************************************)
(* The intrusive lists of antlib (commandlib/double_list.h): connections   *)
(* of a listener and of a database, threads, allocations.  A node has one  *)
(* pair of pointers, and is in one list at a time; what a node that was    *)
(* taken out points to stays as it was.                                    *)
(*                                                                         *)
(* The lists are used under the lock of their owner, or by one thread.     *)
(***************************************************************************)
EXTENDS Naturals, Sequences, Functions

CONSTANTS
  Lists, ListNodes,
  NULL

VARIABLES
  _head, _tail,  \* of each list
  _next, _prev,  \* of each node
  order,         \* History: the nodes of each list as they should come
  asserted       \* no ASSERT has failed

listVars == <<_head, _tail, _next, _prev, order, asserted>>

ListInit ==
  /\ _head = [l \in Lists |-> NULL] /\ _tail = [l \in Lists |-> NULL]
  /\ _next = [n \in ListNodes |-> NULL] /\ _prev = [n \in ListNodes |-> NULL]
  /\ order = [l \in Lists |-> <<>>]
  /\ asserted = TRUE

In(l, n) == n \in Range(order[l])
Out(n)   == \A l \in Lists : ~In(l, n)
Place(l, p) == CHOOSE i \in DOMAIN order[l] : order[l][i] = p

\* double_list_add_head, add_tail.
AddHead(l, n) ==
  /\ Out(n)
  /\ _prev' = [m \in ListNodes |-> IF m = n THEN NULL ELSE IF m = _head[l] THEN n ELSE _prev[m]]
  /\ _next' = [_next EXCEPT ![n] = _head[l]]
  /\ _tail' = [_tail EXCEPT ![l] = IF _head[l] = NULL THEN n ELSE @]
  /\ _head' = [_head EXCEPT ![l] = n]
  /\ asserted' = (asserted /\ (_head[l] = NULL => _tail[l] = NULL))
  /\ order' = [order EXCEPT ![l] = <<n>> \o @]

AddTail(l, n) ==
  /\ Out(n)
  /\ _next' = [m \in ListNodes |-> IF m = n THEN NULL ELSE IF m = _tail[l] THEN n ELSE _next[m]]
  /\ _prev' = [_prev EXCEPT ![n] = _tail[l]]
  /\ _head' = [_head EXCEPT ![l] = IF _tail[l] = NULL THEN n ELSE @]
  /\ _tail' = [_tail EXCEPT ![l] = n]
  /\ asserted' = (asserted /\ (_tail[l] = NULL => _head[l] = NULL))
  /\ order' = [order EXCEPT ![l] = Append(@, n)]

WithNode(nodes, i, n) == SubSeq(nodes, 1, i) \o <<n>> \o SubSeq(nodes, i + 1, Len(nodes))
Without(nodes, i)     == SubSeq(nodes, 1, i - 1) \o SubSeq(nodes, i + 1, Len(nodes))

\* Between two nodes, p and the one after it.
Between(l, p, n, q) ==
  /\ _prev' = [_prev EXCEPT ![n] = p, ![q] = n]
  /\ _next' = [_next EXCEPT ![n] = q, ![p] = n]
  /\ order' = [order EXCEPT ![l] = WithNode(@, Place(l, p), n)]
  /\ UNCHANGED <<_head, _tail, asserted>>

\* double_list_add_back, after the node p of the list (without one, first).
AddBack(l, p, n) ==
  /\ Out(n)
  /\ CASE p = NULL     -> AddHead(l, n)
       [] p = _tail[l] -> AddTail(l, n)
       [] OTHER        -> In(l, p) /\ Between(l, p, n, _next[p])

\* double_list_add_front, before the node q (without one, last).
AddFront(l, q, n) ==
  /\ Out(n)
  /\ CASE q = NULL     -> AddTail(l, n)
       [] q = _head[l] -> AddHead(l, n)
       [] OTHER        -> In(l, q) /\ Between(l, _prev[q], n, q)

\* Broken variant: the last node's place is not given up.
TakeOut_TailStays(l, n) ==
  /\ In(l, n)
  /\ _prev' = [m \in ListNodes |-> IF m = _next[n] THEN _prev[n] ELSE _prev[m]]
  /\ _next' = [m \in ListNodes |-> IF m = _prev[n] THEN _next[n] ELSE _next[m]]
  /\ _head' = [_head EXCEPT ![l] = IF _prev[n] = NULL THEN _next[n] ELSE @]
  /\ order' = [order EXCEPT ![l] = Without(@, Place(l, n))]
  /\ UNCHANGED <<_tail, asserted>>

\* double_list_remove.
TakeOut(l, n) ==
  /\ In(l, n)
  /\ _prev' = [m \in ListNodes |-> IF m = _next[n] THEN _prev[n] ELSE _prev[m]]
  /\ _next' = [m \in ListNodes |-> IF m = _prev[n] THEN _next[n] ELSE _next[m]]
  /\ _tail' = [_tail EXCEPT ![l] = IF _next[n] = NULL THEN _prev[n] ELSE @]
  /\ _head' = [_head EXCEPT ![l] = IF _prev[n] = NULL THEN _next[n] ELSE @]
  /\ asserted' = (/\ asserted
                  /\ IF _next[n] # NULL THEN _prev[_next[n]] = n ELSE _tail[l] = n
                  /\ IF _prev[n] # NULL THEN _next[_prev[n]] = n ELSE _head[l] = n)
  /\ order' = [order EXCEPT ![l] = Without(@, Place(l, n))]

\* double_list_pop takes the first; double_list_push is AddTail.
Pop(l) == _head[l] # NULL /\ TakeOut(l, _head[l])

ListNext ==
  \E l \in Lists :
    \/ \E n \in ListNodes :
         \/ AddHead(l, n) \/ AddTail(l, n) \/ TakeOut(l, n)
         \/ \E p \in ListNodes \cup {NULL} : AddBack(l, p, n) \/ AddFront(l, p, n)
    \/ Pop(l)

-----------------------------------------------------------------------------
ListTypeOK ==
  /\ {_head, _tail} \subseteq [Lists -> ListNodes \cup {NULL}]
  /\ {_next, _prev} \subseteq [ListNodes -> ListNodes \cup {NULL}]
  /\ order \in [Lists -> Seq(ListNodes)] /\ asserted \in BOOLEAN

\* Forwards and backwards a list is the sequence it should be, whatever its
\* nodes still point to from their former lists, and no ASSERT fails.
ListIsSequence ==
  /\ asserted
  /\ \A l \in Lists :
       LET s == order[l]
           At(i) == IF i \in DOMAIN s THEN s[i] ELSE NULL
       IN  /\ _head[l] = At(1) /\ _tail[l] = At(Len(s))
           /\ \A i \in DOMAIN s : _next[s[i]] = At(i + 1) /\ _prev[s[i]] = At(i - 1)
=============================================================================
