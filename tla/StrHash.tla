------------------------------- MODULE StrHash -------------------------------
(***************************************************************************)
(* The hash tables of antlib (commandlib/hash.c): users of the login       *)
(* service by name, message tables by protocol.  A key's bucket is told by *)
(* its first character; a bucket is a chain of nodes, the newest first.    *)
(* doall_strhash asks dof of every value and drops those it says yes to,   *)
(* the other nodes of a chain before the first.                            *)
(*                                                                         *)
(* Nothing in hash.c takes a lock: its users do, or have a thread each.    *)
(***************************************************************************)
EXTENDS Naturals, Sequences, FiniteSets, Functions

CONSTANTS
  STRHASH_CAP_MAX,
  Keys, IndexOf,  \* IndexOf[k]: get_strindex of a key
  Values, NoValue \* what is stored, and NULL

VARIABLES
  _cap,    \* at each index the chain of nodes (nothing reads _count)
  walk,    \* doall: the index and the place in its chain that it has come to
  \* History: the values set and not deleted, those dof is still to be asked
  \* about, whether all answers were right, and values given to free_data or freef.
  stored, unasked, answered, freed

hashVars == <<_cap, walk, stored, unasked, answered, freed>>

Indexes == 0 .. STRHASH_CAP_MAX - 1
Nodes   == [key : Keys, vl : Values]
Ended   == [i |-> STRHASH_CAP_MAX, n |-> 1]

StoredValues == {stored[k] : k \in Keys} \ {NoValue}

HashInit ==
  /\ _cap = [i \in Indexes |-> <<>>]
  /\ walk = Ended
  /\ stored = [k \in Keys |-> NoValue] /\ unasked = {} /\ answered = TRUE /\ freed = {}

\* The first node with this key.
Has(chain, k)   == \E n \in DOMAIN chain : chain[n].key = k
Place(chain, k) ==
  CHOOSE n \in DOMAIN chain : chain[n].key = k /\ \A m \in 1 .. n - 1 : chain[m].key # k

\* get_str_hash
Get(k) ==
  LET chain == _cap[IndexOf[k]]
  IN  IF Has(chain, k) THEN chain[Place(chain, k)].vl ELSE NoValue

\* One caller at a time uses a table.
Asked(k) == walk = Ended /\ answered' = (answered /\ Get(k) = stored[k])
Idle == UNCHANGED <<walk, unasked>>

\* set_str_hash refuses a key that is there.
Set(k, v) ==
  /\ Asked(k) /\ Idle
  /\ v \notin StoredValues
  /\ IF Get(k) # NoValue THEN UNCHANGED <<_cap, stored>>
     ELSE /\ _cap' = [_cap EXCEPT ![IndexOf[k]] = <<[key |-> k, vl |-> v]>> \o @]
          /\ stored' = [stored EXCEPT ![k] = v]
  /\ freed' = freed \ {v}

\* Broken variant: the rest of the chain goes with the node.
Without_Rest(chain, n) == SubSeq(chain, 1, n - 1)

\* The chain without its node n.
Without(chain, n) == SubSeq(chain, 1, n - 1) \o SubSeq(chain, n + 1, Len(chain))

\* del_str_hash: the value is the caller's.
Del(k) ==
  LET i == IndexOf[k] IN
  /\ Asked(k) /\ Idle
  /\ IF Has(_cap[i], k) THEN _cap' = [_cap EXCEPT ![i] = Without(@, Place(@, k))]
                        ELSE UNCHANGED _cap
  /\ stored' = [stored EXCEPT ![k] = NoValue]
  /\ UNCHANGED freed

Ask(k) == Asked(k) /\ Idle /\ UNCHANGED <<_cap, stored, freed>>

-----------------------------------------------------------------------------
(***************************************************************************)
(* doall_strhash, one call of dof in each step                             *)
(***************************************************************************)
DoAll ==
  /\ walk = Ended
  /\ walk' = [i |-> 0, n |-> 1]
  /\ unasked' = StoredValues
  /\ UNCHANGED <<_cap, stored, answered, freed>>

\* dof is asked about node n of the chain, which goes if it says yes.
Dof(n, yes) ==
  LET i == walk.i
      v == _cap[i][n].vl IN
  /\ unasked' = unasked \ {v}
  /\ answered' = (answered /\ v \in unasked)
  /\ IF yes
     THEN /\ _cap' = [_cap EXCEPT ![i] = Without(@, n)]
          /\ stored' = [k \in Keys |-> IF stored[k] = v THEN NoValue ELSE stored[k]]
          /\ freed' = freed \cup {v}
     ELSE UNCHANGED <<_cap, stored, freed>>

\* Broken variant: the node after a dropped one is not asked about.
After_SkipsOne(n, yes) == n + 1

\* The place after the next node: the next one takes its place if it is dropped.
After(n, yes) == IF yes THEN n ELSE n + 1

DoNext ==
  /\ walk # Ended /\ walk.n < Len(_cap[walk.i])
  /\ \E yes \in BOOLEAN : /\ Dof(walk.n + 1, yes)
                          /\ walk' = [walk EXCEPT !.n = After(@, yes)]

NextIndex == walk' = [i |-> walk.i + 1, n |-> 1]

\* Nodes that follow have been asked about: the first one is the last.
DoFirst ==
  /\ walk # Ended /\ _cap[walk.i] # <<>> /\ walk.n >= Len(_cap[walk.i])
  /\ \E yes \in BOOLEAN : Dof(1, yes)
  /\ NextIndex

SkipEmpty ==
  /\ walk # Ended /\ _cap[walk.i] = <<>>
  /\ NextIndex
  /\ UNCHANGED <<_cap, stored, unasked, answered, freed>>

-----------------------------------------------------------------------------
\* clear_str_hash frees every value.
Clear ==
  /\ walk = Ended
  /\ freed' = freed \cup UNION {{_cap[i][n].vl : n \in DOMAIN _cap[i]} : i \in Indexes}
  /\ _cap' = [i \in Indexes |-> <<>>]
  /\ stored' = [k \in Keys |-> NoValue]
  /\ unasked' = {} /\ UNCHANGED <<walk, answered>>

HashNext ==
  \/ \E k \in Keys : (\E v \in Values : Set(k, v)) \/ Del(k) \/ Ask(k)
  \/ DoAll \/ DoNext \/ DoFirst \/ SkipEmpty
  \/ Clear

-----------------------------------------------------------------------------
HashTypeOK ==
  /\ \A i \in Indexes : _cap[i] \in Seq(Nodes) /\ Len(_cap[i]) <= Cardinality(Keys)
  /\ walk \in [i : 0 .. STRHASH_CAP_MAX, n : Nat \ {0}]
  /\ stored \in [Keys -> Values \cup {NoValue}] /\ answered \in BOOLEAN
  /\ unasked \subseteq Values /\ freed \subseteq Values

\* Over any sequence of calls the table is a map: a key has the value that was
\* set and not deleted since, doall asks about every value that is stored when
\* it begins, each once, and what is freed is not to be found any more.
HashIsMap ==
  /\ answered
  /\ \A k \in Keys : Get(k) = stored[k]
  /\ walk = Ended => unasked = {}
  /\ \A i \in Indexes : \A n \in DOMAIN _cap[i] : _cap[i][n].vl \notin freed
=============================================================================
