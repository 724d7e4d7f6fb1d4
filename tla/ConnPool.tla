------------------------------- MODULE ConnPool -------------------------------
(***************************************************************************)
(* The pool of CSqlConnPool, which CRedisConnPool repeats: idle            *)
(* connections in a list, connections in use in a map by their key.        *)
(*                                                                         *)
(* m_idleMutex is held while a connection moves between the two.  A user   *)
(* who leaves fewer than m_rate idle ones adds m_rate more after he has    *)
(* let go of it, one by one, and others may do so at the same time.        *)
(* If he cannot, he gets an exception, and the connection that he had      *)
(* taken stays in m_usedConn: CMysqlInterface releases it in its           *)
(* destructor, which an object whose constructor throws does not have.     *)
(***************************************************************************)
EXTENDS Integers, Sequences, FiniteSets, Functions

CONSTANTS
  Users,    \* threads that use connections, one at a time each
  Size,     \* connections that Init makes
  m_rate,   \* connections that are added at once
  MaxConns  \* bound of the model: connections that are ever made

\* A connection is the key that GetKey gave it; the wrap at 10^9 is not reached.
Conns == 1 .. MaxConns
NoConn == 0

VARIABLES
  m_idleConn, m_usedConn,
  m_poolSize,  \* it only grows; every connection is counted when it is listed
  hand,        \* the connection a user has taken
  toAdd,       \* how many the user still has to add before he is given it
  leaked       \* history: connections in m_usedConn that nobody can release

poolVars == <<m_idleConn, m_usedConn, m_poolSize, hand, toAdd, leaked>>

PoolInit ==
  /\ m_idleConn = [i \in 1 .. Size |-> i]
  /\ m_usedConn = {} /\ leaked = {}
  /\ m_poolSize = Size
  /\ hand = [u \in Users |-> NoConn]
  /\ toAdd = [u \in Users |-> 0]

\* Broken variant: the pool grows whenever a connection is taken.
LeavesTooFew_Always(size) == TRUE

LeavesTooFew(size) == size - 1 < m_rate

\* GetConnection under the lock; with an empty list the user gets an exception.
TakeConnection(u) ==
  /\ hand[u] = NoConn
  /\ m_idleConn # <<>>
  /\ hand' = [hand EXCEPT ![u] = Head(m_idleConn)]
  /\ m_usedConn' = m_usedConn \cup {Head(m_idleConn)}
  /\ toAdd' = [toAdd EXCEPT ![u] = IF LeavesTooFew(Len(m_idleConn)) THEN m_rate ELSE 0]
  /\ m_idleConn' = Tail(m_idleConn)
  /\ UNCHANGED <<m_poolSize, leaked>>

\* One turn of AddConnecton: the server accepted, the connection is listed.
AddConnection(u) ==
  /\ toAdd[u] > 0 /\ m_poolSize < MaxConns
  /\ m_poolSize' = m_poolSize + 1
  /\ m_idleConn' = Append(m_idleConn, m_poolSize')
  /\ toAdd' = [toAdd EXCEPT ![u] = @ - 1]
  /\ UNCHANGED <<m_usedConn, hand, leaked>>

\* One turn of AddConnecton throws, through GetConnection.
AddFails(u) ==
  /\ toAdd[u] > 0
  /\ toAdd' = [toAdd EXCEPT ![u] = 0]
  /\ leaked' = leaked \cup {hand[u]}
  /\ hand' = [hand EXCEPT ![u] = NoConn]
  /\ UNCHANGED <<m_idleConn, m_usedConn, m_poolSize>>

Uses(u) == hand[u] # NoConn /\ toAdd[u] = 0

\* ReleaseConn; a key that is not in m_usedConn throws.
ReleaseConn(u) ==
  /\ Uses(u) /\ hand[u] \in m_usedConn
  /\ m_usedConn' = m_usedConn \ {hand[u]}
  /\ m_idleConn' = Append(m_idleConn, hand[u])
  /\ hand' = [hand EXCEPT ![u] = NoConn]
  /\ UNCHANGED <<m_poolSize, toAdd, leaked>>

-----------------------------------------------------------------------------
PoolTypeOK ==
  /\ m_idleConn \in Seq(Conns)
  /\ m_usedConn \subseteq Conns /\ leaked \subseteq Conns
  /\ m_poolSize \in 0 .. MaxConns
  /\ hand \in [Users -> Conns \cup {NoConn}]
  /\ toAdd \in [Users -> 0 .. m_rate]

\* Every connection made is idle once, or used by one user, or leaked by a user
\* whose pool could not grow: none is handed to two, none vanishes otherwise.
ConnAccounted ==
  LET inHand == {hand[u] : u \in Users} \ {NoConn} IN
  /\ IsInjective(m_idleConn)
  /\ \A u, v \in Users : hand[u] = hand[v] /\ hand[u] # NoConn => u = v
  /\ m_usedConn = inHand \cup leaked /\ inHand \cap leaked = {}
  /\ Range(m_idleConn) \cap m_usedConn = {}
  /\ Range(m_idleConn) \cup m_usedConn = 1 .. m_poolSize

\* However the users overlap, the pool holds no more than each of them growing
\* it at once can add to it, besides what was leaked.
PoolIsBounded ==
  LET users == Cardinality(Users)
      grown == m_rate - 1 + users + users * m_rate
  IN m_poolSize <= (IF Size > grown THEN Size ELSE grown) + Cardinality(leaked)
=============================================================================
