--------------------------- MODULE SharedParts_proof ---------------------------
(***************************************************************************)
(* Proofs about the parts of SharedParts, for any numbers of users,        *)
(* connections, interpreters, blocks, pointers, slots, players and timers: *)
(* resources are accounted for, subscribers are called in order, and       *)
(* timers are called back when they should be.                             *)
(* Each part has an inductive invariant of its own; the last section puts  *)
(* them together for SharedSpec.                                           *)
(***************************************************************************)
EXTENDS SharedParts, Sequences, Functions, FiniteSetTheorems, TLAPS

-----------------------------------------------------------------------------
(***************************************************************************)
(* Lists, their elements, and lists without repetition.                    *)
(***************************************************************************)

\* The operators of the community modules that a part brings with it are
\* those of these modules.
LEMMA SqlLibrary ==
  /\ \A s : Sql!Range(s) = Range(s)
  /\ \A s : Sql!IsInjective(s) = IsInjective(s)
  /\ \A S : Sql!Cardinality(S) = Cardinality(S)
BY DEF Sql!Range, Range, Sql!IsInjective, IsInjective, Sql!Cardinality, Cardinality

\* The same of the Redis pool.
LEMMA RedisLibrary ==
  /\ \A s : Redis!Range(s) = Range(s)
  /\ \A s : Redis!IsInjective(s) = IsInjective(s)
  /\ \A S : Redis!Cardinality(S) = Cardinality(S)
BY DEF Redis!Range, Range, Redis!IsInjective, IsInjective, Redis!Cardinality, Cardinality

\* The same of the pool of interpreters.
LEMMA LuaLibrary ==
  /\ \A s : Lua!Range(s) = Range(s)
  /\ \A s : Lua!IsInjective(s) = IsInjective(s)
BY DEF Lua!Range, Range, Lua!IsInjective, IsInjective

\* The same of the memory pool.
LEMMA MemoryLibrary ==
  /\ \A s : Memory!Range(s) = Range(s)
  /\ \A s : Memory!IsInjective(s) = IsInjective(s)
  /\ \A S : Memory!Cardinality(S) = Cardinality(S)
BY DEF Memory!Range, Range, Memory!IsInjective, IsInjective, Memory!Cardinality, Cardinality

\* The same of the counted pointers.
LEMMA PtrLibrary == \A S : Ptr!Cardinality(S) = Cardinality(S)
BY DEF Ptr!Cardinality, Cardinality

\* The same of the events.
LEMMA EventLibrary ==
  /\ \A s : Events!Range(s) = Range(s)
  /\ \A s : Events!IsInjective(s) = IsInjective(s)
  /\ \A S : Events!Cardinality(S) = Cardinality(S)
BY DEF Events!Range, Range, Events!IsInjective, IsInjective, Events!Cardinality, Cardinality

\* A list has one element more when one is appended.
LEMMA RangeAppend ==
  ASSUME NEW S, NEW s \in Seq(S), NEW x \in S
  PROVE  Range(Append(s, x)) = Range(s) \cup {x}
<1>1. ASSUME NEW y \in Range(Append(s, x)) PROVE y \in Range(s) \cup {x}
  <2>1. PICK i \in DOMAIN Append(s, x) : Append(s, x)[i] = y
    BY <1>1 DEF Range
  <2>2. CASE i = Len(s) + 1
    BY <2>1, <2>2
  <2>3. CASE i # Len(s) + 1
    <3>1. i \in DOMAIN s /\ s[i] = y
      BY <2>1, <2>3
    <3> QED BY <3>1 DEF Range
  <2> QED BY <2>2, <2>3
<1>2. ASSUME NEW y \in Range(s) \cup {x} PROVE y \in Range(Append(s, x))
  <2>1. CASE y = x
    <3>1. Len(s) + 1 \in DOMAIN Append(s, x) /\ Append(s, x)[Len(s) + 1] = x
      OBVIOUS
    <3> QED BY <2>1, <3>1 DEF Range
  <2>2. CASE y \in Range(s)
    <3>1. PICK i \in DOMAIN s : s[i] = y
      BY <2>2 DEF Range
    <3>2. i \in DOMAIN Append(s, x) /\ Append(s, x)[i] = y
      BY <3>1
    <3> QED BY <3>2 DEF Range
  <2> QED BY <1>2, <2>1, <2>2
<1> QED BY <1>1, <1>2

\* The elements of a list are its head and those of its tail.
LEMMA RangeTail ==
  ASSUME NEW S, NEW s \in Seq(S), s # <<>>
  PROVE  Range(s) = Range(Tail(s)) \cup {Head(s)}
<1>1. ASSUME NEW y \in Range(s) PROVE y \in Range(Tail(s)) \cup {Head(s)}
  <2>1. PICK i \in DOMAIN s : s[i] = y
    BY <1>1 DEF Range
  <2>2. CASE i = 1
    BY <2>1, <2>2
  <2>3. CASE i # 1
    <3>1. i - 1 \in DOMAIN Tail(s) /\ Tail(s)[i - 1] = y
      BY <2>1, <2>3
    <3> QED BY <3>1 DEF Range
  <2> QED BY <2>2, <2>3
<1>2. Head(s) \in Range(s)
  <2>1. 1 \in DOMAIN s /\ s[1] = Head(s)
    OBVIOUS
  <2> QED BY <2>1 DEF Range
<1>3. ASSUME NEW y \in Range(Tail(s)) PROVE y \in Range(s)
  <2>1. PICK i \in DOMAIN Tail(s) : Tail(s)[i] = y
    BY <1>3 DEF Range
  <2>2. i + 1 \in DOMAIN s /\ s[i + 1] = y
    BY <2>1
  <2> QED BY <2>2 DEF Range
<1> QED BY <1>1, <1>2, <1>3

\* A list without repetition stays one when it gets an element that it lacks.
LEMMA InjectiveAppend ==
  ASSUME NEW S, NEW s \in Seq(S), NEW x \in S, IsInjective(s), x \notin Range(s)
  PROVE  IsInjective(Append(s, x))
<1>1. \A i \in DOMAIN s : s[i] # x
  BY DEF Range
<1>2. \A i, j \in DOMAIN s : s[i] = s[j] => i = j
  BY DEF IsInjective
<1>3. SUFFICES ASSUME NEW i \in DOMAIN Append(s, x), NEW j \in DOMAIN Append(s, x),
                      Append(s, x)[i] = Append(s, x)[j]
               PROVE  i = j
  BY DEF IsInjective
<1>4. CASE i \in DOMAIN s /\ j \in DOMAIN s
  BY <1>2, <1>3, <1>4
<1>5. CASE i \in DOMAIN s /\ j \notin DOMAIN s
  BY <1>1, <1>3, <1>5
<1>6. CASE i \notin DOMAIN s /\ j \in DOMAIN s
  BY <1>1, <1>3, <1>6
<1>7. CASE i \notin DOMAIN s /\ j \notin DOMAIN s
  BY <1>7
<1> QED BY <1>4, <1>5, <1>6, <1>7

\* The head of a list without repetition is not in its tail.
LEMMA InjectiveTail ==
  ASSUME NEW S, NEW s \in Seq(S), s # <<>>, IsInjective(s)
  PROVE  IsInjective(Tail(s)) /\ Head(s) \notin Range(Tail(s))
<1>1. \A i, j \in DOMAIN s : s[i] = s[j] => i = j
  BY DEF IsInjective
<1>2. \A i \in DOMAIN Tail(s) : i + 1 \in DOMAIN s /\ Tail(s)[i] = s[i + 1]
  OBVIOUS
<1>3. IsInjective(Tail(s))
  <2>1. \A i, j \in DOMAIN Tail(s) : Tail(s)[i] = Tail(s)[j] => i = j
    BY <1>1, <1>2
  <2> QED BY <2>1 DEF IsInjective
<1>4. \A i \in DOMAIN Tail(s) : Tail(s)[i] # Head(s)
  BY <1>1, <1>2
<1> QED BY <1>3, <1>4 DEF Range

\* As many elements as places.
LEMMA InjectiveCounted ==
  ASSUME NEW S, NEW s \in Seq(S), IsInjective(s)
  PROVE  IsFiniteSet(Range(s)) /\ Cardinality(Range(s)) = Len(s)
<1>1. s \in Bijection(1 .. Len(s), Range(s))
  <2>1. s \in [1 .. Len(s) -> Range(s)]
    BY DEF Range
  <2>2. \A t \in Range(s) : \E i \in 1 .. Len(s) : s[i] = t
    BY DEF Range
  <2> QED BY <2>1, <2>2 DEF Bijection, Injection, Surjection
<1>2. IsFiniteSet(1 .. Len(s)) /\ Cardinality(1 .. Len(s)) = Len(s)
  <2>1. Len(s) \in Nat
    OBVIOUS
  <2>2. /\ IsFiniteSet(1 .. Len(s))
        /\ Cardinality(1 .. Len(s)) = IF 1 > Len(s) THEN 0 ELSE Len(s) - 1 + 1
    BY <2>1, FS_Interval, SMTT(30)
  <2> QED BY <2>1, <2>2
<1>3. ExistsBijection(1 .. Len(s), Range(s))
  BY <1>1 DEF ExistsBijection
<1> QED BY <1>2, <1>3, FS_Bijection

-----------------------------------------------------------------------------
(***************************************************************************)
(* The pool of connections.  The SQL and the Redis pool are the same but   *)
(* for their bounds, so what holds of both is proved of steps that know    *)
(* no bound.                                                               *)
(***************************************************************************)
InHand == {hand[u] : u \in Users} \ {0}

\* AddConnecton lists one more connection.
ListsOne(u) ==
  /\ toAdd[u] > 0
  /\ m_poolSize' = m_poolSize + 1
  /\ m_idleConn' = Append(m_idleConn, m_poolSize')
  /\ toAdd' = [toAdd EXCEPT ![u] = @ - 1]
  /\ UNCHANGED <<m_usedConn, hand, leaked>>

\* A user's step on the pool.
PoolStep(u) ==
  Sql!TakeConnection(u) \/ ListsOne(u) \/ Sql!AddFails(u) \/ Sql!ReleaseConn(u)

PoolTypes ==
  /\ m_idleConn \in Seq(Nat) /\ m_poolSize \in Nat
  /\ hand \in [Users -> Nat] /\ toAdd \in [Users -> 0 .. m_rate]

\* Each connection is where ConnAccounted says, and only who holds one adds.
PoolPlaces ==
  /\ IsInjective(m_idleConn)
  /\ \A u, v \in Users : hand[u] = hand[v] /\ hand[u] # 0 => u = v
  /\ m_usedConn = InHand \cup leaked /\ InHand \cap leaked = {}
  /\ Range(m_idleConn) \cap m_usedConn = {}
  /\ Range(m_idleConn) \cup m_usedConn = 1 .. m_poolSize
  /\ \A u \in Users : toAdd[u] > 0 => hand[u] # 0

PoolInv == PoolTypes /\ PoolPlaces

\* The connections that are still to be added, each as a pair of its own.
ToCome == {x \in Users \X (1 .. m_rate) : x[2] <= toAdd[x[1]]}

PoolBound ==
  LET users == Cardinality(Users)
      grown == m_rate - 1 + users + users * m_rate
  IN IF PoolSize > grown THEN PoolSize ELSE grown

PoolGrowth == m_poolSize + Cardinality(ToCome) <= PoolBound + Cardinality(leaked)

\* The first connections are all idle.
LEMMA PoolStarts ==
  ASSUME Sql!PoolInit
  PROVE  PoolInv /\ Range(m_idleConn) = 1 .. PoolSize
<1> USE PoolAssumption DEF Sql!PoolInit, Sql!NoConn
<1>1. PoolTypes
  <2>1. m_idleConn \in Seq(Nat)
    BY SMT
  <2> QED BY <2>1 DEF PoolTypes
<1>2. Range(m_idleConn) = 1 .. PoolSize
  BY DEF Range
<1>3. IsInjective(m_idleConn)
  BY DEF IsInjective
<1>4. InHand = {}
  BY DEF InHand
<1>5. PoolPlaces
  BY <1>2, <1>3, <1>4 DEF PoolPlaces
<1> QED BY <1>1, <1>2, <1>5 DEF PoolInv

\* A step moves connections as it should.
LEMMA PoolTake ==
  ASSUME NEW u \in Users, PoolInv, Sql!TakeConnection(u)
  PROVE  PoolInv'
<1> USE DEF PoolInv, Sql!TakeConnection, Sql!NoConn
<1> DEFINE c == Head(m_idleConn)
<1>1. /\ m_idleConn \in Seq(Nat) /\ m_idleConn # <<>>
      /\ hand \in [Users -> Nat] /\ toAdd \in [Users -> 0 .. m_rate]
  BY DEF PoolTypes
<1>2. /\ c \in Nat /\ m_idleConn' \in Seq(Nat) /\ Len(m_idleConn) \in Nat
      /\ Range(m_idleConn) = Range(m_idleConn') \cup {c}
      /\ IsInjective(m_idleConn') /\ c \notin Range(m_idleConn')
  BY <1>1, RangeTail, InjectiveTail DEF PoolPlaces
<1>3. c # 0 /\ c \in 1 .. m_poolSize /\ c \notin m_usedConn
  BY <1>2 DEF PoolPlaces, PoolTypes
<1> HIDE DEF c
<1>4. hand' = [hand EXCEPT ![u] = c] /\ m_usedConn' = m_usedConn \cup {c} /\ hand[u] = 0
  BY DEF c
<1>5. PoolTypes'
  <2>1. toAdd' \in [Users -> 0 .. m_rate]
    <3>1. (IF Sql!LeavesTooFew(Len(m_idleConn)) THEN m_rate ELSE 0) \in 0 .. m_rate
      BY PoolAssumption
    <3> QED BY <1>1, <3>1
  <2> QED BY <1>1, <1>2, <1>4, <2>1 DEF PoolTypes
<1>6. InHand' = InHand \cup {c}
  BY <1>1, <1>3, <1>4 DEF InHand
<1>7. PoolPlaces'
  <2>1. \A v, w \in Users : hand'[v] = hand'[w] /\ hand'[v] # 0 => v = w
    <3>1. \A v \in Users : hand[v] # c
      BY <1>3 DEF PoolPlaces, InHand
    <3> QED BY <1>1, <1>4, <3>1 DEF PoolPlaces
  <2>2. m_usedConn' = InHand' \cup leaked' /\ InHand' \cap leaked' = {}
    BY <1>3, <1>4, <1>6 DEF PoolPlaces
  <2>3. Range(m_idleConn') \cap m_usedConn' = {}
    BY <1>2, <1>4 DEF PoolPlaces
  <2>4. Range(m_idleConn') \cup m_usedConn' = 1 .. m_poolSize'
    BY <1>2, <1>4 DEF PoolPlaces
  <2>5. \A v \in Users : toAdd'[v] > 0 => hand'[v] # 0
    BY <1>1, <1>3, <1>4 DEF PoolPlaces
  <2> QED BY <1>2, <2>1, <2>2, <2>3, <2>4, <2>5 DEF PoolPlaces
<1> QED BY <1>5, <1>7

\* AddConnecton lists a connection that was in no place before.
LEMMA PoolLists ==
  ASSUME NEW u \in Users, PoolInv, ListsOne(u)
  PROVE  PoolInv'
<1> USE DEF PoolInv, ListsOne
<1>1. /\ m_idleConn \in Seq(Nat) /\ m_poolSize \in Nat /\ m_poolSize' = m_poolSize + 1
      /\ hand \in [Users -> Nat] /\ toAdd \in [Users -> 0 .. m_rate] /\ m_rate \in Nat
  BY PoolAssumption DEF PoolTypes
<1>2. m_poolSize' \in Nat /\ m_poolSize' \notin 1 .. m_poolSize
  BY <1>1
<1>3. PoolTypes'
  <2>1. toAdd' \in [Users -> 0 .. m_rate]
    <3>1. toAdd[u] - 1 \in 0 .. m_rate
      BY <1>1
    <3> QED BY <1>1, <3>1
  <2> QED BY <1>1, <1>2, <2>1 DEF PoolTypes
<1>4. Range(m_idleConn') = Range(m_idleConn) \cup {m_poolSize'}
  <2>1. PICK n \in Nat : n = m_poolSize'
    BY <1>2
  <2>2. m_idleConn' = Append(m_idleConn, n)
    BY <2>1
  <2>3. Range(Append(m_idleConn, n)) = Range(m_idleConn) \cup {n}
    <3>1. m_idleConn \in Seq(Nat) /\ n \in Nat
      BY <1>1
    <3> QED BY ONLY <3>1, RangeAppend
  <2> QED BY <2>1, <2>2, <2>3
<1>5. IsInjective(m_idleConn')
  BY <1>1, <1>2, InjectiveAppend DEF PoolPlaces
<1>6. 1 .. m_poolSize' = (1 .. m_poolSize) \cup {m_poolSize'}
  BY <1>1
<1>7. InHand' = InHand
  BY DEF InHand
<1>8. PoolPlaces'
  <2>1. m_usedConn' = m_usedConn /\ leaked' = leaked /\ hand' = hand
    OBVIOUS
  <2>2. Range(m_idleConn') \cap m_usedConn' = {}
    BY <1>2, <1>4, <2>1 DEF PoolPlaces
  <2>3. Range(m_idleConn') \cup m_usedConn' = 1 .. m_poolSize'
    BY <1>4, <1>6, <2>1 DEF PoolPlaces
  <2>4. \A v \in Users : toAdd'[v] > 0 => hand'[v] # 0
    BY <1>1, <2>1 DEF PoolPlaces
  <2> QED BY <1>5, <1>7, <2>1, <2>2, <2>3, <2>4 DEF PoolPlaces
<1> QED BY <1>3, <1>8

\* A user whose AddConnecton fails leaves the connection it holds behind.
LEMMA PoolAddFails ==
  ASSUME NEW u \in Users, PoolInv, Sql!AddFails(u)
  PROVE  PoolInv' /\ hand[u] \in InHand /\ leaked' = leaked \cup {hand[u]}
<1> USE DEF PoolInv, Sql!AddFails, Sql!NoConn
<1>1. hand \in [Users -> Nat] /\ toAdd \in [Users -> 0 .. m_rate] /\ m_rate \in Nat
  BY PoolAssumption DEF PoolTypes
<1>2. PoolTypes'
  <2>1. toAdd' \in [Users -> 0 .. m_rate] /\ hand' \in [Users -> Nat]
    BY <1>1
  <2> QED BY <2>1 DEF PoolTypes
<1>3. hand[u] # 0
  BY <1>1 DEF PoolPlaces
<1>4. hand[u] \in InHand
  BY <1>3 DEF InHand
<1>5. InHand' = InHand \ {hand[u]}
  <2>1. \A v \in Users : hand'[v] = IF v = u THEN 0 ELSE hand[v]
    BY <1>1
  <2>2. \A v \in Users : v # u => hand[v] # hand[u]
    BY <1>3 DEF PoolPlaces
  <2> QED BY <1>3, <2>1, <2>2 DEF InHand
<1>6. PoolPlaces'
  <2>1. \A v, w \in Users : hand'[v] = hand'[w] /\ hand'[v] # 0 => v = w
    BY <1>1 DEF PoolPlaces
  <2>2. m_usedConn' = InHand' \cup leaked' /\ InHand' \cap leaked' = {}
    BY <1>4, <1>5 DEF PoolPlaces
  <2>3. \A v \in Users : toAdd'[v] > 0 => hand'[v] # 0
    BY <1>1 DEF PoolPlaces
  <2> QED BY <2>1, <2>2, <2>3 DEF PoolPlaces
<1> QED BY <1>2, <1>4, <1>6

\* ReleaseConnection makes the user's connection idle.
LEMMA PoolRelease ==
  ASSUME NEW u \in Users, PoolInv, Sql!ReleaseConn(u)
  PROVE  /\ PoolInv' /\ Range(m_idleConn') = Range(m_idleConn) \cup {hand[u]}
         /\ hand[u] \in 1 .. m_poolSize
<1> USE DEF PoolInv, Sql!ReleaseConn, Sql!Uses, Sql!NoConn
<1>1. /\ m_idleConn \in Seq(Nat) /\ hand \in [Users -> Nat]
      /\ toAdd \in [Users -> 0 .. m_rate] /\ hand[u] \in Nat /\ hand[u] # 0
  BY DEF PoolTypes
<1>2. hand[u] \in InHand
  BY <1>1 DEF InHand
<1>3. InHand' = InHand \ {hand[u]}
  <2>1. \A v \in Users : hand'[v] = IF v = u THEN 0 ELSE hand[v]
    BY <1>1
  <2>2. \A v \in Users : v # u => hand[v] # hand[u]
    BY <1>1 DEF PoolPlaces
  <2> QED BY <1>1, <2>1, <2>2 DEF InHand
<1>4. PoolTypes'
  BY <1>1 DEF PoolTypes
<1>5. hand[u] \notin Range(m_idleConn) /\ hand[u] \in 1 .. m_poolSize
  BY <1>2 DEF PoolPlaces
<1>6. Range(m_idleConn') = Range(m_idleConn) \cup {hand[u]}
  BY <1>1, RangeAppend, SMTT(30)
<1>7. PoolPlaces'
  <2>1. \A v, w \in Users : hand'[v] = hand'[w] /\ hand'[v] # 0 => v = w
    BY <1>1 DEF PoolPlaces
  <2>2. m_usedConn' = InHand' \cup leaked' /\ InHand' \cap leaked' = {}
    BY <1>2, <1>3 DEF PoolPlaces
  <2>3. \A v \in Users : toAdd'[v] > 0 => hand'[v] # 0
    BY <1>1 DEF PoolPlaces
  <2>4. IsInjective(m_idleConn')
    BY <1>1, <1>5, InjectiveAppend DEF PoolPlaces
  <2>5. /\ Range(m_idleConn') \cap m_usedConn' = {}
        /\ Range(m_idleConn') \cup m_usedConn' = 1 .. m_poolSize'
    BY <1>5, <1>6 DEF PoolPlaces
  <2> QED BY <2>1, <2>2, <2>3, <2>4, <2>5 DEF PoolPlaces
<1> QED BY <1>4, <1>5, <1>6, <1>7

\* Each step of a user keeps the places of the connections.
LEMMA PoolStepKeepsInv ==
  ASSUME NEW u \in Users, PoolInv, PoolStep(u)
  PROVE  PoolInv'
BY PoolTake, PoolLists, PoolAddFails, PoolRelease DEF PoolStep

\* However the connections are spread, those in hand are as many as the users
\* at most.
LEMMA SpreadCounted ==
  ASSUME NEW idle \in Seq(Nat), NEW h \in [Users -> Nat], NEW l, NEW n \in Nat,
         IsInjective(idle),
         Range(idle) \cup ({h[u] : u \in Users} \ {0}) \cup l = 1 .. n,
         ({h[u] : u \in Users} \ {0}) \cap l = {},
         Range(idle) \cap (({h[u] : u \in Users} \ {0}) \cup l) = {}
  PROVE  /\ IsFiniteSet(l) /\ Cardinality(l) \in Nat /\ Cardinality(Users) \in Nat
         /\ n <= Len(idle) + Cardinality(Users) + Cardinality(l)
<1> DEFINE H == {h[u] : u \in Users} \ {0}
<1>0. H \cap l = {} /\ Range(idle) \cap (H \cup l) = {} /\ Range(idle) \cup (H \cup l) = 1 .. n
  OBVIOUS
<1>1. IsFiniteSet(Users) /\ Cardinality(Users) \in Nat
  BY PoolAssumption, FS_CardinalityType
<1>2. IsFiniteSet(1 .. n) /\ Cardinality(1 .. n) = n
  <2>1. /\ IsFiniteSet(1 .. n)
        /\ Cardinality(1 .. n) = IF 1 > n THEN 0 ELSE n - 1 + 1
    BY FS_Interval
  <2> QED BY <2>1
<1>3. IsFiniteSet(H \cup l) /\ IsFiniteSet(l) /\ Cardinality(l) \in Nat
      /\ Cardinality(H \cup l) \in Nat
  BY <1>2, FS_Subset, FS_CardinalityType
<1>4. IsFiniteSet(H) /\ Cardinality(H) <= Cardinality(Users) /\ Cardinality(H) \in Nat
  <2>1. h \in Surjection(Users, Range(h))
    BY DEF Surjection, Range
  <2>2. IsFiniteSet(Range(h)) /\ Cardinality(Range(h)) <= Cardinality(Users)
    BY <1>1, <2>1, FS_Surjection
  <2>3. H \subseteq Range(h)
    BY DEF Range
  <2>4. IsFiniteSet(H) /\ Cardinality(H) <= Cardinality(Range(h))
    BY <2>2, <2>3, FS_Subset
  <2>5. Cardinality(H) \in Nat /\ Cardinality(Range(h)) \in Nat
    BY <2>2, <2>4, FS_CardinalityType
  <2> QED BY <1>1, <2>2, <2>4, <2>5
<1>5. Cardinality(H \cup l) = Cardinality(H) + Cardinality(l)
  <2>1. Cardinality(H \cup l) = Cardinality(H) + Cardinality(l) - Cardinality({})
    BY <1>3, <1>4, FS_Union
  <2> QED BY <1>3, <1>4, <2>1, FS_EmptySet
<1>6. n = Len(idle) + Cardinality(H \cup l)
  <2>1. /\ IsFiniteSet(Range(idle)) /\ Cardinality(Range(idle)) = Len(idle)
        /\ Len(idle) \in Nat
    BY InjectiveCounted
  <2>2. Cardinality(Range(idle) \cup (H \cup l))
          = Cardinality(Range(idle)) + Cardinality(H \cup l)
              - Cardinality(Range(idle) \cap (H \cup l))
    <3> HIDE DEF H
    <3> QED BY <1>3, <2>1, FS_Union
  <2> HIDE DEF H
  <2>3. n = Len(idle) + Cardinality(H \cup l) - 0
    BY <1>0, <1>2, <2>1, <2>2, FS_EmptySet
  <2> QED BY <1>3, <2>1, <2>3
<1>7. Len(idle) \in Nat
  OBVIOUS
<1> HIDE DEF H
<1> QED BY <1>1, <1>3, <1>4, <1>5, <1>6, <1>7

\* No more connections than are idle, left behind, or one for each user.
LEMMA PoolCounted ==
  ASSUME PoolInv
  PROVE  /\ IsFiniteSet(leaked) /\ Cardinality(leaked) \in Nat
         /\ Cardinality(Users) \in Nat
         /\ m_poolSize <= Len(m_idleConn) + Cardinality(Users) + Cardinality(leaked)
<1>1. m_idleConn \in Seq(Nat) /\ hand \in [Users -> Nat] /\ m_poolSize \in Nat
  BY DEF PoolInv, PoolTypes
<1>2. /\ IsInjective(m_idleConn)
      /\ Range(m_idleConn) \cup ({hand[u] : u \in Users} \ {0}) \cup leaked = 1 .. m_poolSize
      /\ ({hand[u] : u \in Users} \ {0}) \cap leaked = {}
      /\ Range(m_idleConn) \cap (({hand[u] : u \in Users} \ {0}) \cup leaked) = {}
  BY DEF PoolInv, PoolPlaces, InHand
<1> QED BY <1>1, <1>2, SpreadCounted

\* A user adds at most m_rate connections at a time.
LEMMA ToComeCounted ==
  ASSUME NEW T \in SUBSET (Users \X (1 .. m_rate))
  PROVE  /\ IsFiniteSet(T) /\ Cardinality(T) \in Nat
         /\ Cardinality(T) <= Cardinality(Users) * m_rate
<1>1. m_rate \in Nat /\ IsFiniteSet(Users)
  BY PoolAssumption
<1>2. IsFiniteSet(1 .. m_rate) /\ Cardinality(1 .. m_rate) = m_rate
  <2>1. /\ IsFiniteSet(1 .. m_rate)
        /\ Cardinality(1 .. m_rate) = IF 1 > m_rate THEN 0 ELSE m_rate - 1 + 1
    BY <1>1, FS_Interval
  <2> QED BY <1>1, <2>1
<1>3. /\ IsFiniteSet(Users \X (1 .. m_rate))
      /\ Cardinality(Users \X (1 .. m_rate)) = Cardinality(Users) * m_rate
  BY <1>1, <1>2, FS_Product
<1> QED BY <1>3, FS_Subset, FS_CardinalityType

\* A sum that fits still does when it takes no more and leaves no less.
LEMMA StillFits ==
  ASSUME NEW n \in Nat, NEW b \in Nat, NEW c \in Nat, NEW l \in Nat, n + c <= b + l,
         NEW d \in Nat, d <= c, NEW k \in Nat, l <= k
  PROVE  n + d <= b + k
OBVIOUS

\* The pool never outgrows its bound.
LEMMA PoolGrowthKept ==
  ASSUME NEW u \in Users, PoolInv, PoolInv', PoolStep(u), PoolGrowth
  PROVE  PoolGrowth'
<1>1. /\ IsFiniteSet(leaked) /\ Cardinality(leaked) \in Nat /\ Cardinality(Users) \in Nat
      /\ m_poolSize <= Len(m_idleConn) + Cardinality(Users) + Cardinality(leaked)
  BY PoolCounted
<1>2. /\ IsFiniteSet(ToCome) /\ Cardinality(ToCome) \in Nat
      /\ Cardinality(ToCome) <= Cardinality(Users) * m_rate
  BY ToComeCounted DEF ToCome
<1>3. PICK A : A = ToCome'
  OBVIOUS
<1>4. IsFiniteSet(A) /\ Cardinality(A) \in Nat /\ Cardinality(A) <= Cardinality(Users) * m_rate
  <2>1. A \in SUBSET (Users \X (1 .. m_rate))
    BY <1>3 DEF ToCome
  <2> QED BY <2>1, ToComeCounted
<1>5. PICK L : L = leaked'
  OBVIOUS
<1>6. /\ IsFiniteSet(L) /\ Cardinality(L) \in Nat
      /\ m_poolSize' <= Len(m_idleConn') + Cardinality(Users) + Cardinality(L)
  <2>1. PICK idle : idle = m_idleConn'
    OBVIOUS
  <2>2. PICK h : h = hand'
    OBVIOUS
  <2>3. PICK n : n = m_poolSize'
    OBVIOUS
  <2>4. idle \in Seq(Nat) /\ h \in [Users -> Nat] /\ n \in Nat
    BY <2>1, <2>2, <2>3 DEF PoolInv, PoolTypes
  <2>5. /\ IsInjective(idle)
        /\ Range(idle) \cup ({h[v] : v \in Users} \ {0}) \cup L = 1 .. n
        /\ ({h[v] : v \in Users} \ {0}) \cap L = {}
        /\ Range(idle) \cap (({h[v] : v \in Users} \ {0}) \cup L) = {}
    BY <1>5, <2>1, <2>2, <2>3 DEF PoolInv, PoolPlaces, InHand
  <2>6. /\ IsFiniteSet(L) /\ Cardinality(L) \in Nat
        /\ n <= Len(idle) + Cardinality(Users) + Cardinality(L)
    BY <2>4, <2>5, SpreadCounted
  <2> QED BY <2>1, <2>3, <2>6
<1>7. /\ m_poolSize \in Nat /\ PoolSize \in Nat /\ m_rate \in Nat
      /\ toAdd \in [Users -> 0 .. m_rate] /\ Len(m_idleConn) \in Nat
      /\ m_idleConn \in Seq(Nat)
  BY PoolAssumption DEF PoolInv, PoolTypes
<1>8. PoolBound \in Nat
  <2>1. Cardinality(Users) * m_rate \in Nat
    BY <1>1, <1>7
  <2> QED BY <1>1, <1>7, <2>1, SMTT(30) DEF PoolBound
<1>9. SUFFICES m_poolSize' + Cardinality(A) <= PoolBound + Cardinality(L)
  BY <1>3, <1>5 DEF PoolGrowth
<1>14. m_poolSize + Cardinality(ToCome) <= PoolBound + Cardinality(leaked)
  BY DEF PoolGrowth
<1>10. CASE Sql!TakeConnection(u)
  <2>1. m_poolSize' = m_poolSize /\ L = leaked /\ m_idleConn # <<>>
    BY <1>5, <1>10 DEF Sql!TakeConnection
  <2>2. CASE Sql!LeavesTooFew(Len(m_idleConn))
    <3>1. Len(m_idleConn) - 1 < m_rate
      BY <2>2 DEF Sql!LeavesTooFew
    <3>2. m_rate - 1 + Cardinality(Users) + Cardinality(Users) * m_rate <= PoolBound
      <4>1. PICK p \in Nat : p = Cardinality(Users) * m_rate
        BY <1>1, <1>7
      <4> QED BY <1>1, <1>7, <4>1, SMTT(30) DEF PoolBound
    <3>3. PICK p \in Nat : p = Cardinality(Users) * m_rate
      BY <1>1, <1>7
    <3>4. Len(m_idleConn') = Len(m_idleConn) - 1
      <4>1. m_idleConn' = Tail(m_idleConn)
        BY <1>10 DEF Sql!TakeConnection
      <4> QED BY <1>7, <2>1, <4>1
    <3>5. m_poolSize <= m_rate - 1 + Cardinality(Users) + Cardinality(leaked)
      BY <1>1, <1>6, <1>7, <2>1, <3>1, <3>4, SMTT(30)
    <3>6. Cardinality(A) <= p /\ m_rate - 1 + Cardinality(Users) + p <= PoolBound
      BY <1>4, <3>2, <3>3
    <3>7. Cardinality(A) \in Nat /\ Cardinality(leaked) \in Nat /\ Cardinality(Users) \in Nat
      BY <1>1, <1>4
    <3> QED BY <1>7, <1>8, <2>1, <3>5, <3>6, <3>7, SMTT(30)
  <2>3. CASE ~Sql!LeavesTooFew(Len(m_idleConn))
    <3>1. toAdd' = [toAdd EXCEPT ![u] = 0]
      BY <1>10, <2>3 DEF Sql!TakeConnection
    <3>2. A \subseteq ToCome
      BY <1>3, <1>7, <3>1 DEF ToCome
    <3>3. Cardinality(A) <= Cardinality(ToCome)
      BY <1>2, <3>2, FS_Subset
    <3>4. m_poolSize + Cardinality(A) <= PoolBound + Cardinality(leaked)
      BY ONLY <1>1, <1>2, <1>4, <1>7, <1>8, <1>14, <3>3, StillFits
    <3> QED BY ONLY <2>1, <3>4
  <2> QED BY <2>2, <2>3
<1>11. CASE ListsOne(u)
  <2>1. /\ m_poolSize' = m_poolSize + 1 /\ L = leaked
        /\ toAdd' = [toAdd EXCEPT ![u] = @ - 1] /\ toAdd[u] > 0
    BY <1>5, <1>11 DEF ListsOne
  <2>2. toAdd[u] \in 1 .. m_rate
    BY <1>7, <2>1
  <2>3. A = ToCome \ {<<u, toAdd[u]>>}
    <3>1. \A v \in Users, i \in 1 .. m_rate :
            i <= toAdd'[v] <=> i <= toAdd[v] /\ <<v, i>> # <<u, toAdd[u]>>
      BY <1>7, <2>1, <2>2
    <3> QED BY <1>3, <3>1 DEF ToCome
  <2>4. <<u, toAdd[u]>> \in ToCome
    BY <1>7, <2>2 DEF ToCome
  <2>5. Cardinality(A) = Cardinality(ToCome) - 1
    BY <1>2, <2>3, <2>4, FS_RemoveElement
  <2> QED BY ONLY <1>1, <1>2, <1>7, <1>8, <1>14, <2>1, <2>5
<1>12. CASE Sql!AddFails(u)
  <2>1. m_poolSize' = m_poolSize /\ leaked \subseteq L /\ toAdd' = [toAdd EXCEPT ![u] = 0]
    BY <1>5, <1>12 DEF Sql!AddFails
  <2>2. A \subseteq ToCome
    BY <1>3, <1>7, <2>1 DEF ToCome
  <2>3. Cardinality(A) <= Cardinality(ToCome)
    BY <1>2, <2>2, FS_Subset
  <2>4. Cardinality(leaked) <= Cardinality(L)
    BY <1>6, <2>1, FS_Subset
  <2>5. m_poolSize + Cardinality(A) <= PoolBound + Cardinality(L)
    BY ONLY <1>1, <1>2, <1>4, <1>6, <1>7, <1>8, <1>14, <2>3, <2>4, StillFits
  <2> QED BY ONLY <2>1, <2>5
<1>13. CASE Sql!ReleaseConn(u)
  <2>1. m_poolSize' = m_poolSize /\ L = leaked /\ A = ToCome
    BY <1>3, <1>5, <1>13 DEF Sql!ReleaseConn, ToCome
  <2> QED BY <2>1 DEF PoolGrowth
<1> QED BY <1>10, <1>11, <1>12, <1>13 DEF PoolStep

\* At the start none is to be added.
LEMMA PoolGrowthStarts ==
  ASSUME Sql!PoolInit
  PROVE  PoolGrowth
<1>1. PoolInv
  BY PoolStarts
<1>2. m_poolSize = PoolSize /\ leaked = {} /\ toAdd = [u \in Users |-> 0]
  BY DEF Sql!PoolInit
<1>3. ToCome = {}
  BY <1>2, PoolAssumption DEF ToCome
<1>4. PoolSize <= PoolBound /\ PoolBound \in Nat /\ PoolSize \in Nat
  <2>1. Cardinality(Users) \in Nat /\ m_rate \in Nat /\ PoolSize \in Nat
    BY PoolAssumption, FS_CardinalityType
  <2>2. PICK p \in Nat : p = Cardinality(Users) * m_rate
    BY <2>1
  <2> QED BY <2>1, <2>2 DEF PoolBound
<1> QED BY <1>2, <1>3, <1>4, FS_EmptySet DEF PoolGrowth

\* What the growth means for the size of the pool.
LEMMA PoolIsWithinBound ==
  ASSUME PoolInv, PoolGrowth
  PROVE  m_poolSize <= PoolBound + Cardinality(leaked)
<1>1. Cardinality(ToCome) \in Nat /\ Cardinality(leaked) \in Nat /\ Cardinality(Users) \in Nat
  BY ToComeCounted, PoolCounted DEF ToCome
<1>2. m_poolSize \in Nat /\ m_rate \in Nat /\ PoolSize \in Nat
  BY PoolAssumption DEF PoolInv, PoolTypes
<1>3. PoolBound \in Int
  <2>1. PICK p \in Nat : p = Cardinality(Users) * m_rate
    BY <1>1, <1>2
  <2> QED BY <1>1, <1>2, <2>1 DEF PoolBound
<1> QED BY <1>1, <1>2, <1>3 DEF PoolGrowth

\* The SQL pool's steps are steps on a pool, whatever its bound.
LEMMA SqlStepsOnPool ==
  ASSUME NEW u \in Users,
         \/ Sql!TakeConnection(u) \/ Sql!AddConnection(u) \/ Sql!AddFails(u)
         \/ Sql!ReleaseConn(u)
  PROVE  PoolStep(u)
BY DEF PoolStep, ListsOne, Sql!AddConnection

-----------------------------------------------------------------------------
(***************************************************************************)
(* The connections of SQL.                                                 *)
(***************************************************************************)

\* Results are left after the current one only of a CALL whose rows are stored.
LeavesInSync(x) ==
  \/ x.more = <<>>
  \/ x.more = Sql!OfCall /\ x.m_isFunc = TRUE /\ x.m_results = TRUE

SqlInv ==
  /\ m_poolSize <= MaxSqlConns
  /\ conn \in [Sql!Conns -> Sql!ConnStates]
  /\ \A c \in Sql!Conns : LeavesInSync(conn[c])
  /\ \A c \in Range(m_idleConn) : conn[c].more = <<>>
  /\ \A c \in Sql!Conns : c > m_poolSize => conn[c] = Sql!NewConn

\* Clear reads what a CALL has left.
LEMMA ClearReadsAll ==
  ASSUME NEW x \in Sql!ConnStates, LeavesInSync(x)
  PROVE  /\ Sql!Clear(x) = Sql!NewConn
         /\ Sql!BeforeExce(x).more = <<>>
         /\ Sql!BeforeQuery(x) \in Sql!ConnStates /\ Sql!BeforeQuery(x).more = <<>>
<1>1. Sql!AfterStatus(Sql!OfCall) = <<>>
  <2> DEFINE ends == {i \in DOMAIN Sql!OfCall : Sql!OfCall[i] = "status"}
  <2>1. ends = {2} /\ Len(Sql!OfCall) = 2
    BY DEF Sql!OfCall
  <2>2. (CHOOSE i \in ends : \A j \in ends : i <= j) = 2
    BY <2>1
  <2>3. Sql!AfterStatus(Sql!OfCall) = SubSeq(Sql!OfCall, 2 + 1, Len(Sql!OfCall))
    BY <2>1, <2>2 DEF Sql!AfterStatus
  <2>4. SubSeq(Sql!OfCall, 3, 2) = <<>>
    BY DEF Sql!OfCall
  <2> QED BY <2>1, <2>3, <2>4
<1>2. Sql!AfterStatus(<<>>) = <<>>
  BY DEF Sql!AfterStatus
<1>3. Sql!Clear(x).more = <<>>
  BY <1>1, <1>2 DEF LeavesInSync, Sql!Clear, Sql!ConnStates, Sql!NewConn
<1>4. Sql!Clear(x) = Sql!NewConn
  BY <1>1, <1>2 DEF LeavesInSync, Sql!Clear, Sql!ConnStates, Sql!NewConn
<1>5. Sql!NewConn \in Sql!ConnStates /\ Sql!NewConn.more = <<>>
  BY DEF Sql!NewConn, Sql!ConnStates
<1>6. x.m_results = FALSE => x.more = <<>>
  BY DEF LeavesInSync
<1>7. x.m_results \in BOOLEAN
  BY DEF Sql!ConnStates
<1> QED BY <1>4, <1>5, <1>6, <1>7 DEF Sql!BeforeExce, Sql!BeforeQuery

\* New SQL connections have nothing left to read.
LEMMA SqlStarts ==
  ASSUME Sql!SqlInit
  PROVE  SqlInv
<1>1. Sql!PoolInit /\ conn = [c \in Sql!Conns |-> Sql!NewConn]
  BY DEF Sql!SqlInit
<1>2. Sql!NewConn \in Sql!ConnStates /\ Sql!NewConn.more = <<>>
  BY DEF Sql!NewConn, Sql!ConnStates
<1>3. Range(m_idleConn) = 1 .. PoolSize /\ m_poolSize = PoolSize /\ PoolSize <= MaxSqlConns
  BY <1>1, PoolStarts, PoolAssumption DEF Sql!PoolInit
<1>4. 1 .. PoolSize \subseteq Sql!Conns
  BY PoolAssumption, <1>3 DEF Sql!Conns
<1> QED BY <1>1, <1>2, <1>3, <1>4 DEF SqlInv, LeavesInSync

\* A statement on the connection in hand.
LEMMA OperateKeepsSync ==
  ASSUME NEW u \in Users, PoolInv, SqlInv, Sql!Uses(u), UNCHANGED Sql!poolVars,
         NEW x \in Sql!ConnStates, x.more = <<>>,
         NEW isFunc \in BOOLEAN, NEW outcomes \in SUBSET Sql!ConnStates,
         \A y \in outcomes : LeavesInSync([y EXCEPT !.m_isFunc = isFunc]),
         Sql!Operate(u, x, isFunc, outcomes)
  PROVE  SqlInv'
<1>1. PICK y \in outcomes \cup {x} :
        conn' = [conn EXCEPT ![hand[u]] = [y EXCEPT !.m_isFunc = isFunc]]
  BY DEF Sql!Operate
<1> DEFINE z == [y EXCEPT !.m_isFunc = isFunc]
<1>2. z \in Sql!ConnStates /\ LeavesInSync(z)
  BY DEF Sql!ConnStates, LeavesInSync
<1>3. hand[u] \in Sql!Conns /\ hand[u] <= m_poolSize /\ hand[u] \notin Range(m_idleConn)
  <2>1. hand[u] \in InHand
    BY DEF InHand, Sql!Uses, Sql!NoConn
  <2>2. hand[u] \in 1 .. m_poolSize /\ hand[u] \notin Range(m_idleConn)
    BY <2>1 DEF PoolInv, PoolPlaces
  <2> QED BY <2>2, PoolAssumption DEF PoolInv, PoolTypes, SqlInv, Sql!Conns
<1>4. UNCHANGED <<m_idleConn, m_poolSize>>
  BY DEF Sql!poolVars
<1>5. conn' = [conn EXCEPT ![hand[u]] = z] /\ conn \in [Sql!Conns -> Sql!ConnStates]
  BY <1>1 DEF SqlInv
<1> HIDE DEF z
<1>6. conn' \in [Sql!Conns -> Sql!ConnStates]
  BY <1>2, <1>3, <1>5
<1>7. \A c \in Sql!Conns : LeavesInSync(conn'[c])
  BY <1>2, <1>3, <1>5 DEF SqlInv
<1>8. \A c \in Range(m_idleConn) : conn'[c].more = <<>>
  BY <1>3, <1>5 DEF SqlInv
<1>9. \A c \in Sql!Conns : c > m_poolSize => conn'[c] = Sql!NewConn
  BY <1>3, <1>5, PoolAssumption DEF SqlInv, PoolInv, PoolTypes, Sql!Conns
<1> QED BY <1>4, <1>6, <1>7, <1>8, <1>9 DEF SqlInv, LeavesInSync

\* Each statement, and each change of the user, leaves the connections in sync.
LEMMA SqlStepKeepsInv ==
  ASSUME PoolInv, PoolInv', SqlInv, Sql!SqlNext
  PROVE  SqlInv'
<1>1. PICK u \in Users :
        \/ Sql!TakeConnection(u) /\ UNCHANGED conn
        \/ Sql!AddConnection(u) /\ UNCHANGED conn
        \/ Sql!AddFails(u) /\ UNCHANGED conn
        \/ Sql!Select(u)
        \/ Sql!ExecuteRet(u)
        \/ Sql!Execute(u)
        \/ Sql!SqlRelease(u)
  BY DEF Sql!SqlNext
<1>2. /\ Sql!NewConn \in Sql!ConnStates /\ LeavesInSync(Sql!NewConn)
      /\ Sql!NewConn = [m_results |-> FALSE, m_isFunc |-> FALSE, more |-> <<>>]
  BY DEF Sql!NewConn, Sql!ConnStates, LeavesInSync
<1>3. CASE Sql!TakeConnection(u) /\ UNCHANGED conn
  <2>1. Range(m_idleConn') \subseteq Range(m_idleConn)
    BY <1>3, RangeTail DEF Sql!TakeConnection, PoolInv, PoolTypes
  <2>2. m_poolSize' = m_poolSize /\ conn' = conn
    BY <1>3 DEF Sql!TakeConnection
  <2> QED BY <2>1, <2>2 DEF SqlInv, LeavesInSync
<1>4. CASE Sql!AddConnection(u) /\ UNCHANGED conn
  <2>1. /\ m_poolSize' = m_poolSize + 1 /\ m_poolSize < MaxSqlConns /\ conn' = conn
        /\ m_poolSize \in Nat /\ m_idleConn' = Append(m_idleConn, m_poolSize')
        /\ m_idleConn \in Seq(Nat)
    BY <1>4 DEF Sql!AddConnection, PoolInv, PoolTypes
  <2>2. Range(m_idleConn') = Range(m_idleConn) \cup {m_poolSize'}
    <3>1. PICK n \in Nat : n = m_poolSize'
      BY <2>1
    <3>2. Range(Append(m_idleConn, n)) = Range(m_idleConn) \cup {n}
      <4>1. m_idleConn \in Seq(Nat) /\ n \in Nat
        BY <2>1
      <4> QED BY ONLY <4>1, RangeAppend
    <3> QED BY <2>1, <3>1, <3>2
  <2>3. m_poolSize' \in Sql!Conns /\ m_poolSize' > m_poolSize /\ m_poolSize' <= MaxSqlConns
    BY <2>1, PoolAssumption DEF Sql!Conns
  <2>4. conn[m_poolSize'].more = <<>>
    BY <1>2, <2>3 DEF SqlInv
  <2>5. \A c \in Range(m_idleConn') : conn[c].more = <<>>
    BY <2>2, <2>4 DEF SqlInv
  <2>6. \A c \in Sql!Conns : c > m_poolSize' => conn[c] = Sql!NewConn
    BY <2>1 DEF SqlInv, Sql!Conns
  <2> QED BY <2>1, <2>3, <2>5, <2>6 DEF SqlInv, LeavesInSync
<1>5. CASE Sql!AddFails(u) /\ UNCHANGED conn
  <2>1. UNCHANGED <<m_idleConn, m_poolSize, conn>>
    BY <1>5 DEF Sql!AddFails
  <2> QED BY <2>1 DEF SqlInv, LeavesInSync
<1>6. ASSUME Sql!Uses(u)
      PROVE  /\ hand[u] \in Sql!Conns /\ conn[hand[u]] \in Sql!ConnStates
             /\ LeavesInSync(conn[hand[u]])
             /\ Sql!BeforeQuery(conn[hand[u]]) \in Sql!ConnStates
             /\ Sql!BeforeQuery(conn[hand[u]]).more = <<>>
             /\ Sql!BeforeExce(conn[hand[u]]) = Sql!NewConn
             /\ Sql!Clear(conn[hand[u]]) = Sql!NewConn
  <2>1. hand[u] \in InHand
    BY <1>6 DEF InHand, Sql!Uses, Sql!NoConn
  <2>2. hand[u] \in 1 .. m_poolSize
    BY <2>1 DEF PoolInv, PoolPlaces
  <2>3. hand[u] \in Sql!Conns
    BY <2>2, PoolAssumption DEF PoolInv, PoolTypes, SqlInv, Sql!Conns
  <2>4. conn[hand[u]] \in Sql!ConnStates /\ LeavesInSync(conn[hand[u]])
    BY <2>3 DEF SqlInv
  <2> QED BY <2>3, <2>4, ClearReadsAll DEF Sql!BeforeExce
<1>7. CASE Sql!Select(u)
  <2> DEFINE outcomes == {[Sql!NewConn EXCEPT !.m_results = TRUE]}
  <2>1. outcomes \in SUBSET Sql!ConnStates
    BY <1>2 DEF Sql!ConnStates
  <2>2. \A y \in outcomes : LeavesInSync([y EXCEPT !.m_isFunc = FALSE])
    BY <1>2 DEF LeavesInSync
  <2>3. /\ Sql!Uses(u) /\ UNCHANGED Sql!poolVars
        /\ Sql!Operate(u, Sql!BeforeQuery(conn[hand[u]]), FALSE, outcomes)
    BY <1>7 DEF Sql!Select
  <2> HIDE DEF outcomes
  <2> QED BY <1>6, <2>1, <2>2, <2>3, OperateKeepsSync
<1>8. CASE Sql!ExecuteRet(u)
  <2> DEFINE outcomes == {Sql!NewConn,
                          [Sql!NewConn EXCEPT !.m_results = TRUE, !.more = Sql!OfCall]}
  <2>1. outcomes \in SUBSET Sql!ConnStates
    BY <1>2 DEF Sql!ConnStates
  <2>2. \A y \in outcomes : LeavesInSync([y EXCEPT !.m_isFunc = TRUE])
    BY <1>2 DEF LeavesInSync
  <2>3. /\ Sql!Uses(u) /\ UNCHANGED Sql!poolVars
        /\ Sql!Operate(u, Sql!BeforeQuery(conn[hand[u]]), TRUE, outcomes)
    BY <1>8 DEF Sql!ExecuteRet
  <2> HIDE DEF outcomes
  <2> QED BY <1>6, <2>1, <2>2, <2>3, OperateKeepsSync
<1>9. CASE Sql!Execute(u)
  <2> DEFINE outcomes == {Sql!NewConn}
  <2>1. outcomes \in SUBSET Sql!ConnStates
    BY <1>2
  <2>2. \A y \in outcomes : LeavesInSync([y EXCEPT !.m_isFunc = FALSE])
    BY <1>2 DEF LeavesInSync
  <2>3. /\ Sql!Uses(u) /\ UNCHANGED Sql!poolVars
        /\ Sql!Operate(u, Sql!BeforeExce(conn[hand[u]]), FALSE, outcomes)
    BY <1>9 DEF Sql!Execute
  <2>4. Sql!BeforeExce(conn[hand[u]]) \in Sql!ConnStates /\ Sql!BeforeExce(conn[hand[u]]).more = <<>>
    BY <1>2, <1>6, <2>3
  <2> HIDE DEF outcomes
  <2> QED BY <2>1, <2>2, <2>3, <2>4, OperateKeepsSync
<1>10. CASE Sql!SqlRelease(u)
  <2>1. /\ Sql!ReleaseConn(u) /\ Sql!Uses(u) /\ m_poolSize' = m_poolSize
        /\ conn' = [conn EXCEPT ![hand[u]] = Sql!Clear(conn[hand[u]])]
    BY <1>10 DEF Sql!SqlRelease, Sql!ReleaseConn
  <2>2. Range(m_idleConn') = Range(m_idleConn) \cup {hand[u]}
    BY <2>1, PoolRelease
  <2>3. conn' = [conn EXCEPT ![hand[u]] = Sql!NewConn] /\ hand[u] \in Sql!Conns
    BY <1>6, <2>1
  <2>4. \A c \in Sql!Conns : conn'[c] = IF c = hand[u] THEN Sql!NewConn ELSE conn[c]
    BY <2>3 DEF SqlInv
  <2>5. conn' \in [Sql!Conns -> Sql!ConnStates]
    BY <1>2, <2>3 DEF SqlInv
  <2>6. \A c \in Sql!Conns : LeavesInSync(conn'[c])
    BY <1>2, <2>4 DEF SqlInv
  <2>7. Range(m_idleConn) \subseteq Sql!Conns
    BY PoolAssumption DEF PoolInv, PoolPlaces, PoolTypes, SqlInv, Sql!Conns
  <2>8. Sql!NewConn.more = <<>>
    BY <1>2
  <2>9. \A c \in Range(m_idleConn') : conn'[c].more = <<>>
    BY <2>2, <2>3, <2>4, <2>7, <2>8 DEF SqlInv
  <2>10. \A c \in Sql!Conns : c > m_poolSize' => conn'[c] = Sql!NewConn
    BY <2>1, <2>4 DEF SqlInv
  <2> QED BY <2>1, <2>5, <2>6, <2>9, <2>10 DEF SqlInv, LeavesInSync
<1> QED BY <1>1, <1>3, <1>4, <1>5, <1>7, <1>8, <1>9, <1>10

\* What the invariants say of the SQL pool.
LEMMA SqlAccounted ==
  ASSUME PoolInv, PoolGrowth, SqlInv
  PROVE  /\ Sql!SqlTypeOK /\ Sql!ConnAccounted /\ Sql!PoolIsBounded /\ Sql!SqlInSync
<1>1. Sql!ConnAccounted
  BY SqlLibrary DEF PoolInv, PoolPlaces, InHand, Sql!ConnAccounted, Sql!NoConn
<1>2. Sql!PoolIsBounded
  BY SqlLibrary, PoolIsWithinBound DEF PoolBound, Sql!PoolIsBounded
<1>3. 1 .. m_poolSize \subseteq Sql!Conns /\ m_poolSize \in 0 .. MaxSqlConns
  BY PoolAssumption DEF PoolInv, PoolTypes, SqlInv, Sql!Conns
<1>4. Sql!SqlInSync
  <2>1. \A c \in Sql!Conns : Sql!BeforeQuery(conn[c]).more = <<>> /\ Sql!BeforeExce(conn[c]).more = <<>>
    BY ClearReadsAll DEF SqlInv
  <2> QED BY <2>1, SqlLibrary DEF Sql!SqlInSync, SqlInv
<1>5. Sql!SqlTypeOK
  <2>1. m_idleConn \in Seq(Sql!Conns)
    <3>1. \A i \in DOMAIN m_idleConn : m_idleConn[i] \in Sql!Conns
      BY <1>3 DEF PoolInv, PoolPlaces, Range
    <3> QED BY <3>1 DEF PoolInv, PoolTypes
  <2>2. hand \in [Users -> Sql!Conns \cup {Sql!NoConn}]
    <3>1. \A u \in Users : hand[u] \in Sql!Conns \cup {0}
      BY <1>3 DEF PoolInv, PoolPlaces, InHand
    <3> QED BY <3>1 DEF PoolInv, PoolTypes, Sql!NoConn
  <2>3. m_usedConn \subseteq Sql!Conns /\ leaked \subseteq Sql!Conns
    BY <1>3 DEF PoolInv, PoolPlaces
  <2> QED BY <1>3, <2>1, <2>2, <2>3 DEF Sql!SqlTypeOK, Sql!PoolTypeOK, PoolInv, PoolTypes, SqlInv
<1> QED BY <1>1, <1>2, <1>4, <1>5

-----------------------------------------------------------------------------
(***************************************************************************)
(* The connections of Redis.                                               *)
(***************************************************************************)
LEMMA RedisStepsOnPool ==
  ASSUME NEW u \in Users
  PROVE  /\ Redis!TakeConnection(u) => Sql!TakeConnection(u)
         /\ Redis!AddConnection(u) => ListsOne(u)
         /\ Redis!AddFails(u) => Sql!AddFails(u)
         /\ Redis!ReleaseConn(u) => Sql!ReleaseConn(u)
         /\ Redis!Uses(u) => Sql!Uses(u)
<1>1. /\ Redis!NoConn = Sql!NoConn
      /\ \A n : Redis!LeavesTooFew(n) = Sql!LeavesTooFew(n)
  BY DEF Redis!NoConn, Sql!NoConn, Redis!LeavesTooFew, Sql!LeavesTooFew
<1>2. Redis!TakeConnection(u) => Sql!TakeConnection(u)
  BY <1>1 DEF Redis!TakeConnection, Sql!TakeConnection
<1>3. Redis!AddConnection(u) => ListsOne(u)
  BY DEF Redis!AddConnection, ListsOne
<1>4. Redis!AddFails(u) => Sql!AddFails(u)
  BY <1>1 DEF Redis!AddFails, Sql!AddFails
<1>5. Redis!Uses(u) => Sql!Uses(u)
  BY <1>1 DEF Redis!Uses, Sql!Uses
<1>6. Redis!ReleaseConn(u) => Sql!ReleaseConn(u)
  BY <1>1, <1>5 DEF Redis!ReleaseConn, Sql!ReleaseConn
<1> QED BY <1>2, <1>3, <1>4, <1>5, <1>6

\* Replies that come are those counted, and a lost connection brings none.
Counts(x) ==
  /\ x \in [m_pending_reply_count : 0 .. MaxPending, outstanding : Seq(Redis!Owners),
            broken : BOOLEAN]
  /\ ~x.broken => x.m_pending_reply_count = Len(x.outstanding)
  /\ x.broken => x.outstanding = <<>>

\* A user who inherits nothing has no replies of others.
RedisInv ==
  /\ m_poolSize <= MaxRedisConns /\ inherits \subseteq Users
  /\ redis = [c \in Redis!Conns |-> redis[c]]
  /\ \A c \in Redis!Conns : Counts(redis[c])
  /\ \A u \in Users \ inherits : hand[u] # 0 =>
       \A i \in 1 .. Len(redis[hand[u]].outstanding) : redis[hand[u]].outstanding[i] = "mine"
  /\ \A c \in Redis!Conns : c > m_poolSize => redis[c] = Redis!NewConn

\* A new connection waits for no reply.
LEMMA NewConnCounts ==
  /\ Counts(Redis!NewConn) /\ Redis!NewConn.outstanding = <<>>
<1>1. 0 \in 0 .. MaxPending
  BY PoolAssumption
<1> QED BY <1>1 DEF Counts, Redis!NewConn

\* All connections are new at the start.
LEMMA RedisStarts ==
  ASSUME Redis!RedisInit
  PROVE  RedisInv
<1>1. /\ redis = [c \in Redis!Conns |-> Redis!NewConn] /\ inherits = {}
      /\ m_poolSize = PoolSize /\ hand = [u \in Users |-> 0] /\ PoolSize <= MaxRedisConns
  BY PoolAssumption DEF Redis!RedisInit, Redis!PoolInit, Redis!NoConn
<1> QED BY <1>1, NewConnCounts DEF RedisInv

\* A command on the connection in hand keeps the count if it keeps that
\* connection's, and brings no reply of others.
LEMMA CommandKeepsCount ==
  ASSUME NEW u \in Users, PoolInv, RedisInv, Redis!Uses(u), NEW x,
         Redis!Set(u, x), UNCHANGED <<Redis!poolVars, inherits>>, Counts(x),
         \/ \A i \in 1 .. Len(x.outstanding) : x.outstanding[i] = "mine"
         \/ \E i \in 1 .. Len(redis[hand[u]].outstanding) :
              redis[hand[u]].outstanding[i] # "mine"
  PROVE  RedisInv'
<1>1. hand[u] # 0 /\ hand[u] \in InHand
  BY DEF Redis!Uses, Redis!NoConn, InHand
<1>2. hand[u] \in 1 .. m_poolSize
  BY <1>1 DEF PoolInv, PoolPlaces
<1>3. hand[u] \in Redis!Conns /\ hand[u] <= m_poolSize
  BY <1>2, PoolAssumption DEF PoolInv, PoolTypes, RedisInv, Redis!Conns
<1>4. redis' = [redis EXCEPT ![hand[u]] = x] /\ redis = [c \in Redis!Conns |-> redis[c]]
  BY DEF Redis!Set, RedisInv
<1>5. redis' = [c \in Redis!Conns |-> redis'[c]]
  BY <1>4
<1>6. \A c \in Redis!Conns : redis'[c] = IF c = hand[u] THEN x ELSE redis[c]
  BY <1>4
<1>7. UNCHANGED <<m_poolSize, hand, inherits>>
  BY DEF Redis!poolVars
<1>8. ASSUME NEW v \in Users \ inherits, hand[v] # 0
      PROVE  \A i \in 1 .. Len(redis'[hand[v]].outstanding) :
               redis'[hand[v]].outstanding[i] = "mine"
  <2>1. \A i \in 1 .. Len(redis[hand[v]].outstanding) : redis[hand[v]].outstanding[i] = "mine"
    BY <1>8 DEF RedisInv
  <2>2. CASE v = u
    <3>1. \A i \in 1 .. Len(x.outstanding) : x.outstanding[i] = "mine"
      BY <2>1, <2>2
    <3> QED BY <1>3, <1>6, <2>2, <3>1
  <2>3. CASE v # u
    <3>1. hand[v] # hand[u]
      BY <1>1, <2>3 DEF PoolInv, PoolPlaces
    <3>2. hand[v] \in InHand
      BY <1>8 DEF InHand
    <3>3. hand[v] \in Redis!Conns
      BY <3>2, PoolAssumption DEF PoolInv, PoolPlaces, PoolTypes, RedisInv, Redis!Conns
    <3> QED BY <1>6, <2>1, <3>1, <3>3
  <2> QED BY <2>2, <2>3
<1>9. \A c \in Redis!Conns : Counts(redis'[c])
  BY <1>6 DEF RedisInv
<1>10. \A c \in Redis!Conns : c > m_poolSize => redis'[c] = Redis!NewConn
  BY <1>3, <1>6, PoolAssumption DEF RedisInv, PoolInv, PoolTypes, Redis!Conns
<1> QED BY <1>5, <1>7, <1>8, <1>9, <1>10 DEF RedisInv, Counts

\* A connection is known by its fields.
LEMMA CountsByFields ==
  ASSUME NEW y, y = [f \in {"m_pending_reply_count", "outstanding", "broken"} |-> y[f]],
         y.m_pending_reply_count \in 0 .. MaxPending, y.outstanding \in Seq(Redis!Owners),
         y.broken \in BOOLEAN,
         ~y.broken => y.m_pending_reply_count = Len(y.outstanding),
         y.broken => y.outstanding = <<>>
  PROVE  Counts(y)
<1>1. y \in [m_pending_reply_count : 0 .. MaxPending, outstanding : Seq(Redis!Owners),
            broken : BOOLEAN]
  OBVIOUS
<1> QED BY <1>1 DEF Counts

\* What commands make of a connection.
LEMMA LostCounts ==
  ASSUME NEW x, Counts(x)
  PROVE  Counts(Redis!Lost(x)) /\ Redis!Lost(x).outstanding = <<>>
<1> DEFINE y == Redis!Lost(x)
<1>1. /\ y.m_pending_reply_count \in 0 .. MaxPending /\ y.outstanding = <<>>
      /\ y.outstanding \in Seq(Redis!Owners) /\ y.broken = TRUE
  BY DEF Counts, Redis!Lost
<1>2. y = [f \in {"m_pending_reply_count", "outstanding", "broken"} |-> y[f]]
  BY DEF Counts, Redis!Lost
<1> HIDE DEF y
<1>3. Counts(y)
  BY <1>1, <1>2, CountsByFields
<1> QED BY <1>1, <1>3 DEF y

\* ExecuteCommand takes one reply for the one it causes.
LEMMA CommandCounts ==
  ASSUME NEW x, Counts(x), ~x.broken
  PROVE  LET y == [x EXCEPT !.outstanding = Tail(Append(x.outstanding, "mine"))]
         IN /\ Counts(y)
            /\ (\A i \in 1 .. Len(x.outstanding) : x.outstanding[i] = "mine")
                 => \A i \in 1 .. Len(y.outstanding) : y.outstanding[i] = "mine"
<1>1. PICK s \in Seq(Redis!Owners) : s = x.outstanding
  BY DEF Counts
<1>2. PICK t : t = Tail(Append(s, "mine"))
  OBVIOUS
<1>3. /\ t \in Seq(Redis!Owners) /\ Len(t) = Len(s)
      /\ (\A i \in 1 .. Len(s) : s[i] = "mine") => \A i \in 1 .. Len(t) : t[i] = "mine"
  <2>1. "mine" \in Redis!Owners
    BY DEF Redis!Owners
  <2>2. t \in Seq(Redis!Owners) /\ Len(t) = Len(s)
    BY <1>2, <2>1
  <2>3. \A i \in 1 .. Len(s) : t[i] = IF i = Len(s) THEN "mine" ELSE s[i + 1]
    BY <1>2, <2>1
  <2> QED BY <2>2, <2>3
<1> DEFINE y == [x EXCEPT !.outstanding = t]
<1>4. /\ y.m_pending_reply_count = x.m_pending_reply_count /\ y.outstanding = t
      /\ y.broken = x.broken
      /\ y = [f \in {"m_pending_reply_count", "outstanding", "broken"} |-> y[f]]
  BY DEF Counts
<1>5. /\ x.m_pending_reply_count \in 0 .. MaxPending /\ x.m_pending_reply_count = Len(s)
      /\ x.broken \in BOOLEAN /\ ~x.broken
  BY <1>1 DEF Counts
<1> HIDE DEF y
<1>6. Counts(y)
  BY <1>3, <1>4, <1>5, CountsByFields
<1>7. y = [x EXCEPT !.outstanding = Tail(Append(x.outstanding, "mine"))]
  BY <1>1, <1>2 DEF y
<1> QED BY <1>1, <1>3, <1>4, <1>6, <1>7

\* ExecuteCommandInPipeline counts the reply that its command causes.
LEMMA PipelineCounts ==
  ASSUME NEW x, Counts(x), x.m_pending_reply_count < MaxPending
  PROVE  LET y == [x EXCEPT !.m_pending_reply_count = @ + 1,
                            !.outstanding = IF x.broken THEN @ ELSE Append(@, "mine")]
         IN /\ Counts(y)
            /\ (\A i \in 1 .. Len(x.outstanding) : x.outstanding[i] = "mine")
                 => \A i \in 1 .. Len(y.outstanding) : y.outstanding[i] = "mine"
<1>1. PICK s \in Seq(Redis!Owners) : s = x.outstanding
  BY DEF Counts
<1>2. PICK t : t = IF x.broken THEN s ELSE Append(s, "mine")
  OBVIOUS
<1>3. PICK n : n = x.m_pending_reply_count + 1
  OBVIOUS
<1>4. /\ t \in Seq(Redis!Owners) /\ (~x.broken => Len(t) = Len(s) + 1) /\ (x.broken => t = s)
      /\ (\A i \in 1 .. Len(s) : s[i] = "mine") => \A i \in 1 .. Len(t) : t[i] = "mine"
  <2>1. "mine" \in Redis!Owners
    BY DEF Redis!Owners
  <2>2. CASE x.broken
    BY <1>2, <2>2
  <2>3. CASE ~x.broken
    <3>1. t = Append(s, "mine")
      BY <1>2, <2>3
    <3> QED BY <2>1, <2>3, <3>1
  <2> QED BY <2>2, <2>3
<1>5. /\ n \in 0 .. MaxPending /\ (~x.broken => n = Len(s) + 1) /\ (x.broken => s = <<>>)
      /\ x.broken \in BOOLEAN
  BY <1>1, <1>3, PoolAssumption DEF Counts
<1> DEFINE y == [x EXCEPT !.m_pending_reply_count = n, !.outstanding = t]
<1>6. /\ y.m_pending_reply_count = n /\ y.outstanding = t /\ y.broken = x.broken
      /\ y = [f \in {"m_pending_reply_count", "outstanding", "broken"} |-> y[f]]
  BY DEF Counts
<1>7. y = [x EXCEPT !.m_pending_reply_count = @ + 1,
                    !.outstanding = IF x.broken THEN @ ELSE Append(@, "mine")]
  BY <1>1, <1>2, <1>3
<1> HIDE DEF y
<1>8. Counts(y)
  BY <1>4, <1>5, <1>6, CountsByFields
<1> QED BY <1>1, <1>4, <1>6, <1>7, <1>8

\* GetReplyInPipeline counts down the reply that it takes.
LEMMA CountDownCounts ==
  ASSUME NEW x, Counts(x), x.m_pending_reply_count > 0, ~x.broken, x.outstanding # <<>>
  PROVE  LET y == [Redis!CountDown(x) EXCEPT !.outstanding = Tail(@)]
         IN /\ Counts(y)
            /\ (\A i \in 1 .. Len(x.outstanding) : x.outstanding[i] = "mine")
                 => \A i \in 1 .. Len(y.outstanding) : y.outstanding[i] = "mine"
<1>1. PICK s \in Seq(Redis!Owners) : s = x.outstanding
  BY DEF Counts
<1>2. PICK n : n = x.m_pending_reply_count - 1
  OBVIOUS
<1>3. PICK t : t = Tail(s)
  OBVIOUS
<1>4. /\ t \in Seq(Redis!Owners) /\ Len(t) = Len(s) - 1
      /\ (\A i \in 1 .. Len(s) : s[i] = "mine") => \A i \in 1 .. Len(t) : t[i] = "mine"
  BY <1>1, <1>3
<1>5. n \in 0 .. MaxPending /\ n = Len(s) - 1 /\ x.broken \in BOOLEAN
  BY <1>1, <1>2, PoolAssumption DEF Counts
<1> DEFINE y == [Redis!CountDown(x) EXCEPT !.outstanding = Tail(@)]
<1>6. /\ y.m_pending_reply_count = n /\ y.outstanding = t /\ y.broken = x.broken
      /\ y = [f \in {"m_pending_reply_count", "outstanding", "broken"} |-> y[f]]
  BY <1>1, <1>2, <1>3 DEF Counts, Redis!CountDown
<1> HIDE DEF y
<1>7. Counts(y)
  BY <1>4, <1>5, <1>6, CountsByFields
<1> QED BY <1>1, <1>4, <1>6, <1>7 DEF y

\* When the connection is lost no reply is left, whatever was counted.
LEMMA CountDownLostCounts ==
  ASSUME NEW x, Counts(x), x.m_pending_reply_count > 0
  PROVE  Counts(Redis!Lost(Redis!CountDown(x))) /\ Redis!Lost(Redis!CountDown(x)).outstanding = <<>>
<1> DEFINE y == Redis!Lost(Redis!CountDown(x))
<1>1. x.m_pending_reply_count - 1 \in 0 .. MaxPending
  BY PoolAssumption DEF Counts
<1>2. /\ y.m_pending_reply_count = x.m_pending_reply_count - 1 /\ y.outstanding = <<>>
      /\ y.broken = TRUE
      /\ y = [f \in {"m_pending_reply_count", "outstanding", "broken"} |-> y[f]]
  BY DEF Counts, Redis!Lost, Redis!CountDown
<1> HIDE DEF y
<1>3. <<>> \in Seq(Redis!Owners)
  OBVIOUS
<1>4. Counts(y)
  BY <1>1, <1>2, <1>3, CountsByFields
<1> QED BY <1>2, <1>4 DEF y

\* Replies that are left to the next user are as many.
LEMMA LeftBehindCounts ==
  ASSUME NEW x, Counts(x)
  PROVE  Counts(Redis!LeftBehind(x))
<1>1. PICK s \in Seq(Redis!Owners) : s = x.outstanding
  BY DEF Counts
<1>2. PICK t : t = [i \in 1 .. Len(s) |-> "old"]
  OBVIOUS
<1>3. t \in Seq(Redis!Owners) /\ Len(t) = Len(s) /\ (s = <<>> => t = <<>>)
  BY <1>2 DEF Redis!Owners
<1> DEFINE y == Redis!LeftBehind(x)
<1>4. /\ y.m_pending_reply_count = x.m_pending_reply_count /\ y.outstanding = t
      /\ y.broken = x.broken
      /\ y = [f \in {"m_pending_reply_count", "outstanding", "broken"} |-> y[f]]
  BY <1>1, <1>2 DEF Counts, Redis!LeftBehind
<1>5. /\ x.m_pending_reply_count \in 0 .. MaxPending /\ x.broken \in BOOLEAN
      /\ ~x.broken => x.m_pending_reply_count = Len(s)
      /\ x.broken => s = <<>>
  BY <1>1 DEF Counts
<1> HIDE DEF y
<1>6. Counts(y)
  BY <1>3, <1>4, <1>5, CountsByFields
<1> QED BY <1>6 DEF y

\* Each command, and each change of the user, keeps the counts of replies.
LEMMA RedisStepKeepsInv ==
  ASSUME PoolInv, PoolInv', RedisInv, Redis!RedisNext
  PROVE  RedisInv'
<1>1. PICK u \in Users :
        \/ Redis!RedisTake(u)
        \/ Redis!RedisAdd(u)
        \/ Redis!RedisAddFails(u)
        \/ Redis!RedisRelease(u)
        \/ Redis!ExecuteCommand(u)
        \/ Redis!ExecuteCommandInPipeline(u)
        \/ Redis!GetReplyInPipeline(u)
  BY DEF Redis!RedisNext
<1>2. /\ hand \in [Users -> Nat] /\ m_poolSize \in Nat /\ m_idleConn \in Seq(Nat)
      /\ \A v \in Users : hand[v] # 0 => hand[v] \in Redis!Conns /\ hand[v] <= m_poolSize
  <2>1. \A v \in Users : hand[v] # 0 => hand[v] \in 1 .. m_poolSize
    BY DEF PoolInv, PoolPlaces, InHand
  <2> QED BY <2>1, PoolAssumption, SMTT(30) DEF PoolInv, PoolTypes, RedisInv, Redis!Conns
<1>3. CASE Redis!RedisTake(u)
  <2>1. PICK c : c = Head(m_idleConn)
    OBVIOUS
  <2>2. /\ hand' = [hand EXCEPT ![u] = c] /\ m_poolSize' = m_poolSize /\ redis' = redis
        /\ inherits' = IF redis[c].outstanding # <<>> THEN inherits \cup {u} ELSE inherits \ {u}
    <3>1. hand'[u] = c
      BY <1>2, <1>3, <2>1 DEF Redis!RedisTake, Redis!TakeConnection
    <3> QED BY <1>3, <2>1, <3>1 DEF Redis!RedisTake, Redis!TakeConnection
  <2>3. ASSUME NEW v \in Users \ inherits', hand'[v] # 0
        PROVE  \A i \in 1 .. Len(redis[hand'[v]].outstanding) :
                 redis[hand'[v]].outstanding[i] = "mine"
    <3>1. CASE v = u
      <4>1. hand'[v] = c
        BY <1>2, <2>2, <3>1
      <4>2. redis[c].outstanding = <<>>
        BY <2>2, <2>3, <3>1
      <4> QED BY <4>1, <4>2
    <3>2. CASE v # u
      <4>1. v \in Users \ inherits /\ hand'[v] = hand[v]
        BY <1>2, <2>2, <2>3, <3>2
      <4> QED BY <2>3, <4>1 DEF RedisInv
    <3> QED BY <3>1, <3>2
  <2>4. inherits' \subseteq Users
    BY <2>2 DEF RedisInv
  <2> QED BY <2>2, <2>3, <2>4, ZenonT(40) DEF RedisInv, Counts
<1>4. CASE Redis!RedisAdd(u)
  <2>1. /\ m_poolSize' = m_poolSize + 1 /\ m_poolSize < MaxRedisConns
        /\ UNCHANGED <<hand, redis, inherits>>
    BY <1>4 DEF Redis!RedisAdd, Redis!AddConnection
  <2>2. m_poolSize' <= MaxRedisConns
    BY <1>2, <2>1, PoolAssumption
  <2>3. \A c \in Redis!Conns : c > m_poolSize' => redis[c] = Redis!NewConn
    BY <1>2, <2>1, PoolAssumption DEF RedisInv, Redis!Conns
  <2> QED BY <2>1, <2>2, <2>3 DEF RedisInv, Counts
<1>5. CASE Redis!RedisAddFails(u)
  <2>1. /\ hand' = [hand EXCEPT ![u] = 0] /\ UNCHANGED <<m_poolSize, redis, inherits>>
    BY <1>5 DEF Redis!RedisAddFails, Redis!AddFails, Redis!NoConn
  <2>2. \A v \in Users : hand'[v] = IF v = u THEN 0 ELSE hand[v]
    BY <1>2, <2>1
  <2> QED BY <2>1, <2>2 DEF RedisInv, Counts
<1>6. CASE Redis!RedisRelease(u)
  <2>1. /\ hand' = [hand EXCEPT ![u] = 0] /\ UNCHANGED <<m_poolSize, inherits>>
        /\ hand[u] # 0
        /\ redis' = [redis EXCEPT ![hand[u]] = Redis!LeftBehind(redis[hand[u]])]
    BY <1>6 DEF Redis!RedisRelease, Redis!ReleaseConn, Redis!Uses, Redis!NoConn
  <2>2. hand[u] \in Redis!Conns /\ hand[u] <= m_poolSize
    BY <1>2, <2>1
  <2>3. Counts(redis[hand[u]])
    BY <2>2 DEF RedisInv
  <2>4. PICK y : y = Redis!LeftBehind(redis[hand[u]])
    OBVIOUS
  <2>5. Counts(y)
    BY <2>3, <2>4, LeftBehindCounts
  <2>6. redis' = [redis EXCEPT ![hand[u]] = y]
    BY <2>1, <2>4
  <2>7. /\ redis' = [c \in Redis!Conns |-> redis'[c]]
        /\ \A c \in Redis!Conns : redis'[c] = IF c = hand[u] THEN y ELSE redis[c]
    BY <2>6 DEF RedisInv
  <2>8. \A c \in Redis!Conns : Counts(redis'[c])
    BY <2>5, <2>7 DEF RedisInv
  <2>9. ASSUME NEW v \in Users \ inherits, hand'[v] # 0
         PROVE  \A i \in 1 .. Len(redis'[hand'[v]].outstanding) :
                  redis'[hand'[v]].outstanding[i] = "mine"
    <3>1. v # u /\ hand'[v] = hand[v]
      BY <1>2, <2>1, <2>9
    <3>2. hand[v] # hand[u] /\ hand[v] \in Redis!Conns
      BY <1>2, <2>1, <2>9, <3>1 DEF PoolInv, PoolPlaces
    <3> QED BY <2>7, <2>9, <3>1, <3>2 DEF RedisInv
  <2>10. \A c \in Redis!Conns : c > m_poolSize => redis'[c] = Redis!NewConn
    BY <1>2, <2>2, <2>7, PoolAssumption DEF RedisInv, Redis!Conns
  <2> QED BY <2>1, <2>7, <2>8, <2>9, <2>10 DEF RedisInv, Counts
<1>7. ASSUME Redis!Uses(u)
      PROVE  Counts(redis[hand[u]])
  BY <1>2, <1>7 DEF RedisInv, Redis!Uses, Redis!NoConn
<1>8. CASE Redis!ExecuteCommand(u)
  <2>1. PICK x : x = redis[hand[u]]
    OBVIOUS
  <2>2. /\ Redis!Uses(u) /\ UNCHANGED <<Redis!poolVars, inherits>>
        /\ \/ /\ ~x.broken
              /\ Redis!Set(u, [x EXCEPT !.outstanding = Tail(Append(@, "mine"))])
           \/ Redis!Set(u, Redis!Lost(x))
    BY <1>8, <2>1 DEF Redis!ExecuteCommand
  <2>3. Counts(x)
    BY <1>7, <2>1, <2>2
  <2>4. CASE ~x.broken /\ Redis!Set(u, [x EXCEPT !.outstanding = Tail(Append(@, "mine"))])
    <3>1. PICK y : y = [x EXCEPT !.outstanding = Tail(Append(x.outstanding, "mine"))]
      OBVIOUS
    <3>2. /\ Counts(y) /\ Redis!Set(u, y)
          /\ (\A i \in 1 .. Len(x.outstanding) : x.outstanding[i] = "mine")
               => \A i \in 1 .. Len(y.outstanding) : y.outstanding[i] = "mine"
      BY <2>3, <2>4, <3>1, CommandCounts
    <3> QED BY <2>1, <2>2, <3>2, CommandKeepsCount
  <2>5. CASE Redis!Set(u, Redis!Lost(x))
    <3>1. Counts(Redis!Lost(x)) /\ Redis!Lost(x).outstanding = <<>>
      BY <2>3, LostCounts
    <3>2. \A i \in 1 .. Len(Redis!Lost(x).outstanding) : Redis!Lost(x).outstanding[i] = "mine"
      BY <3>1
    <3> QED BY <2>2, <2>5, <3>1, <3>2, CommandKeepsCount
  <2> QED BY <2>2, <2>4, <2>5
<1>9. CASE Redis!ExecuteCommandInPipeline(u)
  <2>1. PICK x : x = redis[hand[u]]
    OBVIOUS
  <2>2. PICK y : y = [x EXCEPT !.m_pending_reply_count = @ + 1,
                               !.outstanding = IF x.broken THEN @ ELSE Append(@, "mine")]
    OBVIOUS
  <2>3. /\ Redis!Uses(u) /\ UNCHANGED <<Redis!poolVars, inherits>>
        /\ x.m_pending_reply_count < MaxPending /\ Redis!Set(u, y)
    BY <1>9, <2>1, <2>2 DEF Redis!ExecuteCommandInPipeline
  <2>4. Counts(x)
    BY <1>7, <2>1, <2>3
  <2>5. /\ Counts(y)
        /\ (\A i \in 1 .. Len(x.outstanding) : x.outstanding[i] = "mine")
             => \A i \in 1 .. Len(y.outstanding) : y.outstanding[i] = "mine"
    BY <2>2, <2>3, <2>4, PipelineCounts
  <2> QED BY <2>1, <2>3, <2>5, CommandKeepsCount
<1>10. CASE Redis!GetReplyInPipeline(u)
  <2>1. PICK x : x = redis[hand[u]]
    OBVIOUS
  <2>2. /\ Redis!Uses(u) /\ UNCHANGED <<Redis!poolVars, inherits>>
        /\ x.m_pending_reply_count > 0
        /\ \/ /\ ~x.broken /\ x.outstanding # <<>>
              /\ Redis!Set(u, [Redis!CountDown(x) EXCEPT !.outstanding = Tail(@)])
           \/ Redis!Set(u, Redis!Lost(Redis!CountDown(x)))
    BY <1>10, <2>1 DEF Redis!GetReplyInPipeline
  <2>3. Counts(x)
    BY <1>7, <2>1, <2>2
  <2>4. CASE /\ ~x.broken /\ x.outstanding # <<>>
             /\ Redis!Set(u, [Redis!CountDown(x) EXCEPT !.outstanding = Tail(@)])
    <3>1. PICK y : y = [Redis!CountDown(x) EXCEPT !.outstanding = Tail(@)]
      OBVIOUS
    <3>2. /\ Counts(y) /\ Redis!Set(u, y)
          /\ (\A i \in 1 .. Len(x.outstanding) : x.outstanding[i] = "mine")
               => \A i \in 1 .. Len(y.outstanding) : y.outstanding[i] = "mine"
      BY <2>2, <2>3, <2>4, <3>1, CountDownCounts
    <3> QED BY <2>1, <2>2, <3>2, CommandKeepsCount
  <2>5. CASE Redis!Set(u, Redis!Lost(Redis!CountDown(x)))
    <3>1. PICK y : y = Redis!Lost(Redis!CountDown(x))
      OBVIOUS
    <3>2. Counts(y) /\ y.outstanding = <<>> /\ Redis!Set(u, y)
      BY <2>2, <2>3, <2>5, <3>1, CountDownLostCounts
    <3>3. \A i \in 1 .. Len(y.outstanding) : y.outstanding[i] = "mine"
      BY <3>2
    <3> QED BY <2>2, <3>2, <3>3, CommandKeepsCount
  <2> QED BY <2>2, <2>4, <2>5
<1> QED BY <1>1, <1>3, <1>4, <1>5, <1>6, <1>8, <1>9, <1>10

\* What the invariants say of the Redis pool.
LEMMA RedisAccounted ==
  ASSUME PoolInv, PoolGrowth, RedisInv
  PROVE  /\ Redis!RedisTypeOK /\ Redis!ConnAccounted /\ Redis!PoolIsBounded
         /\ Redis!RepliesCounted
<1>1. Redis!ConnAccounted
  BY RedisLibrary DEF PoolInv, PoolPlaces, InHand, Redis!ConnAccounted, Redis!NoConn
<1>2. Redis!PoolIsBounded
  BY RedisLibrary, PoolIsWithinBound DEF PoolBound, Redis!PoolIsBounded
<1>3. 1 .. m_poolSize \subseteq Redis!Conns /\ m_poolSize \in 0 .. MaxRedisConns
  BY PoolAssumption DEF PoolInv, PoolTypes, RedisInv, Redis!Conns
<1>4. Redis!RepliesCounted
  <2>1. \A c \in Redis!Conns : ~redis[c].broken =>
          redis[c].m_pending_reply_count = Len(redis[c].outstanding)
    BY DEF RedisInv, Counts
  <2>2. ASSUME NEW u \in Users \ inherits, Redis!Uses(u)
        PROVE  "old" \notin Range(redis[hand[u]].outstanding)
    <3>1. hand[u] # 0
      BY <2>2 DEF Redis!Uses, Redis!NoConn
    <3>2. hand[u] \in 1 .. m_poolSize
      BY <3>1 DEF PoolInv, PoolPlaces, InHand
    <3>3. PICK s \in Seq(Redis!Owners) : s = redis[hand[u]].outstanding
      BY <1>3, <3>2 DEF RedisInv, Counts
    <3>4. \A i \in 1 .. Len(s) : s[i] = "mine"
      BY <3>1, <3>3 DEF RedisInv
    <3>5. DOMAIN s = 1 .. Len(s)
      OBVIOUS
    <3> QED BY <3>3, <3>4, <3>5 DEF Range
  <2> QED BY <2>1, <2>2, RedisLibrary DEF Redis!RepliesCounted
<1>5. Redis!RedisTypeOK
  <2>1. m_idleConn \in Seq(Redis!Conns)
    <3>1. \A i \in DOMAIN m_idleConn : m_idleConn[i] \in Redis!Conns
      BY <1>3 DEF PoolInv, PoolPlaces, Range
    <3> QED BY <3>1 DEF PoolInv, PoolTypes
  <2>2. hand \in [Users -> Redis!Conns \cup {Redis!NoConn}]
    <3>1. \A u \in Users : hand[u] \in Redis!Conns \cup {0}
      BY <1>3 DEF PoolInv, PoolPlaces, InHand
    <3> QED BY <3>1 DEF PoolInv, PoolTypes, Redis!NoConn
  <2>3. m_usedConn \subseteq Redis!Conns /\ leaked \subseteq Redis!Conns
    BY <1>3 DEF PoolInv, PoolPlaces
  <2>4. redis \in [Redis!Conns -> Redis!ConnStates] /\ inherits \subseteq Users
    <3>1. \A c \in Redis!Conns : redis[c] \in Redis!ConnStates
      BY DEF RedisInv, Counts, Redis!ConnStates
    <3> QED BY <3>1 DEF RedisInv
  <2>5. Redis!PoolTypeOK
    BY <1>3, <2>1, <2>2, <2>3 DEF Redis!PoolTypeOK, PoolInv, PoolTypes
  <2> QED BY <2>4, <2>5 DEF Redis!RedisTypeOK
<1> QED BY <1>1, <1>2, <1>4, <1>5

-----------------------------------------------------------------------------
(***************************************************************************)
(* The pool of interpreters.                                               *)
(***************************************************************************)
UsedLuas == {m_lua[u] : u \in LuaUsers} \ {NoLua}

LuaTypes ==
  /\ m_pool \in Seq(Nat) /\ created \in 0 .. MaxLua
  /\ m_lua \in [LuaUsers -> Lua!Luas \cup {NoLua}]

LuaPlaces ==
  /\ IsInjective(m_pool)
  /\ \A u, v \in LuaUsers : m_lua[u] = m_lua[v] /\ m_lua[u] # NoLua => u = v
  /\ Range(m_pool) \cap UsedLuas = {} /\ Range(m_pool) \cup UsedLuas = 1 .. created

\* A user who has one interpreter does not still drop another.  Until the count
\* of an interpreter is torn, only one user may still drop his pointer to it,
\* and has put it into the pool.
Drops(u, l) == leaving[u] = l
Dropped(l)  == \E u \in LuaUsers : Drops(u, l)

Exact(l) ==
  /\ \A u, v \in LuaUsers : Drops(u, l) /\ Drops(v, l) => u = v
  /\ Dropped(l) => l \in Range(m_pool)
  /\ refs[l] = IF Dropped(l) THEN 2 ELSE 1

RefsInv ==
  /\ leaving \in [LuaUsers -> 1 .. created \cup {NoLua}]
  /\ refs \in [Lua!Luas -> Nat] /\ miscounted \subseteq 1 .. created
  /\ \A u \in LuaUsers : m_lua[u] # NoLua => leaving[u] = NoLua
  /\ \A l \in 1 .. created \ miscounted : Exact(l)

StacksInv ==
  /\ stack \in [Lua!Luas -> Seq(Lua!Kinds)]
  /\ height \in [Lua!Luas -> Int] /\ short \in [Lua!Luas -> Nat]
  /\ \A l \in Lua!Luas :
       Len(stack[l]) <= MaxStack /\ Len(stack[l]) = height[l] + short[l]

LuaInv == LuaTypes /\ LuaPlaces /\ RefsInv /\ StacksInv

\* The first interpreters are all in the pool, with empty stacks.
LEMMA LuaStarts ==
  ASSUME Lua!LuaInit
  PROVE  LuaInv
<1> USE LuaAssumption DEF Lua!LuaInit
<1>1. LuaTypes
  <2>1. m_pool \in Seq(Nat)
    BY SMT
  <2> QED BY <2>1 DEF LuaTypes
<1>2. Range(m_pool) = 1 .. LuaContent /\ IsInjective(m_pool)
  BY DEF Range, IsInjective
<1>3. UsedLuas = {}
  BY DEF UsedLuas
<1>4. LuaPlaces
  BY <1>2, <1>3 DEF LuaPlaces
<1>6. RefsInv
  <2>1. \A l \in 1 .. created : l \in Lua!Luas /\ l # NoLua /\ refs[l] = 1
    BY DEF Lua!Luas
  <2>2. \A l \in 1 .. created : ~Dropped(l)
    BY <2>1 DEF Dropped, Drops
  <2> QED BY <2>1, <2>2 DEF RefsInv, Exact, Dropped, Drops
<1>5. StacksInv
  <2>1. <<>> \in Seq(Lua!Kinds) /\ Len(<<>>) = 0
    OBVIOUS
  <2>2. \A l \in Lua!Luas : stack[l] = <<>> /\ height[l] = 0 /\ short[l] = 0
    OBVIOUS
  <2> QED BY <2>1, <2>2 DEF StacksInv
<1> QED BY <1>1, <1>4, <1>5, <1>6 DEF LuaInv

\* A user takes an interpreter that nobody has, and the pool keeps the others.
LEMMA LuaTaken ==
  ASSUME LuaInv, NEW u \in LuaUsers, m_lua[u] = NoLua,
         NEW l \in Lua!Luas, m_lua' = [m_lua EXCEPT ![u] = l],
         m_pool' \in Seq(Nat), IsInjective(m_pool'), l \notin Range(m_pool'),
         created' \in 0 .. MaxLua, l \notin UsedLuas,
         Range(m_pool') \cap UsedLuas = {},
         Range(m_pool') \cup UsedLuas \cup {l} = 1 .. created',
         RefsInv', UNCHANGED Lua!stacks
  PROVE  LuaInv'
<1> USE LuaAssumption
<1>1. \A v \in LuaUsers : m_lua'[v] = IF v = u THEN l ELSE m_lua[v]
  BY DEF LuaInv, LuaTypes
<1>2. LuaTypes'
  BY DEF LuaInv, LuaTypes
<1>3. UsedLuas' = UsedLuas \cup {l}
  BY <1>1 DEF UsedLuas
<1>4. \A v, w \in LuaUsers : m_lua'[v] = m_lua'[w] /\ m_lua'[v] # NoLua => v = w
  <2>1. \A v \in LuaUsers : m_lua[v] # l
    BY DEF UsedLuas
  <2> QED BY <1>1, <2>1 DEF LuaInv, LuaPlaces
<1>5. LuaPlaces'
  BY <1>3, <1>4 DEF LuaPlaces
<1>6. StacksInv'
  BY DEF LuaInv, StacksInv, Lua!stacks
<1> QED BY <1>2, <1>5, <1>6 DEF LuaInv

\* The user who takes an interpreter has dropped the last one.
LEMMA NotDropping ==
  ASSUME LuaInv, NEW u \in LuaUsers, leaving[u] = NoLua, leaving' = leaving,
         m_lua' = m_lua \/ \E l : m_lua' = [m_lua EXCEPT ![u] = l]
  PROVE  \A v \in LuaUsers : m_lua'[v] # NoLua => leaving'[v] = NoLua
BY DEF LuaInv, LuaTypes, RefsInv

\* The count of the interpreter that is taken is exact if nobody drops it.
LEMMA TakesHead ==
  ASSUME LuaInv, NEW l, Range(m_pool) = Range(m_pool') \cup {l},
         miscounted' = miscounted \cup (Range(leaving) \cap {l}), l \in 1 .. created,
         UNCHANGED <<leaving, refs, created>>,
         \A v \in LuaUsers : m_lua'[v] # NoLua => leaving'[v] = NoLua
  PROVE  RefsInv'
<1>1. /\ leaving \in [LuaUsers -> 1 .. created \cup {NoLua}]
      /\ refs \in [Lua!Luas -> Nat] /\ miscounted \subseteq 1 .. created
      /\ \A k \in 1 .. created \ miscounted : Exact(k)
  BY DEF LuaInv, RefsInv
<1>2. Range(leaving) = {leaving[u] : u \in LuaUsers}
  BY <1>1 DEF Range
<1>3. \A k : (Dropped(k)' <=> Dropped(k)) /\ \A u : Drops(u, k)' <=> Drops(u, k)
  BY DEF Dropped, Drops
<1>4. Dropped(l) => l \in miscounted'
  BY <1>2 DEF Dropped, Drops
<1>5. ASSUME NEW k \in 1 .. created' \ miscounted' PROVE Exact(k)'
  <2>1. Exact(k)
    BY <1>1
  <2> QED BY <1>3, <1>4, <2>1 DEF Exact
<1> QED BY <1>1, <1>5 DEF RefsInv

\* The counts of new interpreters.
LEMMA MakesNew ==
  ASSUME LuaInv, m_pool = <<>>, NEW n \in Nat, Lua!Create(Rate, n),
         UNCHANGED <<leaving, miscounted>>,
         \A v \in LuaUsers : m_lua'[v] # NoLua => leaving'[v] = NoLua
  PROVE  RefsInv'
<1>1. /\ leaving \in [LuaUsers -> 1 .. created \cup {NoLua}]
      /\ refs \in [Lua!Luas -> Nat] /\ miscounted \subseteq 1 .. created
      /\ \A k \in 1 .. created \ miscounted : Exact(k)
      /\ created \in Nat /\ MaxLua \in Nat
  BY LuaAssumption DEF LuaInv, LuaTypes, RefsInv
<1>2. created' = created + n /\ created' <= MaxLua
      /\ refs' = [k \in Lua!Luas |-> IF k \in created + 1 .. created + n THEN 1 ELSE refs[k]]
  BY DEF Lua!Create
<1>3. 1 .. created \subseteq 1 .. created' /\ 1 .. created' \subseteq Lua!Luas
  BY <1>1, <1>2 DEF Lua!Luas
<1>4. NoLua \notin 1 .. created'
  BY <1>3, LuaAssumption
<1>5. ASSUME NEW k \in 1 .. created' \ miscounted' PROVE Exact(k)'
  <2>1. Dropped(k)' <=> Dropped(k)
    BY DEF Dropped, Drops
  <2>2. CASE k \in 1 .. created
    <3>1. Range(<<>>) = {}
      BY DEF Range
    <3>2. ~Dropped(k) /\ refs[k] = 1
      BY <1>1, <2>2, <3>1 DEF Exact
    <3>3. refs'[k] = 1
      BY <1>2, <1>3, <3>2
    <3> QED BY <2>1, <3>2, <3>3 DEF Exact, Dropped
  <2>3. CASE k \notin 1 .. created
    <3>1. ~Dropped(k)
      BY <1>1, <1>4, <2>3 DEF Dropped, Drops
    <3>2. k \in created + 1 .. created + n
      BY <1>1, <1>2, <2>3
    <3>3. refs'[k] = 1
      BY <1>2, <1>3, <3>2
    <3> QED BY <2>1, <3>1, <3>3 DEF Exact, Dropped
  <2> QED BY <2>2, <2>3
<1>6. refs' \in [Lua!Luas -> Nat]
  BY <1>1, <1>2
<1> QED BY <1>1, <1>3, <1>5, <1>6 DEF RefsInv

\* GetLuaInterface takes an interpreter that nobody has, or makes new ones.
LEMMA LuaGet ==
  ASSUME LuaInv, NEW u \in LuaUsers, Lua!GetLuaInterface(u)
  PROVE  LuaInv'
<1> USE LuaAssumption
<1>1. /\ m_lua[u] = NoLua /\ UNCHANGED Lua!stacks /\ m_pool \in Seq(Nat)
      /\ created \in 0 .. MaxLua
  BY DEF Lua!GetLuaInterface, LuaInv, LuaTypes
<1>4. leaving[u] = NoLua /\ leaving' = leaving
  BY DEF Lua!GetLuaInterface
<1>2. CASE m_pool # <<>>
  <2>1. PICK l : l = Head(m_pool)
    OBVIOUS
  <2>2. m_lua' = [m_lua EXCEPT ![u] = l] /\ m_pool' = Tail(m_pool) /\ created' = created
    BY <1>2, <2>1 DEF Lua!GetLuaInterface
  <2>3. /\ Range(m_pool) = Range(m_pool') \cup {l} /\ m_pool' \in Seq(Nat)
        /\ IsInjective(m_pool') /\ l \notin Range(m_pool')
    BY <1>1, <1>2, <2>1, <2>2, RangeTail, InjectiveTail DEF LuaInv, LuaPlaces
  <2>4. l \in 1 .. created /\ l \notin UsedLuas
    BY <2>3 DEF LuaInv, LuaPlaces
  <2>5. l \in Lua!Luas
    BY <1>1, <2>4 DEF Lua!Luas
  <2>6. /\ Range(m_pool') \cap UsedLuas = {}
        /\ Range(m_pool') \cup UsedLuas \cup {l} = 1 .. created'
    BY <2>2, <2>3 DEF LuaInv, LuaPlaces
  <2>7. RefsInv'
    <3>1. /\ miscounted' = miscounted \cup (Range(leaving) \cap {l})
          /\ refs' = refs
      BY <1>2, <2>1, LuaLibrary DEF Lua!GetLuaInterface
    <3>2. \A v \in LuaUsers : m_lua'[v] # NoLua => leaving'[v] = NoLua
      BY <1>4, <2>2, NotDropping
    <3> QED BY <1>4, <2>2, <2>3, <2>4, <3>1, <3>2, TakesHead
  <2> QED BY <1>1, <2>2, <2>3, <2>4, <2>5, <2>6, <2>7, LuaTaken
<1>3. CASE m_pool = <<>>
  <2>1. PICK n \in 0 .. Rate :
          LET new == [i \in 1 .. n |-> created + i] IN
          /\ Lua!Create(Rate, n)
          /\ m_lua' = IF n = Rate THEN [m_lua EXCEPT ![u] = Head(new)] ELSE m_lua
          /\ m_pool' = IF n = Rate THEN Tail(new) ELSE new
          /\ UNCHANGED miscounted
    BY <1>3 DEF Lua!GetLuaInterface
  <2>2. PICK new : new = [i \in 1 .. n |-> created + i]
    OBVIOUS
  <2>3. created' = created + n /\ created' \in 0 .. MaxLua
    BY <1>1, <2>1 DEF Lua!Create
  <2>4. new \in Seq(Nat) /\ Len(new) = n /\ DOMAIN new = 1 .. n
    <3>1. n \in Nat /\ created \in Nat
      BY <1>1, <2>1, LuaAssumption DEF LuaAssumption
    <3>2. \A i \in 1 .. n : created + i \in Nat
      BY ONLY <3>1
    <3> QED BY ONLY <2>2, <3>1, <3>2
  <2>5. IsInjective(new)
    <3>1. \A i, j \in DOMAIN new : new[i] = new[j] => i = j
      BY <1>1, <2>2, <2>4
    <3> QED BY <3>1 DEF IsInjective
  <2>6. Range(new) = created + 1 .. created'
    <3>1. \A x \in created + 1 .. created' : x - created \in 1 .. n /\ new[x - created] = x
      BY <1>1, <2>2, <2>3
    <3>2. \A i \in 1 .. n : new[i] \in created + 1 .. created'
      BY <1>1, <2>2, <2>3
    <3> QED BY <2>4, <3>1, <3>2 DEF Range
  <2>7. UsedLuas = 1 .. created
    <3>1. Range(<<>>) = {}
      BY DEF Range
    <3> QED BY <1>3, <3>1 DEF LuaInv, LuaPlaces
  <2>8. 1 .. created' = (1 .. created) \cup (created + 1 .. created')
    BY <1>1, <2>3
  <2>11. RefsInv'
    <3>1. n \in Nat
      BY <2>1, LuaAssumption
    <3>2. m_lua' = m_lua \/ \E l : m_lua' = [m_lua EXCEPT ![u] = l]
      BY <2>1
    <3>3. \A v \in LuaUsers : m_lua'[v] # NoLua => leaving'[v] = NoLua
      BY <1>4, <3>2, NotDropping
    <3> QED BY <1>3, <1>4, <2>1, <3>1, <3>3, MakesNew
  <2>9. CASE n = Rate
    <3>1. PICK l : l = Head(new)
      OBVIOUS
    <3>2. m_lua' = [m_lua EXCEPT ![u] = l] /\ m_pool' = Tail(new)
      BY <2>1, <2>2, <2>9, <3>1
    <3>3. new # <<>>
      BY <2>4, <2>9
    <3>4. /\ Range(new) = Range(m_pool') \cup {l} /\ m_pool' \in Seq(Nat)
          /\ IsInjective(m_pool') /\ l \notin Range(m_pool')
      BY <2>4, <2>5, <3>1, <3>2, <3>3, RangeTail, InjectiveTail
    <3>5. l \in created + 1 .. created'
      BY <2>6, <3>4
    <3>6. l \in Lua!Luas /\ l \notin 1 .. created
      BY <1>1, <2>3, <3>5 DEF Lua!Luas
    <3>7. /\ Range(m_pool') \cap UsedLuas = {}
          /\ Range(m_pool') \cup UsedLuas \cup {l} = 1 .. created'
      <4>1. (1 .. created) \cap (created + 1 .. created') = {}
        BY <1>1, <2>3
      <4> QED BY <2>6, <2>7, <2>8, <3>4, <4>1
    <3>8. l \notin UsedLuas
      BY <2>7, <3>6
    <3> QED BY <1>1, <2>3, <2>11, <3>2, <3>4, <3>6, <3>7, <3>8, LuaTaken
  <2>10. CASE n # Rate
    <3>1. m_lua' = m_lua /\ m_pool' = new
      BY <2>1, <2>2, <2>10
    <3>2. LuaTypes'
      BY <2>3, <2>4, <3>1 DEF LuaInv, LuaTypes
    <3>3. UsedLuas' = UsedLuas
      BY <3>1 DEF UsedLuas
    <3>4. /\ Range(m_pool') \cap UsedLuas' = {}
          /\ Range(m_pool') \cup UsedLuas' = 1 .. created'
      <4>1. (1 .. created) \cap (created + 1 .. created') = {}
        BY <1>1, <2>3
      <4> QED BY <2>6, <2>7, <2>8, <3>1, <3>3, <4>1
    <3>5. LuaPlaces'
      BY <2>5, <3>1, <3>4 DEF LuaInv, LuaPlaces
    <3>6. StacksInv'
      BY <1>1 DEF LuaInv, StacksInv, Lua!stacks
    <3> QED BY <2>11, <3>2, <3>5, <3>6 DEF LuaInv
  <2> QED BY <2>9, <2>10
<1> QED BY <1>2, <1>3

\* ReleaseLuaInterface puts the user's interpreter back.
LEMMA LuaRelease ==
  ASSUME LuaInv, NEW u \in LuaUsers, Lua!ReleaseLuaInterface(u)
  PROVE  LuaInv'
<1> USE LuaAssumption
<1>1. PICK l : l = m_lua[u]
  OBVIOUS
<1>2. /\ l # NoLua /\ m_pool' = m_pool \o <<l>> /\ m_lua' = [m_lua EXCEPT ![u] = NoLua]
      /\ created' = created /\ UNCHANGED Lua!stacks
  BY <1>1 DEF Lua!ReleaseLuaInterface, Lua!Returned
<1>3. m_pool \in Seq(Nat) /\ l \in Nat
  BY <1>1, <1>2 DEF LuaInv, LuaTypes, Lua!Luas
<1>4. m_pool' = Append(m_pool, l)
  BY <1>2, <1>3
<1>5. l \in UsedLuas
  BY <1>1, <1>2 DEF UsedLuas
<1>6. l \notin Range(m_pool)
  BY <1>5 DEF LuaInv, LuaPlaces
<1>7. /\ Range(m_pool') = Range(m_pool) \cup {l} /\ IsInjective(m_pool')
      /\ m_pool' \in Seq(Nat)
  BY <1>3, <1>4, <1>6, RangeAppend, InjectiveAppend DEF LuaInv, LuaPlaces
<1>8. \A v \in LuaUsers : m_lua'[v] = IF v = u THEN NoLua ELSE m_lua[v]
  BY <1>2 DEF LuaInv, LuaTypes
<1>9. UsedLuas' = UsedLuas \ {l}
  <2>1. \A v \in LuaUsers : v # u => m_lua[v] # l
    BY <1>1, <1>2 DEF LuaInv, LuaPlaces
  <2> QED BY <1>1, <1>8, <2>1 DEF UsedLuas
<1>10. LuaTypes'
  BY <1>2, <1>7 DEF LuaInv, LuaTypes
<1>11. LuaPlaces'
  BY <1>2, <1>5, <1>6, <1>7, <1>8, <1>9, SMTT(30) DEF LuaInv, LuaPlaces
<1>12. StacksInv'
  BY <1>2 DEF LuaInv, StacksInv, Lua!stacks
<1>13. RefsInv'
  <2>1. /\ leaving \in [LuaUsers -> 1 .. created \cup {NoLua}]
        /\ refs \in [Lua!Luas -> Nat] /\ miscounted \subseteq 1 .. created
        /\ \A v \in LuaUsers : m_lua[v] # NoLua => leaving[v] = NoLua
        /\ \A k \in 1 .. created \ miscounted : Exact(k)
    BY DEF LuaInv, RefsInv
  <2>2. /\ leaving' = [leaving EXCEPT ![u] = l]
        /\ refs' = [refs EXCEPT ![l] = @ + 1]
        /\ UNCHANGED miscounted
    BY <1>1 DEF Lua!ReleaseLuaInterface
  <2>3. l \in 1 .. created /\ l \in Lua!Luas /\ leaving[u] = NoLua
    BY <1>1, <1>2, <1>5, <2>1 DEF LuaInv, LuaTypes, LuaPlaces
  <2>4. /\ leaving' \in [LuaUsers -> 1 .. created' \cup {NoLua}]
        /\ refs' \in [Lua!Luas -> Nat]
    BY <1>2, <2>1, <2>2, <2>3
  <2>5. \A k : \A v \in LuaUsers : Drops(v, k)' <=> IF v = u THEN k = l ELSE Drops(v, k)
    BY <2>1, <2>2 DEF Drops
  <2>6. ASSUME NEW k \in 1 .. created' \ miscounted' PROVE Exact(k)'
    <3>1. Exact(k) /\ k # NoLua /\ ~Drops(u, k)
      <4>1. k \in Lua!Luas
        BY <1>2, <2>6 DEF LuaInv, LuaTypes, Lua!Luas
      <4> QED BY <1>2, <2>1, <2>2, <2>3, <2>6, <4>1 DEF Drops
    <3>2. CASE k = l
      <4>1. ~Dropped(l) /\ refs[l] = 1
        BY <1>6, <3>1, <3>2 DEF Exact
      <4>2. Dropped(l)' /\ refs'[l] = 2
        BY <2>1, <2>2, <2>3, <2>5, <4>1 DEF Dropped
      <4>3. \A v \in LuaUsers : Drops(v, l)' => v = u
        BY <2>5, <4>1 DEF Dropped
      <4> QED BY <1>7, <3>2, <4>2, <4>3 DEF Exact
    <3>3. CASE k # l
      <4>1. \A v \in LuaUsers : Drops(v, k)' <=> Drops(v, k)
        BY <2>5, <3>1, <3>3
      <4>2. Dropped(k)' <=> Dropped(k)
        BY <4>1 DEF Dropped
      <4>3. refs'[k] = refs[k]
        BY <2>1, <2>2, <3>3
      <4> QED BY <1>7, <3>1, <4>1, <4>2, <4>3 DEF Exact
    <3> QED BY <3>2, <3>3
  <2>7. \A v \in LuaUsers : m_lua'[v] # NoLua => leaving'[v] = NoLua
    BY <1>8, <2>1, <2>2
  <2>8. miscounted' \subseteq 1 .. created'
    BY <1>2, <2>1, <2>2
  <2> QED BY ONLY <2>4, <2>6, <2>7, <2>8 DEF RefsInv
<1> QED BY <1>10, <1>11, <1>12, <1>13 DEF LuaInv

\* DropPointer leaves one pointer less to the interpreter, or a torn count.
LEMMA LuaDrop ==
  ASSUME LuaInv, NEW u \in LuaUsers, Lua!DropPointer(u)
  PROVE  LuaInv'
<1> USE LuaAssumption
<1>1. PICK l : l = leaving[u]
  OBVIOUS
<1>2. /\ l # NoLua /\ refs[l] > 0 /\ leaving' = [leaving EXCEPT ![u] = NoLua]
      /\ \/ refs' = [refs EXCEPT ![l] = @ - 1] /\ UNCHANGED <<stack, height, short>>
         \/ /\ l \in miscounted /\ refs' = [refs EXCEPT ![l] = 0]
            /\ stack' = [stack EXCEPT ![l] = <<>>]
            /\ height' = [height EXCEPT ![l] = 0] /\ short' = [short EXCEPT ![l] = 0]
      /\ UNCHANGED <<m_pool, created, m_lua, miscounted>>
  BY <1>1 DEF Lua!DropPointer, Lua!stacks
<1>3. /\ leaving \in [LuaUsers -> 1 .. created \cup {NoLua}]
      /\ refs \in [Lua!Luas -> Nat] /\ miscounted \subseteq 1 .. created
      /\ \A v \in LuaUsers : m_lua[v] # NoLua => leaving[v] = NoLua
      /\ \A k \in 1 .. created \ miscounted : Exact(k)
      /\ 1 .. created \subseteq Lua!Luas
  BY DEF LuaInv, LuaTypes, RefsInv, Lua!Luas
<1>4. l \in 1 .. created /\ l \in Lua!Luas /\ refs[l] \in Nat
  BY <1>1, <1>2, <1>3
<1>5. refs' \in [Lua!Luas -> Nat] /\ \A k \in Lua!Luas \ {l} : refs'[k] = refs[k]
  <2>1. refs[l] - 1 \in Nat /\ 0 \in Nat
    BY <1>2, <1>4
  <2> QED BY <1>2, <1>3, <2>1
<1>6. leaving' \in [LuaUsers -> 1 .. created' \cup {NoLua}]
  BY <1>2, <1>3
<1>7. \A v \in LuaUsers, k \in Lua!Luas : Drops(v, k)' <=> v # u /\ Drops(v, k)
  BY <1>2, <1>3 DEF Drops
<1>8. ASSUME NEW k \in 1 .. created' \ miscounted' PROVE Exact(k)'
  <2>1. Exact(k) /\ k \in Lua!Luas
    BY <1>2, <1>3
  <2>2. CASE k = l
    <3>1. Drops(u, l) /\ Dropped(l)
      BY <1>1 DEF Dropped, Drops
    <3>2. refs[l] = 2 /\ \A v \in LuaUsers : Drops(v, l) => v = u
      BY <2>1, <2>2, <3>1 DEF Exact
    <3>3. ~Dropped(l)'
      BY <1>4, <1>7, <3>2 DEF Dropped
    <3>4. refs'[l] = 1
      BY <1>2, <1>3, <1>4, <1>8, <2>2, <3>2
    <3> QED BY <2>2, <3>3, <3>4 DEF Exact, Dropped
  <2>3. CASE k # l
    <3>1. ~Drops(u, k)
      BY <1>1, <2>3 DEF Drops
    <3>2. \A v \in LuaUsers : Drops(v, k)' <=> Drops(v, k)
      BY <1>7, <2>1, <3>1
    <3>3. Dropped(k)' <=> Dropped(k)
      BY <3>2 DEF Dropped
    <3> QED BY <1>2, <1>5, <2>1, <2>3, <3>2, <3>3 DEF Exact
  <2> QED BY <2>2, <2>3
<1>9. \A v \in LuaUsers : m_lua'[v] # NoLua => leaving'[v] = NoLua
  BY <1>2, <1>3
<1>10. miscounted' \subseteq 1 .. created'
  BY <1>2, <1>3
<1>11. RefsInv'
  BY ONLY <1>5, <1>6, <1>8, <1>9, <1>10 DEF RefsInv
<1>12. LuaTypes' /\ LuaPlaces'
  BY <1>2 DEF LuaInv, LuaTypes, LuaPlaces, UsedLuas
<1>13. StacksInv'
  <2>1. CASE UNCHANGED <<stack, height, short>>
    BY <2>1 DEF LuaInv, StacksInv
  <2>2. CASE /\ stack' = [stack EXCEPT ![l] = <<>>]
             /\ height' = [height EXCEPT ![l] = 0] /\ short' = [short EXCEPT ![l] = 0]
    <3>1. PICK e : e = <<>>
      OBVIOUS
    <3>2. e \in Seq(Lua!Kinds) /\ Len(e) = 0
      BY <3>1
    <3>3. stack' = [stack EXCEPT ![l] = e]
      BY <2>2, <3>1
    <3>4. /\ stack' \in [Lua!Luas -> Seq(Lua!Kinds)]
          /\ height' \in [Lua!Luas -> Int] /\ short' \in [Lua!Luas -> Nat]
      <4>1. /\ stack \in [Lua!Luas -> Seq(Lua!Kinds)]
            /\ height \in [Lua!Luas -> Int] /\ short \in [Lua!Luas -> Nat]
        BY DEF LuaInv, StacksInv
      <4>2. stack' \in [Lua!Luas -> Seq(Lua!Kinds)]
        <5>1. PICK Q : Q = Seq(Lua!Kinds)
          OBVIOUS
        <5>2. e \in Q /\ stack \in [Lua!Luas -> Q]
          BY <3>2, <4>1, <5>1
        <5>3. stack' \in [Lua!Luas -> Q]
          BY ONLY <3>3, <5>2
        <5> QED BY <5>1, <5>3
      <4>3. height' \in [Lua!Luas -> Int]
        <5>1. height' = [height EXCEPT ![l] = 0] /\ height \in [Lua!Luas -> Int] /\ 0 \in Int
          BY <2>2, <4>1
        <5> QED BY ONLY <5>1
      <4>4. short' \in [Lua!Luas -> Nat]
        <5>1. short' = [short EXCEPT ![l] = 0] /\ short \in [Lua!Luas -> Nat] /\ 0 \in Nat
          BY <2>2, <4>1
        <5> QED BY ONLY <5>1
      <4> QED BY <4>2, <4>3, <4>4
    <3>5. ASSUME NEW k \in Lua!Luas
          PROVE  Len(stack'[k]) <= MaxStack /\ Len(stack'[k]) = height'[k] + short'[k]
      <4>1. Len(stack[k]) <= MaxStack /\ Len(stack[k]) = height[k] + short[k]
        BY DEF LuaInv, StacksInv
      <4>2. CASE k = l
        <5>1. stack'[k] = e /\ height'[k] = 0 /\ short'[k] = 0
          BY <2>2, <3>3, <4>2 DEF LuaInv, StacksInv
        <5>2. MaxStack \in Nat
          OBVIOUS
        <5> QED BY ONLY <3>2, <5>1, <5>2
      <4>3. CASE k # l
        BY <2>2, <4>1, <4>3 DEF LuaInv, StacksInv
      <4> QED BY <4>2, <4>3
    <3> QED BY <3>4, <3>5 DEF StacksInv
  <2> QED BY <1>2, <2>1, <2>2
<1> QED BY <1>11, <1>12, <1>13 DEF LuaInv

\* An operation that leaves a stack as high as its note says, but for k strings
\* that it has left, keeps the account.
LEMMA LeavesKeepsInv ==
  ASSUME LuaInv, NEW l \in Lua!Luas, NEW s \in Seq(Lua!Kinds), NEW note \in Int,
         NEW k \in Nat, Lua!Leaves(l, s, note), short' = [short EXCEPT ![l] = @ + k],
         Len(s) = Len(stack[l]) + note + k
  PROVE  LuaInv'
<1>1. /\ Len(s) <= MaxStack
      /\ stack' = [stack EXCEPT ![l] = s]
      /\ height' = [height EXCEPT ![l] = @ + note]
      /\ UNCHANGED <<m_pool, created, m_lua, leaving, refs, miscounted>>
  BY DEF Lua!Leaves, Lua!pointers
<1>2. LuaTypes' /\ LuaPlaces' /\ RefsInv'
  BY <1>1 DEF LuaInv, LuaTypes, LuaPlaces, UsedLuas, RefsInv, Exact, Dropped, Drops
<1>3. /\ stack \in [Lua!Luas -> Seq(Lua!Kinds)]
      /\ height \in [Lua!Luas -> Int] /\ short \in [Lua!Luas -> Nat]
  BY DEF LuaInv, StacksInv
<1>4. stack' \in [Lua!Luas -> Seq(Lua!Kinds)]
  BY <1>1, <1>3
<1>5. height' \in [Lua!Luas -> Int] /\ short' \in [Lua!Luas -> Nat]
  BY <1>1, <1>3
<1>6. ASSUME NEW m \in Lua!Luas
      PROVE  Len(stack'[m]) <= MaxStack /\ Len(stack'[m]) = height'[m] + short'[m]
  <2>1. CASE m = l
    <3>1. stack'[m] = s /\ height'[m] = height[l] + note /\ short'[m] = short[l] + k
      BY <1>1, <1>3, <2>1
    <3>2. /\ Len(stack[l]) = height[l] + short[l] /\ height[l] \in Int /\ short[l] \in Nat
      BY <1>3 DEF LuaInv, StacksInv
    <3> QED BY <1>1, <3>1, <3>2, SMTT(30)
  <2>2. CASE m # l
    BY <1>1, <1>3, <2>2 DEF LuaInv, StacksInv
  <2> QED BY <2>1, <2>2
<1> QED BY <1>2, <1>4, <1>5, <1>6 DEF LuaInv, StacksInv

\* What an operation leaves when it leaves the strings alone.
LEMMA LeavesNoShort ==
  ASSUME LuaInv, NEW l \in Lua!Luas, NEW s \in Seq(Lua!Kinds), NEW note \in Int,
         Lua!Leaves(l, s, note), UNCHANGED short, Len(s) = Len(stack[l]) + note
  PROVE  LuaInv'
<1>1. short \in [Lua!Luas -> Nat]
  BY DEF LuaInv, StacksInv
<1>2. short' = [short EXCEPT ![l] = @ + 0]
  BY <1>1
<1>3. Len(s) = Len(stack[l]) + note + 0
  BY <1>1 DEF LuaInv, StacksInv
<1> QED BY <1>2, <1>3, LeavesKeepsInv

\* Values popped off a stack.
LEMMA PopIs ==
  ASSUME NEW S, NEW s \in Seq(S), NEW n \in 0 .. Len(s)
  PROVE  Lua!Pop(s, n) \in Seq(S) /\ Len(Lua!Pop(s, n)) = Len(s) - n
BY DEF Lua!Pop

\* A value pushed onto a stack.
LEMMA PushIs ==
  ASSUME NEW S, NEW s \in Seq(S), NEW x \in S
  PROVE  Append(s, x) \in Seq(S) /\ Len(Append(s, x)) = Len(s) + 1 /\ Len(s) \in Nat
OBVIOUS

\* Each operation of CELua keeps its note of the height of the stack.
LEMMA StackStepKeepsInv ==
  ASSUME LuaInv, NEW l \in Lua!Luas,
         \/ Lua!Push(l)
         \/ Lua!PushAndPop(l)
         \/ \E nArgs, nRets \in 0 .. 1 : Lua!Call(l, nArgs, nRets)
         \/ \E named \in BOOLEAN : Lua!GetNumber(l, named) \/ Lua!GetString(l, named)
         \/ Lua!GetFieldInTableList(l)
         \/ Lua!GetTable(l)
         \/ Lua!CloseTable(l)
  PROVE  LuaInv'
<1>1. PICK s \in Seq(Lua!Kinds) : s = stack[l]
  BY DEF LuaInv, StacksInv
<1>2. "value" \in Lua!Kinds /\ "table" \in Lua!Kinds
  BY DEF Lua!Kinds
<1>3. PICK t : t = Append(s, "value")
  OBVIOUS
<1>4. t \in Seq(Lua!Kinds) /\ Len(t) = Len(s) + 1 /\ Len(s) \in Nat
  BY <1>2, <1>3, PushIs
\* The value that was pushed last is popped.
<1>5. Lua!Leaves(l, Lua!Pop(t, 1), 0) /\ UNCHANGED short => LuaInv'
  <2>1. Lua!Pop(t, 1) \in Seq(Lua!Kinds) /\ Len(Lua!Pop(t, 1)) = Len(s) + 0 /\ 0 \in Int
    BY <1>4, PopIs
  <2> QED BY <1>1, <2>1, LeavesNoShort
\* A value is pushed.
<1>6. \A k \in Lua!Kinds : Lua!Leaves(l, Append(s, k), 1) /\ UNCHANGED short => LuaInv'
  <2>1. \A k \in Lua!Kinds :
          Append(s, k) \in Seq(Lua!Kinds) /\ Len(Append(s, k)) = Len(s) + 1 /\ 1 \in Int
    BY PushIs
  <2> QED BY <1>1, <2>1, LeavesNoShort
<1>7. CASE Lua!Push(l)
  <2>1. PICK k \in Lua!Kinds : Lua!Leaves(l, Append(s, k), 1) /\ UNCHANGED short
    BY <1>1, <1>7 DEF Lua!Push
  <2> QED BY <1>6, <2>1
<1>8. CASE Lua!PushAndPop(l)
  BY <1>1, <1>3, <1>5, <1>8 DEF Lua!PushAndPop
<1>9. ASSUME NEW nArgs \in 0 .. 1, NEW nRets \in 0 .. 1, Lua!Call(l, nArgs, nRets)
      PROVE  LuaInv'
  <2>1. PICK q : q = Lua!Pop(s, nArgs + 1)
    OBVIOUS
  <2>2. /\ Len(s) > nArgs /\ UNCHANGED short
        /\ \/ \E rets \in [1 .. nRets -> Lua!Kinds] :
                Lua!Leaves(l, q \o rets, nRets - nArgs - 1)
           \/ Lua!Leaves(l, Lua!Pop(Append(q, "value"), 1), -nArgs - 1)
    BY <1>1, <1>9, <2>1 DEF Lua!Call
  <2>3. q \in Seq(Lua!Kinds) /\ Len(q) = Len(s) - (nArgs + 1)
    <3>1. nArgs + 1 \in 0 .. Len(s)
      BY <1>4, <2>2
    <3> QED BY <2>1, <3>1, PopIs
  <2>4. ASSUME NEW rets \in [1 .. nRets -> Lua!Kinds],
               Lua!Leaves(l, q \o rets, nRets - nArgs - 1)
        PROVE  LuaInv'
    <3>1. q \o rets \in Seq(Lua!Kinds) /\ Len(q \o rets) = Len(q) + nRets
      <4>1. rets \in Seq(Lua!Kinds) /\ Len(rets) = nRets
        OBVIOUS
      <4> QED BY <2>3, <4>1
    <3>2. Len(q \o rets) = Len(s) + (nRets - nArgs - 1) /\ nRets - nArgs - 1 \in Int
      BY <1>4, <2>3, <3>1
    <3> QED BY <1>1, <2>2, <2>4, <3>1, <3>2, LeavesNoShort
  <2>5. CASE Lua!Leaves(l, Lua!Pop(Append(q, "value"), 1), -nArgs - 1)
    <3>1. PICK p : p = Append(q, "value")
      OBVIOUS
    <3>2. p \in Seq(Lua!Kinds) /\ Len(p) = Len(q) + 1 /\ Len(q) \in Nat
      BY <1>2, <2>3, <3>1, PushIs
    <3>3. Lua!Pop(p, 1) \in Seq(Lua!Kinds) /\ Len(Lua!Pop(p, 1)) = Len(p) - 1
      BY <3>2, PopIs
    <3>4. Len(Lua!Pop(p, 1)) = Len(s) + (-nArgs - 1) /\ -nArgs - 1 \in Int
      BY <1>4, <2>3, <3>2, <3>3
    <3>5. Lua!Leaves(l, Lua!Pop(p, 1), -nArgs - 1)
      BY <2>5, <3>1
    <3> QED BY <1>1, <2>2, <3>3, <3>4, <3>5, LeavesNoShort
  <2> QED BY <2>2, <2>4, <2>5
<1>10. ASSUME NEW named \in BOOLEAN, Lua!GetNumber(l, named) \/ Lua!GetString(l, named)
       PROVE  LuaInv'
  <2>1. PICK p : p = IF named THEN t ELSE s
    OBVIOUS
  <2>2. PICK note : note = IF named THEN 0 ELSE -1
    OBVIOUS
  <2>3. p \in Seq(Lua!Kinds) /\ note \in Int /\ Len(p) = Len(s) + note + 1
    BY <1>4, <2>1, <2>2
  <2>4. /\ p # <<>>
        /\ \/ Lua!Leaves(l, Lua!Pop(p, 1), note) /\ UNCHANGED short
           \/ Lua!Leaves(l, p, note) /\ short' = [short EXCEPT ![l] = @ + 1]
    BY <1>1, <1>3, <1>10, <2>1, <2>2 DEF Lua!GetNumber, Lua!GetString, Lua!TooShort
  <2>5. CASE Lua!Leaves(l, Lua!Pop(p, 1), note) /\ UNCHANGED short
    <3>1. 1 \in 0 .. Len(p)
      BY <2>3, <2>4
    <3>2. Lua!Pop(p, 1) \in Seq(Lua!Kinds) /\ Len(Lua!Pop(p, 1)) = Len(p) - 1
      BY <2>3, <3>1, PopIs
    <3>3. Len(Lua!Pop(p, 1)) = Len(s) + note
      BY <1>4, <2>3, <3>2
    <3> QED BY <1>1, <2>3, <2>5, <3>2, <3>3, LeavesNoShort
  <2>6. CASE Lua!Leaves(l, p, note) /\ short' = [short EXCEPT ![l] = @ + 1]
    BY <1>1, <2>3, <2>6, LeavesKeepsInv
  <2> QED BY <2>4, <2>5, <2>6
<1>11. CASE Lua!GetFieldInTableList(l)
  <2>1. PICK p : p = s \o <<"table", "value">>
    OBVIOUS
  <2>2. p \in Seq(Lua!Kinds) /\ Len(p) = Len(s) + 2
    <3>1. <<"table", "value">> \in Seq(Lua!Kinds) /\ Len(<<"table", "value">>) = 2
      BY <1>2
    <3> QED BY <2>1, <3>1
  <2>3. Lua!Leaves(l, Lua!Pop(p, 2), 0) /\ UNCHANGED short
    BY <1>1, <1>11, <2>1 DEF Lua!GetFieldInTableList
  <2>4. Lua!Pop(p, 2) \in Seq(Lua!Kinds) /\ Len(Lua!Pop(p, 2)) = Len(s) + 0 /\ 0 \in Int
    <3>1. 2 \in 0 .. Len(p)
      BY <1>4, <2>2
    <3>2. Lua!Pop(p, 2) \in Seq(Lua!Kinds) /\ Len(Lua!Pop(p, 2)) = Len(p) - 2
      BY <2>2, <3>1, PopIs
    <3> QED BY <1>4, <2>2, <3>2
  <2> QED BY <1>1, <2>3, <2>4, LeavesNoShort
<1>12. CASE Lua!GetTable(l)
  <2>1. /\ UNCHANGED short
        /\ Lua!Leaves(l, Append(s, "table"), 1) \/ Lua!Leaves(l, Lua!Pop(t, 1), 0)
    BY <1>1, <1>3, <1>12 DEF Lua!GetTable
  <2> QED BY <1>2, <1>5, <1>6, <2>1
<1>13. CASE Lua!CloseTable(l)
  <2>1. s # <<>> /\ Lua!Leaves(l, Lua!Pop(s, 1), -1) /\ UNCHANGED short
    BY <1>1, <1>13 DEF Lua!CloseTable
  <2>2. Lua!Pop(s, 1) \in Seq(Lua!Kinds) /\ Len(Lua!Pop(s, 1)) = Len(s) - 1
    <3>1. 1 \in 0 .. Len(s)
      BY <2>1
    <3> QED BY <3>1, PopIs
  <2>3. Len(Lua!Pop(s, 1)) = Len(s) + (-1) /\ -1 \in Int
    BY <1>4, <2>2
  <2> QED BY <1>1, <2>1, <2>2, <2>3, LeavesNoShort
<1> QED BY <1>7, <1>8, <1>9, <1>10, <1>11, <1>12, <1>13

\* Each step of a user keeps the invariant of the interpreters.
LEMMA LuaStepKeepsInv ==
  ASSUME LuaInv, Lua!LuaNext
  PROVE  LuaInv'
<1>1. PICK u \in LuaUsers :
        \/ Lua!GetLuaInterface(u)
        \/ Lua!ReleaseLuaInterface(u)
        \/ Lua!DropPointer(u)
        \/ /\ m_lua[u] # NoLua
           /\ \/ Lua!Push(m_lua[u])
              \/ Lua!PushAndPop(m_lua[u])
              \/ \E nArgs, nRets \in 0 .. 1 : Lua!Call(m_lua[u], nArgs, nRets)
              \/ \E named \in BOOLEAN :
                   Lua!GetNumber(m_lua[u], named) \/ Lua!GetString(m_lua[u], named)
              \/ Lua!GetFieldInTableList(m_lua[u])
              \/ Lua!GetTable(m_lua[u])
              \/ Lua!CloseTable(m_lua[u])
  BY DEF Lua!LuaNext
<1>2. m_lua[u] # NoLua => m_lua[u] \in Lua!Luas
  BY DEF LuaInv, LuaTypes
<1>3. PICK l : l = m_lua[u]
  OBVIOUS
<1> QED BY <1>1, <1>2, <1>3, LuaGet, LuaRelease, LuaDrop, StackStepKeepsInv

\* What the invariant says of the interpreters.
LEMMA LuaIsAccounted ==
  ASSUME LuaInv
  PROVE  Lua!LuaTypeOK /\ Lua!LuaAccounted
<1> USE LuaAssumption
<1>1. Lua!LuaAccounted
  <2>1. \A l : l \in Lua!Range(leaving) <=> Dropped(l)
    BY LuaLibrary DEF LuaInv, RefsInv, Range, Dropped, Drops
  <2>2. \A l \in 1 .. created \ miscounted :
          refs[l] = IF l \in Lua!Range(leaving) THEN 2 ELSE 1
    BY <2>1 DEF LuaInv, RefsInv, Exact
  <2> QED BY <2>2, LuaLibrary
          DEF LuaInv, LuaPlaces, StacksInv, UsedLuas, Lua!LuaAccounted
<1>2. Range(m_pool) \cup UsedLuas = 1 .. created
  BY DEF LuaInv, LuaPlaces
<1>3. m_pool \in Seq(1 .. created)
  <2>1. \A i \in DOMAIN m_pool : m_pool[i] \in 1 .. created
    BY <1>2 DEF Range
  <2> QED BY <2>1 DEF LuaInv, LuaTypes
<1>4. m_lua \in [LuaUsers -> 1 .. created \cup {NoLua}]
  <2>1. \A u \in LuaUsers : m_lua[u] \in 1 .. created \cup {NoLua}
    BY <1>2 DEF UsedLuas
  <2> QED BY <2>1 DEF LuaInv, LuaTypes
<1> QED BY <1>1, <1>3, <1>4 DEF Lua!LuaTypeOK, LuaInv, LuaTypes, RefsInv, StacksInv

-----------------------------------------------------------------------------
(***************************************************************************)
(* The memory pool.                                                        *)
(***************************************************************************)
LEMMA RangePrepend ==
  ASSUME NEW S, NEW s \in Seq(S), NEW x \in S, IsInjective(s), x \notin Range(s)
  PROVE  /\ <<x>> \o s \in Seq(S) /\ IsInjective(<<x>> \o s)
         /\ Range(<<x>> \o s) = Range(s) \cup {x}
<1>1. PICK r : r = <<x>> \o s
  OBVIOUS
<1>2. /\ r \in Seq(S) /\ DOMAIN r = 1 .. Len(s) + 1 /\ DOMAIN s = 1 .. Len(s)
      /\ Len(s) \in Nat /\ \A i \in 1 .. Len(s) + 1 : r[i] = IF i = 1 THEN x ELSE s[i - 1]
  BY <1>1
<1>3. Range(r) = Range(s) \cup {x}
  <2>1. ASSUME NEW y \in Range(r) PROVE y \in Range(s) \cup {x}
    <3>1. PICK i \in 1 .. Len(s) + 1 : y = r[i]
      BY <1>2, <2>1 DEF Range
    <3>2. i # 1 => i - 1 \in 1 .. Len(s)
      BY <1>2
    <3> QED BY <1>2, <3>1, <3>2 DEF Range
  <2>2. ASSUME NEW y \in Range(s) PROVE y \in Range(r)
    <3>1. PICK i \in 1 .. Len(s) : y = s[i]
      BY <1>2, <2>2 DEF Range
    <3>2. i + 1 \in 1 .. Len(s) + 1 /\ r[i + 1] = y
      BY <1>2, <3>1
    <3> QED BY <1>2, <3>2 DEF Range
  <2>3. x \in Range(r)
    <3>1. 1 \in 1 .. Len(s) + 1 /\ r[1] = x
      BY <1>2
    <3> QED BY <1>2, <3>1 DEF Range
  <2> QED BY <2>1, <2>2, <2>3
<1>4. IsInjective(r)
  <2>1. \A i \in 1 .. Len(s) : s[i] # x
    BY <1>2 DEF Range
  <2>2. \A i, j \in 1 .. Len(s) : s[i] = s[j] => i = j
    BY <1>2 DEF IsInjective
  <2>3. SUFFICES ASSUME NEW i \in 1 .. Len(s) + 1, NEW j \in 1 .. Len(s) + 1, r[i] = r[j]
                 PROVE  i = j
    BY <1>2 DEF IsInjective
  <2>4. (i # 1 => i - 1 \in 1 .. Len(s)) /\ (j # 1 => j - 1 \in 1 .. Len(s))
    BY <1>2
  <2> QED BY <1>2, <2>1, <2>2, <2>3, <2>4, SMTT(30)
<1> QED BY <1>1, <1>2, <1>3, <1>4

\* A thread is idle, or has the block of the flag that its request or its
\* block's byte says.
MemDoes(d) ==
  \/ d = Memory!Idle
  \/ /\ d.op = "malloc" /\ d.nbytes \in Requests
     /\ d.block[1] = Memory!FlagOf(d.nbytes)
  \/ /\ d.op = "free" /\ d.block[1] = d.flag
     /\ d.flag \in Memory!UsedFlags \cup {Memory!System}

MemTypes ==
  /\ free_ \in [Memory!UsedFlags -> Seq(Nat)]
  /\ blocks \in [Memory!UsedFlags -> Nat] /\ peak \in [Memory!UsedFlags -> Nat]
  /\ \A o \in owned : /\ o.nbytes \in Requests /\ o.flag = Memory!FlagOf(o.nbytes)
                      /\ o.block[1] = o.flag
  /\ doing = [t \in MemThreads |-> doing[t]]
  /\ \A t \in MemThreads : MemDoes(doing[t])

\* A block has one owner or thread.
MemOwners ==
  /\ \A o, p \in owned : o.block = p.block => o = p
  /\ \A t, u \in Memory!Busy : doing[t].block = doing[u].block => t = u
  /\ \A o \in owned, t \in Memory!Busy : o.block # doing[t].block

\* The blocks of allocator f are its n blocks, on the list or out.
Covers(f, list, out, n) ==
  /\ list \in Seq(Nat) /\ IsInjective(list)
  /\ \A i \in Range(list) : i \in 1 .. n /\ <<f, i>> \notin out
  /\ \A b \in out : \E i \in 1 .. n : b = <<f, i>>
  /\ \A i \in 1 .. n : i \in Range(list) \/ <<f, i>> \in out

MemPlaces ==
  \A f \in Memory!UsedFlags :
    /\ Covers(f, free_[f], Memory!Out(f), blocks[f])
    /\ blocks[f] < peak[f] + block_number_ \/ blocks[f] < 1 + block_number_

MemInv == MemTypes /\ MemOwners /\ MemPlaces

\* At the start there is no block.
LEMMA MemoryStarts ==
  ASSUME Memory!MemoryInit
  PROVE  MemInv
<1> USE MemoryAssumption DEF Memory!MemoryInit
<1>1. PICK list : list = [i \in 1 .. block_number_ |-> i]
  OBVIOUS
<1>2. list \in Seq(Nat) /\ Range(list) = 1 .. block_number_ /\ IsInjective(list)
  BY <1>1 DEF Range, IsInjective
<1>3. MemTypes
  BY <1>1, <1>2 DEF MemTypes, MemDoes
<1>4. Memory!Busy = {} /\ \A f : Memory!Out(f) = {}
  BY DEF Memory!Busy, Memory!Out
<1>5. MemOwners
  BY <1>4 DEF MemOwners
<1>6. MemPlaces
  <2>1. \A f \in Memory!UsedFlags : free_[f] = list /\ blocks[f] = block_number_
    BY <1>1
  <2> QED BY <1>2, <1>4, <2>1, SMTT(30) DEF MemPlaces, Covers
<1> QED BY <1>3, <1>5, <1>6 DEF MemInv

\* Blocks that are covered, counted.
LEMMA CoversCounted ==
  ASSUME NEW f, NEW list, NEW out, NEW n \in Nat, Covers(f, list, out, n)
  PROVE  IsFiniteSet(out) /\ Len(list) + Cardinality(out) = n
<1>1. list \in Seq(Nat) /\ IsFiniteSet(Range(list)) /\ Cardinality(Range(list)) = Len(list)
  BY InjectiveCounted DEF Covers
<1>2. IsFiniteSet(1 .. n) /\ Cardinality(1 .. n) = n
  <2>1. /\ IsFiniteSet(1 .. n)
        /\ Cardinality(1 .. n) = IF 1 > n THEN 0 ELSE n - 1 + 1
    BY FS_Interval
  <2> QED BY <2>1
<1> DEFINE rest == (1 .. n) \ Range(list)
           Pair == [i \in rest |-> <<f, i>>]
<1>3. IsFiniteSet(rest) /\ Cardinality(rest) \in Nat /\ Len(list) \in Nat
  BY <1>1, <1>2, FS_Subset, FS_CardinalityType
<1>4. Len(list) + Cardinality(rest) = n
  <2>1. Range(list) \cup rest = 1 .. n /\ Range(list) \cap rest = {}
    BY DEF Covers
  <2>2. Cardinality(Range(list) \cup rest) =
          Cardinality(Range(list)) + Cardinality(rest) - Cardinality(Range(list) \cap rest)
    BY <1>1, <1>3, FS_Union
  <2>3. Cardinality(Range(list) \cap rest) = 0
    BY <2>1, FS_EmptySet
  <2>4. Cardinality(1 .. n) = Cardinality(Range(list)) + Cardinality(rest) - 0
    BY <2>1, <2>2, <2>3
  <2> HIDE DEF rest
  <2>5. PICK c : c = Cardinality(rest)
    OBVIOUS
  <2>6. c \in Nat /\ n = Len(list) + c - 0
    BY <1>1, <1>2, <1>3, <2>4, <2>5
  <2>7. Len(list) + c = n
    BY ONLY <1>3, <2>6
  <2> QED BY <2>5, <2>7
<1>5. Pair \in Bijection(rest, out)
  <2>1. \A i \in rest : <<f, i>> \in out
    BY DEF Covers
  <2>2. \A b \in out : \E i \in rest : <<f, i>> = b
    BY DEF Covers
  <2>3. \A i, j \in rest : <<f, i>> = <<f, j>> => i = j
    OBVIOUS
  <2> HIDE DEF rest
  <2>4. Pair \in [rest -> out] /\ \A i \in rest : Pair[i] = <<f, i>>
    BY <2>1
  <2> HIDE DEF Pair
  <2>5. Pair \in Injection(rest, out)
    BY <2>3, <2>4 DEF Injection, IsInjective
  <2>6. Pair \in Surjection(rest, out)
    BY <2>2, <2>4 DEF Surjection
  <2> QED BY <2>5, <2>6 DEF Bijection
<1>6. ExistsBijection(rest, out)
  BY <1>5 DEF ExistsBijection
<1> HIDE DEF rest, Pair
<1> QED BY <1>3, <1>4, <1>6, FS_Bijection

\* New blocks, when the list is empty.
LEMMA CoversMore ==
  ASSUME NEW f, NEW out, NEW n \in Nat, Covers(f, <<>>, out, n),
         NEW new, new = [i \in 1 .. block_number_ |-> n + block_number_ + 1 - i]
  PROVE  Covers(f, new, out, n + block_number_) /\ new # <<>>
<1> USE MemoryAssumption
<1>1. new \in Seq(Nat) /\ DOMAIN new = 1 .. block_number_ /\ Len(new) = block_number_
  OBVIOUS
<1>2. Range(new) = n + 1 .. n + block_number_
  <2>1. ASSUME NEW x \in n + 1 .. n + block_number_ PROVE x \in Range(new)
    <3>1. PICK i : i = n + block_number_ + 1 - x
      OBVIOUS
    <3>2. i \in DOMAIN new /\ new[i] = x
      BY <1>1, <3>1
    <3> QED BY <3>2 DEF Range
  <2>2. ASSUME NEW x \in Range(new) PROVE x \in n + 1 .. n + block_number_
    <3>1. PICK i \in DOMAIN new : x = new[i]
      BY DEF Range
    <3> QED BY <1>1, <3>1
  <2> QED BY <2>1, <2>2
<1>3. IsInjective(new)
  <2>1. \A i, j \in 1 .. block_number_ : new[i] = new[j] => i = j
    OBVIOUS
  <2> QED BY <1>1, <2>1 DEF IsInjective
<1>4. Range(<<>>) = {}
  BY DEF Range
<1>5. \A b \in out : \E i \in 1 .. n : b = <<f, i>>
  BY DEF Covers
<1>6. \A i \in 1 .. n : <<f, i>> \in out
  BY <1>4 DEF Covers
<1>7. \A i \in n + 1 .. n + block_number_ : i \in 1 .. n + block_number_ /\ i \notin 1 .. n
  OBVIOUS
<1>8. \A i \in n + 1 .. n + block_number_ : <<f, i>> \notin out
  BY <1>5, <1>7
<1>9. \A i \in 1 .. n + block_number_ : i \in 1 .. n \/ i \in n + 1 .. n + block_number_
  OBVIOUS
<1>10. 1 .. n \subseteq 1 .. n + block_number_
  OBVIOUS
<1> QED BY <1>1, <1>2, <1>3, <1>5, <1>6, <1>7, <1>8, <1>9, <1>10 DEF Covers

\* The first block of the list is taken out.
LEMMA CoversTaken ==
  ASSUME NEW f, NEW list, NEW out, NEW n \in Nat, Covers(f, list, out, n), list # <<>>
  PROVE  /\ Covers(f, Tail(list), out \cup {<<f, Head(list)>>}, n)
         /\ <<f, Head(list)>> \notin out
<1>1. list \in Seq(Nat) /\ IsInjective(list)
  BY DEF Covers
<1>2. /\ Range(list) = Range(Tail(list)) \cup {Head(list)} /\ IsInjective(Tail(list))
      /\ Head(list) \notin Range(Tail(list)) /\ Tail(list) \in Seq(Nat)
  BY <1>1, RangeTail, InjectiveTail
<1>3. PICK r, h : r = Tail(list) /\ h = Head(list)
  OBVIOUS
<1> QED BY <1>2, <1>3 DEF Covers

\* A block comes back.
LEMMA CoversBack ==
  ASSUME NEW f, NEW list, NEW out, NEW n \in Nat, Covers(f, list, out, n), NEW b \in out
  PROVE  /\ b = <<f, b[2]>>
         /\ Covers(f, <<b[2]>> \o list, out \ {b}, n)
<1>1. PICK i \in 1 .. n : b = <<f, i>>
  BY DEF Covers
<1>2. i \notin Range(list) /\ list \in Seq(Nat) /\ IsInjective(list) /\ i \in Nat
  BY <1>1 DEF Covers
<1>3. /\ <<i>> \o list \in Seq(Nat) /\ IsInjective(<<i>> \o list)
      /\ Range(<<i>> \o list) = Range(list) \cup {i}
  BY <1>2, RangePrepend
<1>4. PICK r : r = <<i>> \o list
  OBVIOUS
<1>5. Covers(f, r, out \ {b}, n)
  <2>1. \A j \in Range(r) : j \in 1 .. n /\ <<f, j>> \notin out \ {b}
    BY <1>1, <1>3, <1>4 DEF Covers
  <2>2. \A c \in out \ {b} : \E j \in 1 .. n : c = <<f, j>>
    BY DEF Covers
  <2>3. \A j \in 1 .. n : j \in Range(r) \/ <<f, j>> \in out \ {b}
    BY <1>1, <1>3, <1>4 DEF Covers
  <2> QED BY <1>3, <1>4, <2>1, <2>2, <2>3 DEF Covers
<1>6. b[2] = i
  BY <1>1
<1> QED BY <1>1, <1>4, <1>5, <1>6

\* What threads and owners have, after a thread has begun with a block.
LEMMA Begins ==
  ASSUME MemTypes, NEW t \in MemThreads \ Memory!Busy, NEW d,
         d # Memory!Idle, doing' = [doing EXCEPT ![t] = d]
  PROVE  /\ Memory!Busy' = Memory!Busy \cup {t}
         /\ doing' = [u \in MemThreads |-> doing'[u]] /\ doing'[t] = d
         /\ \A u \in MemThreads \ {t} : doing'[u] = doing[u]
<1>1. doing = [u \in MemThreads |-> doing[u]]
  BY DEF MemTypes
<1>2. \A u \in MemThreads : doing'[u] = IF u = t THEN d ELSE doing[u]
  BY <1>1
<1>3. doing' = [u \in MemThreads |-> doing'[u]]
  BY <1>1
<1> QED BY <1>2, <1>3 DEF Memory!Busy

\* And after it has ended.
LEMMA Ends ==
  ASSUME MemTypes, NEW t \in MemThreads, doing' = [doing EXCEPT ![t] = Memory!Idle]
  PROVE  /\ Memory!Busy' = Memory!Busy \ {t}
         /\ doing' = [u \in MemThreads |-> doing'[u]] /\ doing'[t] = Memory!Idle
         /\ \A u \in MemThreads \ {t} : doing'[u] = doing[u]
<1>1. doing = [u \in MemThreads |-> doing[u]]
  BY DEF MemTypes
<1>2. \A u \in MemThreads : doing'[u] = IF u = t THEN Memory!Idle ELSE doing[u]
  BY <1>1
<1>3. doing' = [u \in MemThreads |-> doing'[u]]
  BY <1>1
<1> QED BY <1>2, <1>3 DEF Memory!Busy

\* A thread begins with a block that nobody has.
LEMMA MallocOwners ==
  ASSUME MemInv, NEW t \in MemThreads \ Memory!Busy, NEW n \in Requests, NEW b,
         b[1] = Memory!FlagOf(n), b \notin Memory!Out(b[1]),
         doing' = [doing EXCEPT ![t] = [op |-> "malloc", block |-> b, nbytes |-> n]],
         owned' = owned
  PROVE  /\ MemOwners'
         /\ \A u \in MemThreads : MemDoes(doing'[u])
         /\ doing' = [u \in MemThreads |-> doing'[u]]
         /\ \A g : Memory!Out(g)' = IF g = b[1] THEN Memory!Out(g) \cup {b} ELSE Memory!Out(g)
<1>1. PICK d : d = [op |-> "malloc", block |-> b, nbytes |-> n]
  OBVIOUS
<1>2. d.op = "malloc" /\ d.block = b /\ d.nbytes = n
  BY <1>1
<1>3. d # Memory!Idle
  BY <1>2 DEF Memory!Idle
<1>4. /\ Memory!Busy' = Memory!Busy \cup {t}
      /\ doing' = [u \in MemThreads |-> doing'[u]] /\ doing'[t] = d
      /\ \A u \in MemThreads \ {t} : doing'[u] = doing[u]
  BY <1>1, <1>3, Begins DEF MemInv
<1>5. \A u \in Memory!Busy : u \in MemThreads \ {t} /\ doing'[u] = doing[u]
  BY <1>4 DEF Memory!Busy
<1>6. /\ \A o \in owned : o.block # b
      /\ \A u \in Memory!Busy : doing[u].block # b
  <2>1. \A o \in owned : o.block[1] = b[1] => o.block \in Memory!Out(b[1])
    BY DEF Memory!Out
  <2>2. \A u \in Memory!Busy : doing[u].block[1] = b[1] => doing[u].block \in Memory!Out(b[1])
    BY DEF Memory!Out
  <2> QED BY <2>1, <2>2
<1>7. MemOwners'
  <2>1. \A o, p \in owned' : o.block = p.block => o = p
    BY DEF MemInv, MemOwners
  <2>2. ASSUME NEW u \in Memory!Busy', NEW v \in Memory!Busy',
               doing'[u].block = doing'[v].block
        PROVE  u = v
    BY <1>2, <1>4, <1>5, <1>6, <2>2 DEF MemInv, MemOwners
  <2>3. \A o \in owned', u \in Memory!Busy' : o.block # doing'[u].block
    BY <1>2, <1>4, <1>5, <1>6 DEF MemInv, MemOwners
  <2> QED BY <2>1, <2>2, <2>3 DEF MemOwners
<1>8. ASSUME NEW g
      PROVE  Memory!Out(g)' = IF g = b[1] THEN Memory!Out(g) \cup {b} ELSE Memory!Out(g)
  <2>1. {u \in Memory!Busy' : doing'[u].block[1] = g} =
          IF g = b[1] THEN {u \in Memory!Busy : doing[u].block[1] = g} \cup {t}
          ELSE {u \in Memory!Busy : doing[u].block[1] = g}
    BY <1>2, <1>4, <1>5
  <2>2. {doing'[u].block : u \in {u \in Memory!Busy' : doing'[u].block[1] = g}} =
          IF g = b[1]
          THEN {doing[u].block : u \in {u \in Memory!Busy : doing[u].block[1] = g}} \cup {b}
          ELSE {doing[u].block : u \in {u \in Memory!Busy : doing[u].block[1] = g}}
    BY <1>2, <1>4, <1>5, <2>1
  <2> QED BY <2>2 DEF Memory!Out
<1>9. \A u \in MemThreads : MemDoes(doing'[u])
  BY <1>2, <1>4 DEF MemInv, MemTypes, MemDoes
<1> QED BY <1>4, <1>7, <1>8, <1>9

\* A block has room for what was asked.
LEMMA FlagHasRoom ==
  ASSUME NEW n \in Requests
  PROVE  /\ Memory!FlagOf(n) \in Memory!Flags \cup {Memory!System}
         /\ Memory!FlagOf(n) # Memory!System => n <= Memory!Capacity(Memory!FlagOf(n))
<1>1. n \in Nat
  BY MemoryAssumption
<1>2. PICK c : c = [f \in 0 .. 12 |-> Memory!Capacity(f)]
  OBVIOUS
<1>3. \A f \in 0 .. 12 : c[f] = Memory!Capacity(f) /\ c[f] \in Nat
  BY <1>2 DEF Memory!Capacity, Memory!Capacities
<1>4. CASE n > c[12]
  BY <1>3, <1>4 DEF Memory!FlagOf, Memory!System, Memory!Flags
<1>5. CASE ~(n > c[12])
  <2>1. \E f \in 0 .. 12 : n <= c[f] /\ \A g \in 0 .. 12 : n <= c[g] => f <= g
    BY <1>1, <1>3, <1>5
  <2>2. \E f \in Memory!Flags : /\ n <= Memory!Capacity(f)
                                /\ \A g \in Memory!Flags : n <= Memory!Capacity(g) => f <= g
    BY <1>3, <2>1 DEF Memory!Flags, Memory!System
  <2>3. Memory!FlagOf(n) =
          CHOOSE f \in Memory!Flags : /\ n <= Memory!Capacity(f)
                                      /\ \A g \in Memory!Flags : n <= Memory!Capacity(g) => f <= g
    BY <1>3, <1>5 DEF Memory!FlagOf, Memory!System
  <2>4. Memory!FlagOf(n) \in Memory!Flags /\ n <= Memory!Capacity(Memory!FlagOf(n))
    BY <2>2, <2>3
  <2> QED BY <2>4
<1> QED BY <1>4, <1>5

\* malloc takes the first block of its allocator, which adds blocks when it has none.
LEMMA BlockMallocKeepsInv ==
  ASSUME MemInv, NEW t \in MemThreads \ Memory!Busy, NEW n \in Requests,
         Memory!BlockMalloc(t, n), owned' = owned
  PROVE  MemInv'
<1> USE MemoryAssumption
<1>1. PICK f : f = Memory!FlagOf(n)
  OBVIOUS
<1>2. f \in Memory!UsedFlags /\ f # Memory!System
  BY <1>1 DEF Memory!BlockMalloc, Memory!UsedFlags
<1>3. PICK list : list = IF free_[f] = <<>> THEN Memory!allocat_size(f) ELSE free_[f]
  OBVIOUS
<1>4. /\ free_' = [free_ EXCEPT ![f] = Tail(list)]
      /\ blocks' = [blocks EXCEPT ![f] = IF free_[f] = <<>> THEN @ + block_number_ ELSE @]
      /\ doing' = [doing EXCEPT ![t] = [op |-> "malloc", block |-> <<f, Head(list)>>, nbytes |-> n]]
      /\ peak' = [peak EXCEPT ![f] = LET out == Memory!Cardinality(Memory!Out(f)) + 1
                                     IN IF out > @ THEN out ELSE @]
  BY <1>1, <1>3 DEF Memory!BlockMalloc, Memory!IsEmpty
<1>5. /\ Covers(f, free_[f], Memory!Out(f), blocks[f]) /\ blocks[f] \in Nat /\ peak[f] \in Nat
      /\ blocks[f] < peak[f] + block_number_ \/ blocks[f] < 1 + block_number_
  BY <1>2 DEF MemInv, MemTypes, MemPlaces
<1>6. /\ IsFiniteSet(Memory!Out(f))
      /\ Len(free_[f]) + Cardinality(Memory!Out(f)) = blocks[f]
      /\ Cardinality(Memory!Out(f)) \in Nat
  BY <1>5, CoversCounted, FS_CardinalityType
<1>7. PICK c \in Nat : /\ c = Memory!Cardinality(Memory!Out(f))
                       /\ c = Cardinality(Memory!Out(f))
  BY <1>6, MemoryLibrary
<1>8. /\ blocks'[f] \in Nat /\ Covers(f, list, Memory!Out(f), blocks'[f]) /\ list # <<>>
      /\ peak'[f] \in Nat
      /\ blocks'[f] < peak'[f] + block_number_ \/ blocks'[f] < 1 + block_number_
  <2>1. peak'[f] = IF c + 1 > peak[f] THEN c + 1 ELSE peak[f]
    BY <1>2, <1>4, <1>7 DEF MemInv, MemTypes
  <2>2. blocks'[f] = IF free_[f] = <<>> THEN blocks[f] + block_number_ ELSE blocks[f]
    BY <1>2, <1>4 DEF MemInv, MemTypes
  <2>3. CASE free_[f] = <<>>
    <3>1. list = [i \in 1 .. block_number_ |-> blocks[f] + block_number_ + 1 - i]
      BY <1>3, <2>3 DEF Memory!allocat_size
    <3>2. Covers(f, <<>>, Memory!Out(f), blocks[f])
      BY <1>5, <2>3
    <3>3. Covers(f, list, Memory!Out(f), blocks[f] + block_number_) /\ list # <<>>
      BY <1>5, <3>1, <3>2, CoversMore
    <3>4. c = blocks[f]
      <4>1. Len(free_[f]) = 0
        BY <2>3
      <4> QED BY <1>5, <1>6, <1>7, <4>1
    <3> QED BY <1>5, <2>1, <2>2, <2>3, <3>3, <3>4
  <2>4. CASE free_[f] # <<>>
    <3>1. list = free_[f] /\ blocks'[f] = blocks[f]
      BY <1>3, <2>2, <2>4
    <3> QED BY <1>5, <2>1, <2>4, <3>1
  <2> QED BY <2>3, <2>4
<1>9. PICK b : b = <<f, Head(list)>>
  OBVIOUS
<1>10. /\ Covers(f, Tail(list), Memory!Out(f) \cup {b}, blocks'[f])
       /\ b \notin Memory!Out(f) /\ b[1] = f
  BY <1>8, <1>9, CoversTaken
<1>11. doing' = [doing EXCEPT ![t] = [op |-> "malloc", block |-> b, nbytes |-> n]]
  BY <1>4, <1>9
<1>12. /\ MemOwners'
       /\ \A u \in MemThreads : MemDoes(doing'[u])
       /\ doing' = [u \in MemThreads |-> doing'[u]]
       /\ \A g : Memory!Out(g)' = IF g = f THEN Memory!Out(g) \cup {b} ELSE Memory!Out(g)
  BY <1>1, <1>10, <1>11, MallocOwners
<1>13. /\ \A g \in Memory!UsedFlags \ {f} :
            free_'[g] = free_[g] /\ blocks'[g] = blocks[g] /\ peak'[g] = peak[g]
       /\ free_'[f] = Tail(list) /\ Tail(list) \in Seq(Nat)
  BY <1>2, <1>4, <1>10 DEF MemInv, MemTypes, Covers
<1>14. MemTypes'
  <2>1. free_' \in [Memory!UsedFlags -> Seq(Nat)]
    BY <1>2, <1>4, <1>13 DEF MemInv, MemTypes
  <2>2. blocks' \in [Memory!UsedFlags -> Nat] /\ peak' \in [Memory!UsedFlags -> Nat]
    <3>1. /\ blocks' = [g \in Memory!UsedFlags |-> blocks'[g]]
          /\ peak' = [g \in Memory!UsedFlags |-> peak'[g]]
      BY <1>4 DEF MemInv, MemTypes
    <3> QED BY <1>8, <1>13, <3>1 DEF MemInv, MemTypes
  <2>3. Memory!UsedFlags' = Memory!UsedFlags /\ Memory!Idle' = Memory!Idle
    OBVIOUS
  <2> QED BY <1>12, <2>1, <2>2, <2>3 DEF MemInv, MemTypes
<1>15. MemPlaces'
  <2>1. SUFFICES ASSUME NEW g \in Memory!UsedFlags
                 PROVE  /\ Covers(g, free_'[g], Memory!Out(g)', blocks'[g])
                        /\ blocks'[g] < peak'[g] + block_number_ \/ blocks'[g] < 1 + block_number_
    BY DEF MemPlaces
  <2>2. CASE g = f
    BY <1>8, <1>10, <1>12, <1>13, <2>2
  <2>3. CASE g # f
    BY <1>12, <1>13, <2>3 DEF MemInv, MemPlaces
  <2> QED BY <2>2, <2>3
<1> QED BY <1>12, <1>14, <1>15 DEF MemInv

\* The system's blocks are no allocator's.
LEMMA SystemMallocKeepsInv ==
  ASSUME MemInv, NEW t \in MemThreads \ Memory!Busy, NEW n \in Requests,
         Memory!SystemMalloc(t, n), owned' = owned
  PROVE  MemInv'
<1>1. PICK b : b = <<Memory!System, t>>
  OBVIOUS
<1>2. b[1] = Memory!FlagOf(n) /\ b[1] = Memory!System
  BY <1>1 DEF Memory!SystemMalloc
<1>3. /\ doing' = [doing EXCEPT ![t] = [op |-> "malloc", block |-> b, nbytes |-> n]]
      /\ free_' = free_ /\ blocks' = blocks /\ peak' = peak
  BY <1>1 DEF Memory!SystemMalloc
<1>4. b \notin Memory!Out(b[1])
  BY <1>1 DEF Memory!SystemMalloc, Memory!Out
<1>5. /\ MemOwners'
      /\ \A u \in MemThreads : MemDoes(doing'[u])
      /\ doing' = [u \in MemThreads |-> doing'[u]]
      /\ \A g : Memory!Out(g)' = IF g = b[1] THEN Memory!Out(g) \cup {b} ELSE Memory!Out(g)
  BY <1>2, <1>3, <1>4, MallocOwners
<1>6. \A g \in Memory!UsedFlags : Memory!Out(g)' = Memory!Out(g)
  BY <1>2, <1>5 DEF Memory!UsedFlags
<1>7. MemTypes'
  BY <1>3, <1>5 DEF MemInv, MemTypes
<1>8. MemPlaces'
  BY <1>3, <1>6 DEF MemInv, MemPlaces
<1> QED BY <1>5, <1>7, <1>8 DEF MemInv

\* The caller has the block that his thread had.
LEMMA WriteFlagKeepsInv ==
  ASSUME MemInv, NEW t \in MemThreads, Memory!WriteFlag(t)
  PROVE  MemInv'
<1>1. PICK b, n : b = doing[t].block /\ n = doing[t].nbytes
  OBVIOUS
<1>2. PICK o : o = [block |-> b, nbytes |-> n, flag |-> Memory!FlagOf(n)]
  OBVIOUS
<1>3. o.block = b /\ o.nbytes = n /\ o.flag = Memory!FlagOf(n)
  BY <1>2
<1>4. /\ owned' = owned \cup {o} /\ doing' = [doing EXCEPT ![t] = Memory!Idle]
      /\ free_' = free_ /\ blocks' = blocks /\ peak' = peak /\ doing[t].op = "malloc"
  BY <1>1, <1>2 DEF Memory!WriteFlag
<1>5. doing[t] # Memory!Idle
  BY <1>4 DEF Memory!Idle
<1>6. t \in Memory!Busy /\ n \in Requests /\ b[1] = Memory!FlagOf(n)
  BY <1>1, <1>4, <1>5 DEF MemInv, MemTypes, MemDoes, Memory!Busy
<1>7. /\ Memory!Busy' = Memory!Busy \ {t}
      /\ doing' = [u \in MemThreads |-> doing'[u]] /\ doing'[t] = Memory!Idle
      /\ \A u \in MemThreads \ {t} : doing'[u] = doing[u]
  BY <1>4, Ends DEF MemInv
<1>8. \A u \in Memory!Busy' : u \in MemThreads \ {t} /\ u \in Memory!Busy /\ doing'[u] = doing[u]
  BY <1>7 DEF Memory!Busy
<1>9. MemTypes'
  BY <1>3, <1>4, <1>6, <1>7 DEF MemInv, MemTypes, MemDoes
<1>10. MemOwners'
  <2>1. \A p \in owned : p.block # o.block
    BY <1>1, <1>3, <1>6 DEF MemInv, MemOwners
  <2>2. \A p, q \in owned' : p.block = q.block => p = q
    BY <1>4, <2>1 DEF MemInv, MemOwners
  <2>3. \A u, v \in Memory!Busy' : doing'[u].block = doing'[v].block => u = v
    BY <1>8 DEF MemInv, MemOwners
  <2>4. \A u \in Memory!Busy' : o.block # doing'[u].block
    BY <1>1, <1>3, <1>6, <1>8 DEF MemInv, MemOwners
  <2>5. \A p \in owned', u \in Memory!Busy' : p.block # doing'[u].block
    BY <1>4, <1>8, <2>4 DEF MemInv, MemOwners
  <2> QED BY <2>2, <2>3, <2>5 DEF MemOwners
<1>11. \A g : Memory!Out(g)' = Memory!Out(g)
  <2>1. ASSUME NEW g, NEW x \in Memory!Out(g)' PROVE x \in Memory!Out(g)
    BY <1>1, <1>3, <1>4, <1>6, <1>8, <2>1 DEF Memory!Out
  <2>2. ASSUME NEW g, NEW x \in Memory!Out(g) PROVE x \in Memory!Out(g)'
    <3>1. CASE \E p \in owned : p.block[1] = g /\ x = p.block
      BY <1>4, <3>1 DEF Memory!Out
    <3>2. CASE \E u \in Memory!Busy : doing[u].block[1] = g /\ x = doing[u].block
      <4>1. PICK u \in Memory!Busy : doing[u].block[1] = g /\ x = doing[u].block
        BY <3>2
      <4>2. CASE u = t
        BY <1>1, <1>3, <1>4, <4>1, <4>2 DEF Memory!Out
      <4>3. CASE u # t
        <5>1. u \in Memory!Busy' /\ doing'[u] = doing[u]
          BY <1>7, <4>1, <4>3 DEF Memory!Busy
        <5> QED BY <4>1, <5>1 DEF Memory!Out
      <4> QED BY <4>2, <4>3
    <3> QED BY <2>2, <3>1, <3>2 DEF Memory!Out
  <2> QED BY <2>1, <2>2
<1>12. MemPlaces'
  BY <1>4, <1>11 DEF MemInv, MemPlaces
<1> QED BY <1>9, <1>10, <1>12 DEF MemInv

\* And the thread that frees it has it from him.
LEMMA ReadFlagKeepsInv ==
  ASSUME MemInv, NEW t \in MemThreads, NEW o \in owned, Memory!ReadFlag(t, o)
  PROVE  MemInv'
<1>1. PICK d : d = [op |-> "free", block |-> o.block, flag |-> o.flag]
  OBVIOUS
<1>2. d.op = "free" /\ d.block = o.block /\ d.flag = o.flag
  BY <1>1
<1>3. d # Memory!Idle
  BY <1>2 DEF Memory!Idle
<1>4. /\ owned' = owned \ {o} /\ doing' = [doing EXCEPT ![t] = d]
      /\ free_' = free_ /\ blocks' = blocks /\ peak' = peak /\ t \in MemThreads \ Memory!Busy
  BY <1>1 DEF Memory!ReadFlag
<1>5. /\ Memory!Busy' = Memory!Busy \cup {t}
      /\ doing' = [u \in MemThreads |-> doing'[u]] /\ doing'[t] = d
      /\ \A u \in MemThreads \ {t} : doing'[u] = doing[u]
  BY <1>3, <1>4, Begins DEF MemInv
<1>6. \A u \in Memory!Busy : u \in MemThreads \ {t} /\ doing'[u] = doing[u]
  BY <1>4, <1>5 DEF Memory!Busy
<1>7. o.flag \in Memory!UsedFlags \cup {Memory!System} /\ o.block[1] = o.flag
  BY DEF MemInv, MemTypes, Memory!UsedFlags
<1>8. MemTypes'
  BY <1>2, <1>4, <1>5, <1>7 DEF MemInv, MemTypes, MemDoes
<1>9. MemOwners'
  <2>1. \A p, q \in owned' : p.block = q.block => p = q
    BY <1>4 DEF MemInv, MemOwners
  <2>2. \A u \in Memory!Busy : doing'[u].block # doing'[t].block
    BY <1>2, <1>5, <1>6 DEF MemInv, MemOwners
  <2>3. \A u, v \in Memory!Busy : doing'[u].block = doing'[v].block => u = v
    BY <1>6 DEF MemInv, MemOwners
  <2>4. \A u, v \in Memory!Busy' : doing'[u].block = doing'[v].block => u = v
    BY <1>5, <2>2, <2>3
  <2>5. \A p \in owned' : p.block # doing'[t].block
    BY <1>2, <1>4, <1>5 DEF MemInv, MemOwners
  <2>6. \A p \in owned', u \in Memory!Busy : p.block # doing'[u].block
    BY <1>4, <1>6 DEF MemInv, MemOwners
  <2>7. \A p \in owned', u \in Memory!Busy' : p.block # doing'[u].block
    BY <1>5, <2>5, <2>6
  <2> QED BY <2>1, <2>4, <2>7 DEF MemOwners
<1>10. \A g : Memory!Out(g)' = Memory!Out(g)
  <2>1. ASSUME NEW g, NEW x \in Memory!Out(g)' PROVE x \in Memory!Out(g)
    BY <1>2, <1>4, <1>5, <1>6, <2>1 DEF Memory!Out
  <2>2. ASSUME NEW g, NEW x \in Memory!Out(g) PROVE x \in Memory!Out(g)'
    <3>1. CASE \E p \in owned : p.block[1] = g /\ x = p.block
      <4>1. PICK p \in owned : p.block[1] = g /\ x = p.block
        BY <3>1
      <4>2. CASE p = o
        <5>1. t \in Memory!Busy' /\ doing'[t].block[1] = g /\ x = doing'[t].block
          BY <1>2, <1>5, <4>1, <4>2
        <5> QED BY <5>1 DEF Memory!Out
      <4>3. CASE p # o
        BY <1>4, <4>1, <4>3 DEF Memory!Out
      <4> QED BY <4>2, <4>3
    <3>2. CASE \E u \in Memory!Busy : doing[u].block[1] = g /\ x = doing[u].block
      <4>1. PICK u \in Memory!Busy : doing[u].block[1] = g /\ x = doing[u].block
        BY <3>2
      <4>2. u \in Memory!Busy' /\ doing'[u] = doing[u]
        BY <1>5, <1>6
      <4> QED BY <4>1, <4>2 DEF Memory!Out
    <3> QED BY <2>2, <3>1, <3>2 DEF Memory!Out
  <2> QED BY <2>1, <2>2
<1>11. MemPlaces'
  BY <1>4, <1>10 DEF MemInv, MemPlaces
<1> QED BY <1>8, <1>9, <1>11 DEF MemInv

\* The block goes back to the list of its allocator.
LEMMA BlockFreeKeepsInv ==
  ASSUME MemInv, NEW t \in MemThreads, Memory!BlockFree(t)
  PROVE  MemInv'
<1>1. PICK b, f : b = doing[t].block /\ f = doing[t].flag
  OBVIOUS
<1>2. /\ IF f = Memory!System THEN UNCHANGED free_
         ELSE free_' = [free_ EXCEPT ![f] = <<b[2]>> \o @]
      /\ doing' = [doing EXCEPT ![t] = Memory!Idle]
      /\ owned' = owned /\ blocks' = blocks /\ peak' = peak /\ doing[t].op = "free"
  BY <1>1 DEF Memory!BlockFree
<1>3. doing[t] # Memory!Idle
  BY <1>2 DEF Memory!Idle
<1>4. /\ t \in Memory!Busy /\ b[1] = f
      /\ f \in Memory!UsedFlags \cup {Memory!System}
  BY <1>1, <1>2, <1>3 DEF MemInv, MemTypes, MemDoes, Memory!Busy
<1>5. /\ Memory!Busy' = Memory!Busy \ {t}
      /\ doing' = [u \in MemThreads |-> doing'[u]] /\ doing'[t] = Memory!Idle
      /\ \A u \in MemThreads \ {t} : doing'[u] = doing[u]
  BY <1>2, Ends DEF MemInv
<1>6. \A u \in Memory!Busy' : u \in MemThreads \ {t} /\ u \in Memory!Busy /\ doing'[u] = doing[u]
  BY <1>5 DEF Memory!Busy
<1>7. MemOwners'
  <2>1. \A u, v \in Memory!Busy' : doing'[u].block = doing'[v].block => u = v
    BY <1>6 DEF MemInv, MemOwners
  <2>2. \A o \in owned', u \in Memory!Busy' : o.block # doing'[u].block
    BY <1>2, <1>6 DEF MemInv, MemOwners
  <2> QED BY <1>2, <2>1, <2>2 DEF MemInv, MemOwners
<1>8. \A g : Memory!Out(g)' = Memory!Out(g) \ {b}
  <2>1. ASSUME NEW g, NEW x \in Memory!Out(g)' PROVE x \in Memory!Out(g) \ {b}
    <3>1. CASE \E p \in owned : p.block[1] = g /\ x = p.block
      <4>1. x # b
        BY <1>1, <1>4, <3>1 DEF MemInv, MemOwners
      <4> QED BY <3>1, <4>1 DEF Memory!Out
    <3>2. CASE \E u \in Memory!Busy' : doing'[u].block[1] = g /\ x = doing'[u].block
      <4>1. PICK u \in Memory!Busy' : doing'[u].block[1] = g /\ x = doing'[u].block
        BY <3>2
      <4>2. u # t /\ u \in Memory!Busy /\ doing'[u] = doing[u]
        BY <1>6, <4>1
      <4>3. x # b
        BY <1>1, <1>4, <4>1, <4>2 DEF MemInv, MemOwners
      <4> QED BY <4>1, <4>2, <4>3 DEF Memory!Out
    <3> QED BY <1>2, <2>1, <3>1, <3>2 DEF Memory!Out
  <2>2. ASSUME NEW g, NEW x \in Memory!Out(g) \ {b} PROVE x \in Memory!Out(g)'
    <3>1. CASE \E p \in owned : p.block[1] = g /\ x = p.block
      BY <1>2, <3>1 DEF Memory!Out
    <3>2. CASE \E u \in Memory!Busy : doing[u].block[1] = g /\ x = doing[u].block
      <4>1. PICK u \in Memory!Busy : doing[u].block[1] = g /\ x = doing[u].block
        BY <3>2
      <4>2. u # t
        BY <1>1, <2>2, <4>1
      <4>3. u \in Memory!Busy' /\ doing'[u] = doing[u]
        BY <1>5, <4>1, <4>2 DEF Memory!Busy
      <4> QED BY <4>1, <4>3 DEF Memory!Out
    <3> QED BY <2>2, <3>1, <3>2 DEF Memory!Out
  <2> QED BY <2>1, <2>2
<1>9. \A g \in Memory!UsedFlags : g # f => free_'[g] = free_[g] /\ b \notin Memory!Out(g)
  <2>1. \A g : b \in Memory!Out(g) => b[1] = g
    BY DEF Memory!Out
  <2> QED BY <1>2, <1>4, <2>1 DEF MemInv, MemTypes
<1>10. f \in Memory!UsedFlags =>
         /\ free_'[f] = <<b[2]>> \o free_[f]
         /\ Covers(f, free_'[f], Memory!Out(f) \ {b}, blocks[f])
  <2>1. SUFFICES ASSUME f \in Memory!UsedFlags
                 PROVE  /\ free_'[f] = <<b[2]>> \o free_[f]
                        /\ Covers(f, free_'[f], Memory!Out(f) \ {b}, blocks[f])
    OBVIOUS
  <2>2. f # Memory!System
    BY <2>1 DEF Memory!UsedFlags
  <2>3. free_'[f] = <<b[2]>> \o free_[f]
    BY <1>2, <2>1, <2>2 DEF MemInv, MemTypes
  <2>4. b \in Memory!Out(f)
    BY <1>1, <1>4 DEF Memory!Out
  <2>5. Covers(f, free_[f], Memory!Out(f), blocks[f]) /\ blocks[f] \in Nat
    BY <2>1 DEF MemInv, MemTypes, MemPlaces
  <2>6. Covers(f, <<b[2]>> \o free_[f], Memory!Out(f) \ {b}, blocks[f])
    BY <2>4, <2>5, CoversBack
  <2> QED BY <2>3, <2>6
<1>11. MemPlaces'
  <2>1. SUFFICES ASSUME NEW g \in Memory!UsedFlags
                 PROVE  Covers(g, free_'[g], Memory!Out(g)', blocks[g])
    BY <1>2 DEF MemInv, MemPlaces
  <2>2. CASE g = f
    BY <1>8, <1>10, <2>2
  <2>3. CASE g # f
    <3>1. Memory!Out(g)' = Memory!Out(g) /\ free_'[g] = free_[g]
      BY <1>8, <1>9, <2>3
    <3> QED BY <3>1 DEF MemInv, MemPlaces
  <2> QED BY <2>2, <2>3
<1>12. MemTypes'
  <2>1. \A g \in Memory!UsedFlags : free_'[g] \in Seq(Nat)
    BY <1>2, <1>11 DEF MemPlaces, Covers
  <2>2. free_' = [g \in Memory!UsedFlags |-> free_'[g]]
    BY <1>2 DEF MemInv, MemTypes
  <2>3. free_' \in [Memory!UsedFlags -> Seq(Nat)]
    BY <2>1, <2>2
  <2>4. \A u \in MemThreads : MemDoes(doing'[u])
    BY <1>5 DEF MemInv, MemTypes, MemDoes
  <2> QED BY <1>2, <1>5, <2>3, <2>4 DEF MemInv, MemTypes
<1> QED BY <1>7, <1>11, <1>12 DEF MemInv

\* Every step of the memory pool keeps its invariant.
LEMMA MemoryStepKeepsInv ==
  ASSUME MemInv, Memory!MemoryNext \/ UNCHANGED memoryVars
  PROVE  MemInv'
<1>1. ASSUME NEW t \in MemThreads, NEW n \in Requests, Memory!malloc(t, n) PROVE MemInv'
  <2>1. t \in MemThreads \ Memory!Busy /\ owned' = owned
    BY <1>1 DEF Memory!malloc
  <2>2. CASE Memory!BlockMalloc(t, n)
    BY <2>1, <2>2, BlockMallocKeepsInv
  <2>3. CASE Memory!SystemMalloc(t, n)
    BY <2>1, <2>3, SystemMallocKeepsInv
  <2> QED BY <1>1, <2>2, <2>3 DEF Memory!malloc
<1>2. CASE UNCHANGED memoryVars
  <2>1. /\ free_' = free_ /\ blocks' = blocks /\ owned' = owned
        /\ doing' = doing /\ peak' = peak
    BY <1>2 DEF memoryVars
  <2>2. Memory!Busy' = Memory!Busy /\ \A g : Memory!Out(g)' = Memory!Out(g)
    BY <2>1 DEF Memory!Busy, Memory!Out
  <2>3. MemTypes' /\ MemOwners'
    BY <2>1, <2>2 DEF MemInv, MemTypes, MemOwners
  <2>4. MemPlaces'
    BY <2>1, <2>2 DEF MemInv, MemPlaces
  <2> QED BY <2>3, <2>4 DEF MemInv
<1> QED BY <1>1, <1>2, WriteFlagKeepsInv, ReadFlagKeepsInv, BlockFreeKeepsInv DEF Memory!MemoryNext

\* The invariant gives what the run checks.
LEMMA MemoryIsAccounted ==
  ASSUME MemInv
  PROVE  Memory!MemoryTypeOK /\ Memory!BlocksAccounted
<1>1. ASSUME NEW f \in Memory!UsedFlags
      PROVE  /\ free_[f] \in Seq(1 .. blocks[f])
             /\ Memory!IsInjective(free_[f])
             /\ {<<f, i>> : i \in Memory!Range(free_[f])} \cap Memory!Out(f) = {}
             /\ Len(free_[f]) + Memory!Cardinality(Memory!Out(f)) = blocks[f]
             /\ \E n \in {peak[f], 1} : blocks[f] < n + block_number_
  <2>1. /\ Covers(f, free_[f], Memory!Out(f), blocks[f]) /\ blocks[f] \in Nat
        /\ blocks[f] < peak[f] + block_number_ \/ blocks[f] < 1 + block_number_
    BY DEF MemInv, MemTypes, MemPlaces
  <2>2. Len(free_[f]) + Cardinality(Memory!Out(f)) = blocks[f]
    BY <2>1, CoversCounted
  <2>3. PICK list : list = free_[f]
    OBVIOUS
  <2>4. /\ list \in Seq(Nat) /\ IsInjective(list)
        /\ \A i \in Range(list) : i \in 1 .. blocks[f] /\ <<f, i>> \notin Memory!Out(f)
    BY <2>1, <2>3 DEF Covers
  <2>5. list \in Seq(1 .. blocks[f])
    <3>1. DOMAIN list = 1 .. Len(list) /\ list \in [1 .. Len(list) -> Nat] /\ Len(list) \in Nat
      BY <2>4
    <3>2. \A i \in 1 .. Len(list) : list[i] \in Range(list)
      BY <3>1 DEF Range
    <3>3. \A i \in 1 .. Len(list) : list[i] \in 1 .. blocks[f]
      BY <2>4, <3>2
    <3>4. PICK S : S = 1 .. blocks[f]
      OBVIOUS
    <3>5. \A i \in 1 .. Len(list) : list[i] \in S
      BY <3>3, <3>4
    <3>6. list \in Seq(S)
      BY ONLY <2>4, <3>5
    <3> QED BY <3>4, <3>6
  <2>6. {<<f, i>> : i \in Range(list)} \cap Memory!Out(f) = {}
    BY <2>4
  <2> QED BY <2>1, <2>2, <2>3, <2>4, <2>5, <2>6, MemoryLibrary
<1>2. \A o \in owned : o.block[1] # Memory!System =>
                         o.nbytes + 1 <= Memory!block_size_(o.block[1])
  <2>1. SUFFICES ASSUME NEW o \in owned, o.block[1] # Memory!System
                 PROVE  o.nbytes + 1 <= Memory!block_size_(o.block[1])
    OBVIOUS
  <2>2. o.nbytes \in Requests /\ o.block[1] = Memory!FlagOf(o.nbytes)
    BY DEF MemInv, MemTypes
  <2>3. /\ o.nbytes <= Memory!Capacity(o.block[1])
        /\ o.block[1] \in Memory!Flags \cup {Memory!System}
    BY <2>1, <2>2, FlagHasRoom
  <2>4. PICK f : f = o.block[1]
    OBVIOUS
  <2>5. f \in 0 .. 12
    BY <2>1, <2>3, <2>4 DEF Memory!Flags, Memory!System
  <2>6. Memory!Capacity(f) \in Nat
    BY <2>5 DEF Memory!Capacity, Memory!Capacities
  <2>7. o.nbytes \in Nat /\ Memory!Capacity(o.block[1]) \in Nat
    BY <2>2, <2>4, <2>6, MemoryAssumption
  <2> QED BY <2>3, <2>7 DEF Memory!block_size_
<1>3. \A o \in owned : o.nbytes \in Requests /\ o.flag \in Memory!Flags \cup {Memory!System}
  BY FlagHasRoom DEF MemInv, MemTypes
<1>4. \A t \in Memory!Busy : doing[t].op \in {"malloc", "free"}
  BY DEF MemInv, MemTypes, MemDoes, Memory!Busy
<1>5. \A o, p \in owned : o.block = p.block => o = p
  BY DEF MemInv, MemOwners
<1>6. /\ DOMAIN free_ = Memory!UsedFlags
      /\ blocks \in [Memory!UsedFlags -> Nat] /\ peak \in [Memory!UsedFlags -> Nat]
  BY DEF MemInv, MemTypes
<1>7. Memory!MemoryTypeOK
  BY <1>1, <1>3, <1>4, <1>6 DEF Memory!MemoryTypeOK
<1>8. Memory!BlocksAccounted
  BY <1>1, <1>2, <1>5 DEF Memory!BlocksAccounted
<1> QED BY <1>7, <1>8

-----------------------------------------------------------------------------
(***************************************************************************)
(* Counted pointers.                                                       *)
(***************************************************************************)
PtrMoves(t) == step[t].op \in {"delete", "take", "addref"}
PtrDeletes(t, o) == step[t].op = "delete" /\ t_[step[t].ptr] = o

PtrTypes ==
  /\ t_ \in [Ptr!Ptrs -> Objects \cup {NoObject}]
  /\ ref_count_ \in [Objects -> Int]
  /\ life \in [Objects -> {"unborn", "alive", "deleted"}]
  /\ step = [t \in PtrThreads |-> step[t]]
  /\ \A t \in PtrThreads :
       \/ step[t] = Ptr!Resting
       \/ PtrMoves(t) /\ {step[t].ptr, step[t].from} \subseteq Mine[t] \cup {Shared}

\* Threads change pointers of their own at a time.
PtrApart ==
  \A t, u \in PtrThreads : t # u /\ PtrMoves(t) /\ PtrMoves(u) =>
    {step[t].ptr, step[t].from} \cap {step[u].ptr, step[u].from} = {}

\* The count is that of the pointers, which are to objects that are there.  An
\* object that nobody refers to is deleted by the one thread that is about to;
\* one that is about to be referred to has the pointer it is taken from.
PtrCounts ==
  \A o \in Objects :
    /\ ref_count_[o] = Cardinality(Ptr!Counted(o))
    /\ Ptr!Counted(o) # {} => life[o] = "alive"
    /\ life[o] = "alive" /\ Ptr!Counted(o) = {} => \E t \in PtrThreads : PtrDeletes(t, o)

PtrEnds ==
  /\ \A t \in PtrThreads : \A o : PtrDeletes(t, o) =>
       o \in Objects /\ life[o] = "alive" /\ Ptr!Counted(o) = {}
  /\ \A t, u \in PtrThreads : \A o : PtrDeletes(t, o) /\ PtrDeletes(u, o) => t = u
  /\ \A t \in PtrThreads : step[t].op = "addref" =>
       /\ step[t].ptr # step[t].from /\ t_[step[t].ptr] = t_[step[t].from]
       /\ t_[step[t].ptr] \in Objects

PtrInv == PtrTypes /\ PtrApart /\ PtrCounts /\ PtrEnds

\* At the start there is no object, and no pointer refers to one.
LEMMA PtrStarts ==
  ASSUME Ptr!PtrInit
  PROVE  PtrInv
<1> USE PtrAssumption DEF Ptr!PtrInit, Ptr!Resting
<1>1. PtrTypes
  BY DEF PtrTypes
<1>2. \A t \in PtrThreads : ~PtrMoves(t) /\ \A o : ~PtrDeletes(t, o)
  BY DEF PtrMoves, PtrDeletes
<1>3. \A o \in Objects : Ptr!Counted(o) = {} /\ life[o] = "unborn" /\ ref_count_[o] = 0
  BY DEF Ptr!Counted
<1>4. PtrCounts
  BY <1>3, FS_EmptySet DEF PtrCounts
<1>5. PtrApart /\ PtrEnds
  BY <1>2 DEF PtrApart, PtrEnds, PtrMoves
<1> QED BY <1>1, <1>4, <1>5 DEF PtrInv

\* What a thread may use are pointers of the model.
LEMMA OwnPtrs ==
  ASSUME NEW t \in PtrThreads
  PROVE  Mine[t] \cup {Shared} \subseteq Ptr!Ptrs
<1>1. PICK all : all = UNION {Mine[u] : u \in PtrThreads}
  OBVIOUS
<1>2. \A p \in Mine[t] : p \in all
  BY <1>1
<1>3. Ptr!Ptrs = all \cup {Shared}
  BY <1>1 DEF Ptr!Ptrs
<1> QED BY <1>2, <1>3

\* Pointers that a resting thread may use are in no other thread's hands.
LEMMA PtrMayUse ==
  ASSUME PtrTypes, NEW t \in PtrThreads, NEW p, Ptr!MayUse(t, p), step[t] = Ptr!Resting
  PROVE  /\ p \in Ptr!Ptrs /\ p \in Mine[t] \cup {Shared}
         /\ \A u \in PtrThreads : PtrMoves(u) => u # t /\ p \notin {step[u].ptr, step[u].from}
<1>1. p \in Mine[t] \cup {Shared}
  BY DEF Ptr!MayUse
<1>2. p \in Ptr!Ptrs
  BY <1>1, OwnPtrs
<1>3. ASSUME NEW u \in PtrThreads, PtrMoves(u)
      PROVE  u # t /\ p \notin {step[u].ptr, step[u].from}
  <2>1. step[u] # Ptr!Resting /\ u # t
    BY <1>3 DEF PtrMoves, Ptr!Resting
  <2>2. {step[u].ptr, step[u].from} \subseteq Mine[u] \cup {Shared}
    BY <2>1 DEF PtrTypes
  <2>3. CASE p = Shared
    BY <2>1, <2>3 DEF Ptr!MayUse, Ptr!Involves
  <2>4. CASE p # Shared
    BY <1>1, <2>1, <2>2, <2>4, PtrAssumption
  <2> QED BY <2>1, <2>3, <2>4
<1> QED BY <1>1, <1>2, <1>3

\* Pointers that are counted are finitely many.
LEMMA PtrFinite ==
  ASSUME NEW o
  PROVE  IsFiniteSet(Ptr!Counted(o)) /\ Cardinality(Ptr!Counted(o)) \in Nat
<1>1. Ptr!Counted(o) \subseteq Ptr!Ptrs
  BY DEF Ptr!Counted
<1> QED BY <1>1, PtrAssumption, FS_Subset, FS_CardinalityType

\* What is so of all threads when it is of the one that takes a step.
LEMMA PtrStepOf ==
  ASSUME PtrTypes, NEW t \in PtrThreads, NEW s, step' = [step EXCEPT ![t] = s]
  PROVE  /\ step' = [u \in PtrThreads |-> step'[u]] /\ step'[t] = s
         /\ \A u \in PtrThreads \ {t} : step'[u] = step[u]
<1>1. step = [u \in PtrThreads |-> step[u]]
  BY DEF PtrTypes
<1> QED BY <1>1

\* A thread begins a step on pointers that no other thread moves.
LEMMA PtrTypesAndApart ==
  ASSUME PtrInv, NEW t \in PtrThreads, NEW op \in {"delete", "take", "addref"},
         NEW p, NEW q, {p, q} \subseteq Mine[t] \cup {Shared},
         \A u \in PtrThreads \ {t} : PtrMoves(u) => {p, q} \cap {step[u].ptr, step[u].from} = {},
         step' = [step EXCEPT ![t] = [op |-> op, ptr |-> p, from |-> q]],
         t_' \in [Ptr!Ptrs -> Objects \cup {NoObject}],
         ref_count_' \in [Objects -> Int],
         life' \in [Objects -> {"unborn", "alive", "deleted"}]
  PROVE  PtrTypes' /\ PtrApart'
<1>1. PICK s : s = [op |-> op, ptr |-> p, from |-> q]
  OBVIOUS
<1>2. s.op = op /\ s.ptr = p /\ s.from = q
  BY <1>1
<1>3. /\ step' = [u \in PtrThreads |-> step'[u]] /\ step'[t] = s
      /\ \A u \in PtrThreads \ {t} : step'[u] = step[u]
  BY <1>1, PtrStepOf DEF PtrInv
<1>4. PtrTypes'
  BY <1>2, <1>3 DEF PtrInv, PtrTypes, PtrMoves
<1>5. ASSUME NEW u \in PtrThreads, NEW v \in PtrThreads, u # v, PtrMoves(u)', PtrMoves(v)'
      PROVE  {step'[u].ptr, step'[u].from} \cap {step'[v].ptr, step'[v].from} = {}
  BY <1>2, <1>3, <1>5 DEF PtrInv, PtrApart, PtrMoves
<1> QED BY <1>4, <1>5 DEF PtrApart

\* A thread ends its step.
LEMMA PtrRests ==
  ASSUME PtrInv, NEW t \in PtrThreads, step' = [step EXCEPT ![t] = Ptr!Resting],
         t_' \in [Ptr!Ptrs -> Objects \cup {NoObject}],
         ref_count_' \in [Objects -> Int],
         life' \in [Objects -> {"unborn", "alive", "deleted"}]
  PROVE  PtrTypes' /\ PtrApart'
<1>1. /\ step' = [u \in PtrThreads |-> step'[u]] /\ step'[t] = Ptr!Resting
      /\ \A u \in PtrThreads \ {t} : step'[u] = step[u]
  BY PtrStepOf DEF PtrInv
<1>2. \A u \in PtrThreads : PtrMoves(u)' => u # t /\ PtrMoves(u)
  BY <1>1 DEF PtrMoves, Ptr!Resting
<1>3. PtrTypes'
  BY <1>1 DEF PtrInv, PtrTypes, PtrMoves
<1>4. PtrApart'
  BY <1>1, <1>2 DEF PtrInv, PtrApart
<1> QED BY <1>3, <1>4

\* A new object has the pointer that it was made for.
LEMMA MakeKeepsInv ==
  ASSUME PtrInv, NEW t \in PtrThreads, NEW p \in Ptr!Ptrs, NEW o \in Objects, Ptr!Make(t, p, o)
  PROVE  PtrInv'
<1> USE PtrAssumption
<1>1. /\ step[t] = Ptr!Resting /\ Ptr!MayUse(t, p) /\ t_[p] = NoObject /\ life[o] = "unborn"
      /\ life' = [life EXCEPT ![o] = "alive"]
      /\ ref_count_' = [ref_count_ EXCEPT ![o] = @ + 1]
      /\ t_' = [t_ EXCEPT ![p] = o] /\ step' = step
  BY DEF Ptr!Make
<1>2. \A u \in PtrThreads : PtrMoves(u) => u # t /\ p \notin {step[u].ptr, step[u].from}
  BY <1>1, PtrMayUse DEF PtrInv
<1>3. PtrTypes' /\ PtrApart'
  BY <1>1 DEF PtrInv, PtrTypes, PtrApart, PtrMoves
<1>4. /\ Ptr!Counted(o)' = Ptr!Counted(o) \cup {p} /\ p \notin Ptr!Counted(o)
      /\ \A x \in Objects \ {o} : Ptr!Counted(x)' = Ptr!Counted(x)
  BY <1>1, <1>2 DEF Ptr!Counted, PtrInv, PtrTypes, PtrMoves
<1>5. \A u \in PtrThreads : PtrMoves(u) =>
        t_'[step[u].ptr] = t_[step[u].ptr] /\ t_'[step[u].from] = t_[step[u].from]
  BY <1>1, <1>2 DEF PtrInv, PtrTypes
<1>6. \A u \in PtrThreads : \A x : PtrDeletes(u, x)' <=> PtrDeletes(u, x)
  BY <1>1, <1>5 DEF PtrDeletes, PtrMoves
<1>7. \A u \in PtrThreads : ~PtrDeletes(u, o)
  BY <1>1 DEF PtrInv, PtrEnds
<1>8. PtrCounts'
  <2>1. ref_count_'[o] = Cardinality(Ptr!Counted(o)')
    <3>1. Cardinality(Ptr!Counted(o)') = Cardinality(Ptr!Counted(o)) + 1
      BY <1>4, PtrFinite, FS_AddElement
    <3> QED BY <1>1, <3>1 DEF PtrInv, PtrTypes, PtrCounts
  <2>2. life'[o] = "alive" /\ \A x \in Objects \ {o} :
          life'[x] = life[x] /\ ref_count_'[x] = ref_count_[x]
    BY <1>1 DEF PtrInv, PtrTypes
  <2> QED BY <1>4, <1>6, <2>1, <2>2 DEF PtrInv, PtrCounts
<1>9. PtrEnds'
  <2>1. \A u \in PtrThreads : \A x : PtrDeletes(u, x)' =>
          x \in Objects /\ life'[x] = "alive" /\ Ptr!Counted(x)' = {}
    BY <1>1, <1>4, <1>6, <1>7 DEF PtrInv, PtrEnds, PtrTypes
  <2>2. \A u \in PtrThreads : step'[u].op = "addref" =>
          /\ step'[u].ptr # step'[u].from /\ t_'[step'[u].ptr] = t_'[step'[u].from]
          /\ t_'[step'[u].ptr] \in Objects
    BY <1>1, <1>5 DEF PtrInv, PtrEnds, PtrMoves
  <2>3. \A u, v \in PtrThreads : \A x : PtrDeletes(u, x)' /\ PtrDeletes(v, x)' => u = v
    BY <1>6 DEF PtrInv, PtrEnds
  <2> QED BY <2>1, <2>2, <2>3 DEF PtrEnds
<1> QED BY <1>3, <1>8, <1>9 DEF PtrInv

\* The thread that takes the count to nothing is the one that deletes.
LEMMA ReleaseKeepsInv ==
  ASSUME PtrInv, NEW t \in PtrThreads, NEW p \in Ptr!Ptrs, NEW q \in Ptr!Ptrs, Ptr!Release(t, p, q)
  PROVE  PtrInv'
<1> USE PtrAssumption
<1>1. PICK o, op : o = t_[p] /\ op = IF ref_count_'[t_[p]] <= 0 THEN "delete" ELSE "take"
  OBVIOUS
<1>2. /\ step[t] = Ptr!Resting /\ Ptr!MayUse(t, p) /\ Ptr!MayUse(t, q) /\ o # NoObject
      /\ ref_count_' = [ref_count_ EXCEPT ![o] = @ - 1]
      /\ step' = [step EXCEPT ![t] = [op |-> op, ptr |-> p, from |-> q]]
      /\ t_' = t_ /\ life' = life
  BY <1>1 DEF Ptr!Release, Ptr!release, Ptr!Goes
<1>3. o \in Objects /\ op = IF ref_count_[o] - 1 <= 0 THEN "delete" ELSE "take"
  BY <1>1, <1>2 DEF PtrInv, PtrTypes
<1>4. /\ {p, q} \subseteq Mine[t] \cup {Shared}
      /\ \A u \in PtrThreads : PtrMoves(u) =>
           u # t /\ {p, q} \cap {step[u].ptr, step[u].from} = {}
  BY <1>2, PtrMayUse DEF PtrInv
<1>5. PICK s : s = [op |-> op, ptr |-> p, from |-> q]
  OBVIOUS
<1>6. /\ step' = [u \in PtrThreads |-> step'[u]] /\ step'[t] = s
      /\ \A u \in PtrThreads \ {t} : step'[u] = step[u]
      /\ s.op = op /\ s.ptr = p /\ s.from = q
  BY <1>2, <1>5, PtrStepOf DEF PtrInv
<1>7. PtrTypes' /\ PtrApart'
  <2>1. ref_count_' \in [Objects -> Int]
    BY <1>2, <1>3 DEF PtrInv, PtrTypes
  <2> QED BY <1>2, <1>3, <1>4, <2>1, PtrTypesAndApart DEF PtrInv, PtrTypes
<1>8. /\ Ptr!Counted(o)' = Ptr!Counted(o) \ {p} /\ p \in Ptr!Counted(o)
      /\ \A x \in Objects \ {o} : Ptr!Counted(x)' = Ptr!Counted(x)
  <2>1. step[t].op = "none"
    BY <1>2 DEF Ptr!Resting
  <2>2. \A r \in Ptr!Ptrs : (\E u \in PtrThreads : PtrMoves(u)' /\ step'[u].ptr = r) <=>
          (r = p \/ \E u \in PtrThreads : PtrMoves(u) /\ step[u].ptr = r)
    BY <1>3, <1>4, <1>6 DEF PtrMoves
  <2>3. \A u \in PtrThreads : PtrMoves(u) => step[u].ptr # p
    BY <1>4
  <2> QED BY <1>1, <1>2, <2>2, <2>3 DEF Ptr!Counted, PtrMoves
<1>9. /\ ref_count_'[o] = Cardinality(Ptr!Counted(o)')
      /\ op = "delete" <=> Ptr!Counted(o)' = {}
  <2>1. PICK c \in Nat : c = Cardinality(Ptr!Counted(o))
    BY PtrFinite
  <2>2. IsFiniteSet(Ptr!Counted(o)') /\ Cardinality(Ptr!Counted(o)') = c - 1
    BY <1>8, <2>1, PtrFinite, FS_RemoveElement
  <2>3. ref_count_[o] = c /\ ref_count_'[o] = c - 1
    BY <1>2, <1>3, <2>1 DEF PtrInv, PtrTypes, PtrCounts
  <2>4. Cardinality(Ptr!Counted(o)') = 0 <=> Ptr!Counted(o)' = {}
    BY <2>2, FS_EmptySet
  <2>5. c # 0
    BY <1>8, <2>1, PtrFinite, FS_EmptySet
  <2> QED BY <1>3, <2>1, <2>2, <2>3, <2>4, <2>5
<1>10. \A u \in PtrThreads : \A x : PtrDeletes(u, x)' <=>
         IF u = t THEN op = "delete" /\ x = o ELSE PtrDeletes(u, x)
  BY <1>1, <1>2, <1>6 DEF PtrDeletes
<1>11. ~PtrDeletes(t, o) /\ (\A u \in PtrThreads : ~PtrDeletes(u, o)) /\ life[o] = "alive"
  BY <1>3, <1>8 DEF PtrInv, PtrEnds, PtrCounts
<1>12. PtrCounts'
  <2>1. SUFFICES ASSUME NEW x \in Objects
                 PROVE  /\ ref_count_'[x] = Cardinality(Ptr!Counted(x)')
                        /\ Ptr!Counted(x)' # {} => life'[x] = "alive"
                        /\ life'[x] = "alive" /\ Ptr!Counted(x)' = {} =>
                             \E u \in PtrThreads : PtrDeletes(u, x)'
    BY DEF PtrCounts
  <2>2. CASE x = o
    BY <1>2, <1>9, <1>10, <1>11, <2>2
  <2>3. CASE x # o
    <3>1. ref_count_'[x] = ref_count_[x] /\ life'[x] = life[x] /\ Ptr!Counted(x)' = Ptr!Counted(x)
      BY <1>2, <1>8, <2>3 DEF PtrInv, PtrTypes
    <3>2. ~PtrDeletes(t, x)
      BY <1>2 DEF PtrDeletes, Ptr!Resting
    <3> QED BY <1>10, <2>3, <3>1, <3>2 DEF PtrInv, PtrCounts
  <2> QED BY <2>2, <2>3
<1>13. PtrEnds'
  <2>1. ASSUME NEW u \in PtrThreads, NEW x, PtrDeletes(u, x)'
        PROVE  x \in Objects /\ life'[x] = "alive" /\ Ptr!Counted(x)' = {}
    <3>1. CASE u = t
      BY <1>2, <1>3, <1>9, <1>10, <1>11, <2>1, <3>1
    <3>2. CASE u # t
      <4>1. PtrDeletes(u, x)
        BY <1>10, <2>1, <3>2
      <4>2. x \in Objects /\ life[x] = "alive" /\ Ptr!Counted(x) = {} /\ x # o
        BY <1>11, <4>1 DEF PtrInv, PtrEnds
      <4> QED BY <1>2, <1>8, <4>2
    <3> QED BY <3>1, <3>2
  <2>2. \A u, v \in PtrThreads : \A x : PtrDeletes(u, x)' /\ PtrDeletes(v, x)' => u = v
    BY <1>10, <1>11 DEF PtrInv, PtrEnds
  <2>3. \A u \in PtrThreads : step'[u].op = "addref" =>
          /\ step'[u].ptr # step'[u].from /\ t_'[step'[u].ptr] = t_'[step'[u].from]
          /\ t_'[step'[u].ptr] \in Objects
    BY <1>2, <1>3, <1>6 DEF PtrInv, PtrEnds
  <2> QED BY <2>1, <2>2, <2>3 DEF PtrEnds
<1> QED BY <1>7, <1>12, <1>13 DEF PtrInv

\* The thread that counted down to nothing deletes the object.
LEMMA DeleteKeepsInv ==
  ASSUME PtrInv, NEW t \in PtrThreads, Ptr!Delete(t)
  PROVE  PtrInv'
<1>1. PICK p, q, o : p = step[t].ptr /\ q = step[t].from /\ o = t_[p]
  OBVIOUS
<1>2. /\ step[t].op = "delete" /\ life' = [life EXCEPT ![o] = "deleted"]
      /\ step' = [step EXCEPT ![t] = [op |-> "take", ptr |-> p, from |-> q]]
      /\ t_' = t_ /\ ref_count_' = ref_count_
  BY <1>1 DEF Ptr!Delete, Ptr!Goes
<1>3. PtrMoves(t) /\ PtrDeletes(t, o) /\ step[t] # Ptr!Resting
  BY <1>1, <1>2 DEF PtrMoves, PtrDeletes, Ptr!Resting
<1>4. /\ o \in Objects /\ life[o] = "alive" /\ Ptr!Counted(o) = {}
      /\ \A u \in PtrThreads : \A x : PtrDeletes(u, x) /\ (u = t \/ x = o) => u = t /\ x = o
  BY <1>1, <1>3 DEF PtrInv, PtrEnds, PtrDeletes
<1>5. /\ {p, q} \subseteq Mine[t] \cup {Shared}
      /\ \A u \in PtrThreads \ {t} : PtrMoves(u) =>
           {p, q} \cap {step[u].ptr, step[u].from} = {}
  BY <1>1, <1>3 DEF PtrInv, PtrTypes, PtrApart
<1>6. PICK s : s = [op |-> "take", ptr |-> p, from |-> q]
  OBVIOUS
<1>7. /\ step' = [u \in PtrThreads |-> step'[u]] /\ step'[t] = s
      /\ \A u \in PtrThreads \ {t} : step'[u] = step[u]
      /\ s.op = "take" /\ s.ptr = p /\ s.from = q
  BY <1>2, <1>6, PtrStepOf DEF PtrInv
<1>8. PtrTypes' /\ PtrApart'
  <2>1. life' \in [Objects -> {"unborn", "alive", "deleted"}]
    BY <1>2 DEF PtrInv, PtrTypes
  <2> QED BY <1>2, <1>5, <2>1, PtrTypesAndApart DEF PtrInv, PtrTypes
<1>9. \A x : Ptr!Counted(x)' = Ptr!Counted(x)
  <2>1. \A r : (\E u \in PtrThreads : PtrMoves(u)' /\ step'[u].ptr = r) <=>
          (\E u \in PtrThreads : PtrMoves(u) /\ step[u].ptr = r)
    BY <1>1, <1>3, <1>7 DEF PtrMoves
  <2> QED BY <1>2, <2>1 DEF Ptr!Counted, PtrMoves
<1>10. \A u \in PtrThreads : \A x : PtrDeletes(u, x)' <=> u # t /\ PtrDeletes(u, x)
  BY <1>2, <1>7 DEF PtrDeletes
<1>11. life'[o] = "deleted" /\ \A x \in Objects \ {o} : life'[x] = life[x]
  BY <1>2, <1>4 DEF PtrInv, PtrTypes
<1>12. PtrCounts'
  <2>1. SUFFICES ASSUME NEW x \in Objects
                 PROVE  /\ ref_count_'[x] = Cardinality(Ptr!Counted(x)')
                        /\ Ptr!Counted(x)' # {} => life'[x] = "alive"
                        /\ life'[x] = "alive" /\ Ptr!Counted(x)' = {} =>
                             \E u \in PtrThreads : PtrDeletes(u, x)'
    BY DEF PtrCounts
  <2>2. CASE x = o
    BY <1>2, <1>4, <1>9, <1>11, <2>2 DEF PtrInv, PtrCounts
  <2>3. CASE x # o
    BY <1>2, <1>4, <1>9, <1>10, <1>11, <2>3 DEF PtrInv, PtrCounts
  <2> QED BY <2>2, <2>3
<1>13. PtrEnds'
  <2>1. \A u \in PtrThreads : \A x : PtrDeletes(u, x)' =>
          x \in Objects /\ life'[x] = "alive" /\ Ptr!Counted(x)' = {}
    BY <1>4, <1>9, <1>10, <1>11 DEF PtrInv, PtrEnds
  <2>2. \A u, v \in PtrThreads : \A x : PtrDeletes(u, x)' /\ PtrDeletes(v, x)' => u = v
    BY <1>10 DEF PtrInv, PtrEnds
  <2>3. \A u \in PtrThreads : step'[u].op = "addref" =>
          /\ step'[u].ptr # step'[u].from /\ t_'[step'[u].ptr] = t_'[step'[u].from]
          /\ t_'[step'[u].ptr] \in Objects
    BY <1>2, <1>7 DEF PtrInv, PtrEnds
  <2> QED BY <2>1, <2>2, <2>3 DEF PtrEnds
<1> QED BY <1>8, <1>12, <1>13 DEF PtrInv

\* A pointer that is not counted refers to something else from now on.
LEMMA TakeFromKeepsInv ==
  ASSUME PtrInv, NEW t \in PtrThreads, NEW p \in Ptr!Ptrs, NEW q \in Ptr!Ptrs,
         {p, q} \subseteq Mine[t] \cup {Shared},
         \A u \in PtrThreads \ {t} : PtrMoves(u) => {p, q} \cap {step[u].ptr, step[u].from} = {},
         \/ step[t].op = "take" /\ step[t].ptr = p /\ step[t].from = q
         \/ step[t] = Ptr!Resting /\ t_[p] = NoObject,
         Ptr!TakeFrom(t, p, q)
  PROVE  PtrInv'
<1> USE PtrAssumption
<1>1. PICK o : o = IF p = q THEN NoObject ELSE t_[q]
  OBVIOUS
<1>2. PICK s : s = IF o = NoObject THEN Ptr!Resting
                   ELSE [op |-> "addref", ptr |-> p, from |-> q]
  OBVIOUS
<1>3. /\ t_' = [t_ EXCEPT ![p] = o] /\ step' = [step EXCEPT ![t] = s]
      /\ ref_count_' = ref_count_ /\ life' = life
  BY <1>1, <1>2 DEF Ptr!TakeFrom, Ptr!Goes, Ptr!Rests
<1>4. o \in Objects \cup {NoObject} /\ (o # NoObject => p # q /\ o = t_[q])
  BY <1>1 DEF PtrInv, PtrTypes
<1>5. /\ step' = [u \in PtrThreads |-> step'[u]] /\ step'[t] = s
      /\ \A u \in PtrThreads \ {t} : step'[u] = step[u]
  BY <1>3, PtrStepOf DEF PtrInv
<1>6. IF o = NoObject THEN s.op = "none" ELSE s.op = "addref" /\ s.ptr = p /\ s.from = q
  BY <1>2 DEF Ptr!Resting
<1>7. PtrTypes' /\ PtrApart'
  <2>1. /\ t_' \in [Ptr!Ptrs -> Objects \cup {NoObject}]
        /\ ref_count_' \in [Objects -> Int] /\ life' \in [Objects -> {"unborn", "alive", "deleted"}]
    BY <1>3, <1>4 DEF PtrInv, PtrTypes
  <2>2. CASE o = NoObject
    BY <1>2, <1>3, <2>1, <2>2, PtrRests
  <2>3. CASE o # NoObject
    <3>1. PICK op : op = "addref"
      OBVIOUS
    <3>2. /\ step' = [step EXCEPT ![t] = [op |-> op, ptr |-> p, from |-> q]]
          /\ op \in {"delete", "take", "addref"}
      BY <1>2, <1>3, <2>3, <3>1
    <3>3. /\ PtrInv /\ {p, q} \subseteq Mine[t] \cup {Shared}
          /\ \A u \in PtrThreads \ {t} :
               PtrMoves(u) => {p, q} \cap {step[u].ptr, step[u].from} = {}
      OBVIOUS
    <3> QED BY <2>1, <3>2, <3>3, PtrTypesAndApart, SMTT(30) DEF PtrInv, PtrTypes
  <2> QED BY <2>2, <2>3
<1>8. \A r \in Ptr!Ptrs : t_'[r] = IF r = p THEN o ELSE t_[r]
  BY <1>3 DEF PtrInv, PtrTypes
<1>9. ASSUME NEW x \in Objects PROVE Ptr!Counted(x)' = Ptr!Counted(x)
  <2>1. p \notin Ptr!Counted(x)
    BY DEF Ptr!Counted
  <2>2. p \notin Ptr!Counted(x)'
    <3>1. CASE o = NoObject
      BY <1>8, <3>1 DEF Ptr!Counted
    <3>2. CASE o # NoObject
      BY <1>5, <1>6, <3>2 DEF Ptr!Counted
    <3> QED BY <3>1, <3>2
  <2>3. \A r \in Ptr!Ptrs \ {p} : (\E u \in PtrThreads : PtrMoves(u)' /\ step'[u].ptr = r) <=>
          (\E u \in PtrThreads : PtrMoves(u) /\ step[u].ptr = r)
    BY <1>5, <1>6 DEF PtrMoves, Ptr!Resting
  <2>4. \A r \in Ptr!Ptrs \ {p} : r \in Ptr!Counted(x)' <=> r \in Ptr!Counted(x)
    BY <1>8, <2>3 DEF Ptr!Counted, PtrMoves
  <2>5. PICK old, new : old = Ptr!Counted(x) /\ new = Ptr!Counted(x)'
    OBVIOUS
  <2>6. old \subseteq Ptr!Ptrs /\ new \subseteq Ptr!Ptrs
    BY <2>5 DEF Ptr!Counted
  <2>7. \A r \in Ptr!Ptrs : r \in new <=> r \in old
    BY <2>1, <2>2, <2>4, <2>5
  <2>8. new = old
    BY ONLY <2>6, <2>7
  <2> QED BY <2>5, <2>8
<1>10. \A u \in PtrThreads \ {t} : PtrMoves(u) =>
         /\ step[u].ptr \in Ptr!Ptrs /\ step[u].from \in Ptr!Ptrs
         /\ step[u].ptr # p /\ step[u].from # p
  <2>1. \A u \in PtrThreads \ {t} : PtrMoves(u) =>
          {step[u].ptr, step[u].from} \subseteq Mine[u] \cup {Shared}
    BY DEF PtrInv, PtrTypes, PtrMoves, Ptr!Resting
  <2> QED BY <2>1, OwnPtrs
<1>11. \A u \in PtrThreads : \A x : PtrDeletes(u, x)' <=> PtrDeletes(u, x)
  <2>1. \A x : ~PtrDeletes(t, x) /\ ~PtrDeletes(t, x)'
    BY <1>5, <1>6 DEF PtrDeletes, Ptr!Resting
  <2>2. \A u \in PtrThreads \ {t} : \A x : PtrDeletes(u, x)' <=> PtrDeletes(u, x)
    BY <1>5, <1>8, <1>10 DEF PtrDeletes, PtrMoves
  <2> QED BY <2>1, <2>2
<1>12. PtrCounts'
  BY <1>3, <1>9, <1>11 DEF PtrInv, PtrCounts
<1>13. PtrEnds'
  <2>1. \A u \in PtrThreads : \A x : PtrDeletes(u, x)' =>
          x \in Objects /\ life'[x] = "alive" /\ Ptr!Counted(x)' = {}
    BY <1>3, <1>9, <1>11 DEF PtrInv, PtrEnds
  <2>2. \A u, v \in PtrThreads : \A x : PtrDeletes(u, x)' /\ PtrDeletes(v, x)' => u = v
    BY <1>11 DEF PtrInv, PtrEnds
  <2>3. ASSUME NEW u \in PtrThreads, step'[u].op = "addref"
        PROVE  /\ step'[u].ptr # step'[u].from /\ t_'[step'[u].ptr] = t_'[step'[u].from]
               /\ t_'[step'[u].ptr] \in Objects
    <3>1. CASE u = t
      <4>1. o # NoObject /\ p # q /\ o = t_[q] /\ step'[u].ptr = p /\ step'[u].from = q
        BY <1>4, <1>5, <1>6, <2>3, <3>1
      <4> QED BY <1>4, <1>8, <4>1
    <3>2. CASE u # t
      <4>1. step'[u] = step[u] /\ PtrMoves(u)
        BY <1>5, <2>3, <3>2 DEF PtrMoves
      <4>2. t_'[step[u].ptr] = t_[step[u].ptr] /\ t_'[step[u].from] = t_[step[u].from]
        BY <1>8, <1>10, <3>2, <4>1
      <4> QED BY <2>3, <4>1, <4>2 DEF PtrInv, PtrEnds
    <3> QED BY <3>1, <3>2
  <2> QED BY <2>1, <2>2, <2>3 DEF PtrEnds
<1> QED BY <1>7, <1>12, <1>13 DEF PtrInv

\* The pointer that another was taken from keeps the object until it is counted.
LEMMA AddrefKeepsInv ==
  ASSUME PtrInv, NEW t \in PtrThreads, Ptr!addref(t)
  PROVE  PtrInv' /\ life[t_[step[t].ptr]] = "alive"
<1> USE PtrAssumption
<1>1. PICK p, q, o : p = step[t].ptr /\ q = step[t].from /\ o = t_[p]
  OBVIOUS
<1>2. /\ step[t].op = "addref" /\ ref_count_' = [ref_count_ EXCEPT ![o] = @ + 1]
      /\ step' = [step EXCEPT ![t] = Ptr!Resting] /\ t_' = t_ /\ life' = life
  BY <1>1 DEF Ptr!addref, Ptr!Rests
<1>3. PtrMoves(t) /\ step[t] # Ptr!Resting /\ p # q /\ t_[q] = o /\ o \in Objects
  BY <1>1, <1>2 DEF PtrMoves, Ptr!Resting, PtrInv, PtrEnds
<1>4. /\ p \in Ptr!Ptrs /\ q \in Ptr!Ptrs
      /\ \A u \in PtrThreads \ {t} : PtrMoves(u) =>
           {p, q} \cap {step[u].ptr, step[u].from} = {}
  <2>1. {p, q} \subseteq Mine[t] \cup {Shared}
    BY <1>1, <1>3 DEF PtrInv, PtrTypes
  <2> QED BY <1>1, <1>3, <2>1, OwnPtrs DEF PtrInv, PtrApart
<1>5. /\ step' = [u \in PtrThreads |-> step'[u]] /\ step'[t] = Ptr!Resting
      /\ \A u \in PtrThreads \ {t} : step'[u] = step[u]
  BY <1>2, PtrStepOf DEF PtrInv
<1>6. q \in Ptr!Counted(o) /\ p \notin Ptr!Counted(o) /\ life[o] = "alive"
  <2>1. \A u \in PtrThreads : PtrMoves(u) => step[u].ptr # q
    BY <1>1, <1>3, <1>4
  <2>2. q \in Ptr!Counted(o)
    BY <1>3, <1>4, <2>1 DEF Ptr!Counted, PtrMoves
  <2> QED BY <1>1, <1>2, <1>3, <2>2 DEF Ptr!Counted, PtrInv, PtrCounts
<1>7. /\ Ptr!Counted(o)' = Ptr!Counted(o) \cup {p}
      /\ \A x \in Objects \ {o} : Ptr!Counted(x)' = Ptr!Counted(x)
  <2>1. \A r : (\E u \in PtrThreads : PtrMoves(u)' /\ step'[u].ptr = r) <=>
          (r # p /\ \E u \in PtrThreads : PtrMoves(u) /\ step[u].ptr = r)
    <3>1. \A u \in PtrThreads : PtrMoves(u)' <=> u # t /\ PtrMoves(u)
      BY <1>5 DEF PtrMoves, Ptr!Resting
    <3>2. \A u \in PtrThreads : u # t /\ PtrMoves(u) => step'[u] = step[u] /\ step[u].ptr # p
      BY <1>4, <1>5
    <3> QED BY <1>1, <3>1, <3>2
  <2> QED BY <1>1, <1>2, <1>3, <1>4, <2>1 DEF Ptr!Counted, PtrMoves
<1>8. PtrTypes' /\ PtrApart'
  <2>1. ref_count_' \in [Objects -> Int]
    BY <1>2, <1>3 DEF PtrInv, PtrTypes
  <2> QED BY <1>2, <2>1, PtrRests DEF PtrInv, PtrTypes
<1>9. \A u \in PtrThreads : \A x : PtrDeletes(u, x)' <=> PtrDeletes(u, x)
  BY <1>2, <1>5 DEF PtrDeletes, Ptr!Resting
<1>10. PtrCounts'
  <2>1. ref_count_'[o] = Cardinality(Ptr!Counted(o)')
    <3>1. PICK old : old = Ptr!Counted(o)
      OBVIOUS
    <3>2. IsFiniteSet(old) /\ p \notin old /\ Ptr!Counted(o)' = old \cup {p}
      BY <1>6, <1>7, <3>1, PtrFinite
    <3>3. Cardinality(old \cup {p}) = Cardinality(old) + 1
      BY <3>2, FS_AddElement
    <3> QED BY <1>2, <1>3, <3>1, <3>2, <3>3 DEF PtrInv, PtrTypes, PtrCounts
  <2>2. \A x \in Objects \ {o} : ref_count_'[x] = ref_count_[x]
    BY <1>2 DEF PtrInv, PtrTypes
  <2> QED BY <1>2, <1>6, <1>7, <1>9, <2>1, <2>2 DEF PtrInv, PtrCounts
<1>11. PtrEnds'
  <2>1. \A u \in PtrThreads : \A x : PtrDeletes(u, x)' =>
          x \in Objects /\ life'[x] = "alive" /\ Ptr!Counted(x)' = {}
    BY <1>2, <1>6, <1>7, <1>9 DEF PtrInv, PtrEnds
  <2>2. \A u, v \in PtrThreads : \A x : PtrDeletes(u, x)' /\ PtrDeletes(v, x)' => u = v
    BY <1>9 DEF PtrInv, PtrEnds
  <2>3. \A u \in PtrThreads : step'[u].op = "addref" =>
          /\ step'[u].ptr # step'[u].from /\ t_'[step'[u].ptr] = t_'[step'[u].from]
          /\ t_'[step'[u].ptr] \in Objects
    BY <1>2, <1>5 DEF PtrInv, PtrEnds, Ptr!Resting
  <2> QED BY <2>1, <2>2, <2>3 DEF PtrEnds
<1> QED BY <1>1, <1>6, <1>8, <1>10, <1>11 DEF PtrInv

\* Every step of a thread keeps the pointers counted, whichever of the two
\* they are.
LEMMA PtrStepKeepsInv ==
  ASSUME PtrInv, Ptr!PtrNext \/ UNCHANGED ptrVars
  PROVE  PtrInv'
<1>1. ASSUME NEW t \in PtrThreads, Ptr!Take(t) PROVE PtrInv'
  <2>1. PICK p, q : p = step[t].ptr /\ q = step[t].from
    OBVIOUS
  <2>2. step[t].op = "take" /\ Ptr!TakeFrom(t, p, q)
    BY <1>1, <2>1 DEF Ptr!Take
  <2>3. PtrMoves(t) /\ step[t] # Ptr!Resting
    BY <2>2 DEF PtrMoves, Ptr!Resting
  <2>4. {p, q} \subseteq Mine[t] \cup {Shared}
    BY <2>1, <2>3 DEF PtrInv, PtrTypes
  <2>5. \A u \in PtrThreads \ {t} : PtrMoves(u) => {p, q} \cap {step[u].ptr, step[u].from} = {}
    BY <2>1, <2>3 DEF PtrInv, PtrApart
  <2>6. p \in Ptr!Ptrs /\ q \in Ptr!Ptrs
    BY <2>4, OwnPtrs
  <2> QED BY <2>1, <2>2, <2>4, <2>5, <2>6, TakeFromKeepsInv
<1>2. ASSUME NEW t \in PtrThreads, NEW p \in Ptr!Ptrs, NEW q \in Ptr!Ptrs, Ptr!CopyTo(t, p, q)
      PROVE  PtrInv'
  <2>1. /\ step[t] = Ptr!Resting /\ Ptr!MayUse(t, p) /\ Ptr!MayUse(t, q)
        /\ t_[p] = NoObject /\ Ptr!TakeFrom(t, p, q)
    BY <1>2 DEF Ptr!CopyTo
  <2>2. /\ {p, q} \subseteq Mine[t] \cup {Shared}
        /\ \A u \in PtrThreads \ {t} : PtrMoves(u) => {p, q} \cap {step[u].ptr, step[u].from} = {}
    BY <2>1, PtrMayUse DEF PtrInv
  <2> QED BY <2>1, <2>2, TakeFromKeepsInv
<1>3. CASE UNCHANGED ptrVars
  <2>1. t_' = t_ /\ ref_count_' = ref_count_ /\ life' = life /\ step' = step
    BY <1>3 DEF ptrVars
  <2>2. /\ \A x : Ptr!Counted(x)' = Ptr!Counted(x)
        /\ \A u : PtrMoves(u)' <=> PtrMoves(u)
        /\ \A u, x : PtrDeletes(u, x)' <=> PtrDeletes(u, x)
    BY <2>1 DEF Ptr!Counted, PtrMoves, PtrDeletes
  <2>3. PtrTypes' /\ PtrApart'
    BY <2>1, <2>2 DEF PtrInv, PtrTypes, PtrApart
  <2>4. PtrCounts' /\ PtrEnds'
    BY <2>1, <2>2 DEF PtrInv, PtrCounts, PtrEnds
  <2> QED BY <2>3, <2>4 DEF PtrInv
<1> QED BY <1>1, <1>2, <1>3, MakeKeepsInv, ReleaseKeepsInv, DeleteKeepsInv, AddrefKeepsInv
        DEF Ptr!PtrNext

\* The invariant gives what the run checks.
LEMMA PtrIsAccounted ==
  ASSUME PtrInv
  PROVE  Ptr!PtrTypeOK /\ Ptr!ObjectsCounted
<1>1. Ptr!PtrTypeOK
  BY DEF PtrInv, PtrTypes, Ptr!PtrTypeOK, PtrMoves, Ptr!Resting
<1>2. ASSUME NEW o \in Objects
      PROVE  /\ ref_count_[o] = Ptr!Cardinality(Ptr!Counted(o))
             /\ life[o] = "deleted" => Ptr!Counted(o) = {}
             /\ Ptr!Cardinality({t \in PtrThreads : step[t].op = "delete" /\ t_[step[t].ptr] = o}) =
                  IF life[o] = "alive" /\ Ptr!Counted(o) = {} THEN 1 ELSE 0
  <2>1. PICK D : D = {t \in PtrThreads : step[t].op = "delete" /\ t_[step[t].ptr] = o}
    OBVIOUS
  <2>2. \A t \in PtrThreads : t \in D <=> PtrDeletes(t, o)
    BY <2>1 DEF PtrDeletes
  <2>3. CASE life[o] = "alive" /\ Ptr!Counted(o) = {}
    <3>1. PICK t \in PtrThreads : PtrDeletes(t, o)
      BY <2>3 DEF PtrInv, PtrCounts
    <3>2. D = {t}
      BY <2>1, <2>2, <3>1 DEF PtrInv, PtrEnds
    <3>3. Cardinality(D) = 1
      BY <3>2, FS_Singleton
    <3> QED BY <2>1, <2>3, <3>3, PtrLibrary DEF PtrInv, PtrCounts
  <2>4. CASE ~(life[o] = "alive" /\ Ptr!Counted(o) = {})
    <3>1. D = {}
      BY <2>1, <2>2, <2>4 DEF PtrInv, PtrEnds
    <3>2. Cardinality(D) = 0
      BY <3>1, FS_EmptySet
    <3> QED BY <2>1, <2>4, <3>2, PtrLibrary DEF PtrInv, PtrCounts
  <2> QED BY <2>3, <2>4
<1>3. ASSUME NEW t \in PtrThreads, step[t].op = "addref"
      PROVE  life[t_[step[t].ptr]] = "alive"
  <2>1. PICK p, q, o : p = step[t].ptr /\ q = step[t].from /\ o = t_[p]
    OBVIOUS
  <2>2. PtrMoves(t) /\ step[t] # Ptr!Resting /\ p # q /\ t_[q] = o /\ o \in Objects
    BY <1>3, <2>1 DEF PtrMoves, Ptr!Resting, PtrInv, PtrEnds
  <2>3. \A u \in PtrThreads : PtrMoves(u) => step[u].ptr # q
    BY <2>1, <2>2 DEF PtrInv, PtrApart
  <2>4. q \in Ptr!Ptrs
    <3>1. {p, q} \subseteq Mine[t] \cup {Shared}
      BY <2>1, <2>2 DEF PtrInv, PtrTypes
    <3> QED BY <3>1, OwnPtrs
  <2>5. q \in Ptr!Counted(o)
    BY <2>2, <2>3, <2>4 DEF Ptr!Counted, PtrMoves
  <2> QED BY <2>1, <2>2, <2>5 DEF PtrInv, PtrCounts
<1> QED BY <1>1, <1>2, <1>3 DEF Ptr!ObjectsCounted

-----------------------------------------------------------------------------
(***************************************************************************)
(* Events and their slots.                                                 *)
(***************************************************************************)
SlotType == [m_event : EventNames \cup {NoEvent}, m_group : EventGroups \cup {0},
             connected : BOOLEAN, used : BOOLEAN]

\* Slots in the order of the groups that x has for them.
GroupsInOrder(x, list) ==
  \A i, j \in DOMAIN list : i < j => x[list[i]].m_group <= x[list[j]].m_group

\* The dispatch has called the slots up to a place, or passed them over.
Passed(f, i) == i < f.next \/ (f.calling /\ i = f.next)

Frames == [conList : Seq(SlotIDs), next : Nat, calling : BOOLEAN, called : Seq(SlotIDs)]

\* A dispatch, when x are the slots: it has called those of its places, in
\* their order, that it did not find disconnected.
Frame(x, f) ==
  /\ IsInjective(f.conList) /\ GroupsInOrder(x, f.conList)
  /\ IsInjective(f.called) /\ GroupsInOrder(x, f.called)
  /\ \A s \in Range(f.conList) : x[s].used
  /\ f.next \in 1 .. Len(f.conList) + 1
  /\ f.calling => f.next <= Len(f.conList)
  /\ \A s \in Range(f.called) : \E i \in 1 .. Len(f.conList) : s = f.conList[i] /\ Passed(f, i)
  /\ \A i \in 1 .. Len(f.conList) : Passed(f, i) /\ x[f.conList[i]].connected =>
       f.conList[i] \in Range(f.called)

EventTypes ==
  /\ m_events \subseteq EventNames /\ m_muted \in BOOLEAN
  /\ m_eventSlots \in [EventNames -> Seq(SlotIDs)]
  /\ slot \in [SlotIDs -> SlotType]
  /\ firing \in Seq(Frames) /\ Len(firing) <= MaxNested

EventLists ==
  /\ \A n \in EventNames :
       /\ m_eventSlots[n] # <<>> => n \in m_events
       /\ IsInjective(m_eventSlots[n])
       /\ GroupsInOrder(slot, m_eventSlots[n])
  /\ \A s \in SlotIDs :
       /\ \A n \in EventNames : slot[s].m_event = n <=> s \in Range(m_eventSlots[n])
       /\ slot[s].connected <=> slot[s].m_event # NoEvent
       /\ slot[s].connected => slot[s].used

EventFrames == \A k \in 1 .. Len(firing) : Frame(slot, firing[k])

EventInv == EventTypes /\ EventLists /\ EventFrames

\* At the start there is no event and no slot is used.
LEMMA EventStarts ==
  ASSUME Events!EventInit
  PROVE  EventInv
<1> USE EventAssumption DEF Events!EventInit
<1>1. Events!NewSlot \in SlotType /\ Events!NewSlot.m_event = NoEvent /\ ~Events!NewSlot.connected
  BY DEF Events!NewSlot, SlotType
<1>2. EventTypes
  <2>1. m_eventSlots \in [EventNames -> Seq(SlotIDs)] /\ firing \in Seq(Frames) /\ Len(firing) = 0
    OBVIOUS
  <2>2. slot \in [SlotIDs -> SlotType]
    BY <1>1
  <2>3. m_events \subseteq EventNames /\ m_muted \in BOOLEAN
    OBVIOUS
  <2>4. Len(firing) <= MaxNested
    BY ONLY <2>1, EventAssumption
  <2> QED BY ONLY <2>1, <2>2, <2>3, <2>4 DEF EventTypes
<1>3. Range(<<>>) = {}
  BY DEF Range
<1>4. EventLists
  BY <1>1, <1>3 DEF EventLists, IsInjective, GroupsInOrder
<1>5. EventFrames
  BY DEF EventFrames
<1> QED BY <1>2, <1>4, <1>5 DEF EventInv

\* The elements of a list with one left out, or put in behind m others.
Cut(s, i) == SubSeq(s, 1, i - 1) \o SubSeq(s, i + 1, Len(s))
Put(s, m, e) == SubSeq(s, 1, m) \o <<e>> \o SubSeq(s, m + 1, Len(s))

\* What a list is without its i-th element.
LEMMA CutAt ==
  ASSUME NEW S, NEW s \in Seq(S), NEW i \in 1 .. Len(s)
  PROVE  /\ Cut(s, i) \in Seq(S) /\ Len(Cut(s, i)) = Len(s) - 1
         /\ \A k \in 1 .. Len(s) - 1 : Cut(s, i)[k] = IF k < i THEN s[k] ELSE s[k + 1]
<1>1. PICK n, a, b, r : n = Len(s) /\ a = SubSeq(s, 1, i - 1) /\ b = SubSeq(s, i + 1, n) /\ r = a \o b
  OBVIOUS
<1>2. n \in Nat /\ i \in 1 .. n
  BY <1>1
<1>3. a \in Seq(S) /\ Len(a) = i - 1 /\ \A k \in 1 .. i - 1 : a[k] = s[k]
  BY <1>1
<1>4. b \in Seq(S) /\ Len(b) = n - i /\ \A k \in 1 .. n - i : b[k] = s[k + i]
  BY <1>1
<1>5. r = a \o b
  BY <1>1
<1>6. r \in Seq(S) /\ Len(r) = n - 1
  <2>1. a \in Seq(S) /\ b \in Seq(S)
    BY <1>3, <1>4
  <2>2. r \in Seq(S) /\ Len(r) = Len(a) + Len(b)
    BY ONLY <1>5, <2>1
  <2>3. Len(a) + Len(b) = n - 1
    BY ONLY <1>2, <1>3, <1>4
  <2> QED BY <2>2, <2>3
<1>7. ASSUME NEW k \in 1 .. n - 1 PROVE r[k] = IF k < i THEN s[k] ELSE s[k + 1]
  <2>1. r[k] = IF k <= Len(a) THEN a[k] ELSE b[k - Len(a)]
    BY ONLY <1>2, <1>3, <1>4, <1>5, k \in 1 .. n - 1
  <2>2. CASE k < i
    <3>1. k \in 1 .. i - 1 /\ k <= i - 1
      BY <1>2, <2>2
    <3> QED BY ONLY <1>3, <2>1, <2>2, <3>1
  <2>3. CASE ~(k < i)
    <3>1. k - (i - 1) \in 1 .. n - i /\ k - (i - 1) + i = k + 1 /\ ~(k <= i - 1)
      BY <1>2, <2>3
    <3>2. r[k] = b[k - (i - 1)]
      BY ONLY <1>3, <2>1, <3>1
    <3> QED BY ONLY <1>4, <2>3, <3>1, <3>2
  <2> QED BY <2>2, <2>3
<1> QED BY <1>1, <1>6, <1>7 DEF Cut

HasPut(S, r, s, m, e) ==
  /\ r \in Seq(S) /\ Len(r) = Len(s) + 1
  /\ \A k \in 1 .. Len(s) + 1 :
       r[k] = IF k <= m THEN s[k] ELSE IF k = m + 1 THEN e ELSE s[k - 1]

\* What a list is with an element behind its m-th.
LEMMA PutAt ==
  ASSUME NEW S, NEW s \in Seq(S), NEW m \in 0 .. Len(s), NEW e \in S
  PROVE  HasPut(S, Put(s, m, e), s, m, e)
<1>1. PICK n, a, b : n = Len(s) /\ a = SubSeq(s, 1, m) /\ b = SubSeq(s, m + 1, n)
  OBVIOUS
<1>2. n \in Nat /\ m \in 0 .. n
  BY <1>1
<1>3. a \in Seq(S) /\ Len(a) = m /\ \A k \in 1 .. m : a[k] = s[k]
  BY <1>1
<1>4. b \in Seq(S) /\ Len(b) = n - m /\ \A k \in 1 .. n - m : b[k] = s[k + m]
  BY ONLY <1>1, <1>2, s \in Seq(S), SMTT(30)
<1>9. PICK c : c = a \o <<e>>
  OBVIOUS
<1>5. PICK r : r = c \o b
  OBVIOUS
<1>6. /\ c \in Seq(S) /\ Len(c) = m + 1 /\ c[m + 1] = e
      /\ \A k \in 1 .. m : c[k] = s[k]
  <2>1. c \in Seq(S) /\ Len(c) = m + 1
    BY ONLY <1>9, <1>2, <1>3, e \in S
  <2>2. \A k \in 1 .. m + 1 : c[k] = IF k <= m THEN a[k] ELSE e
    BY ONLY <1>9, <1>2, <1>3, e \in S
  <2> QED BY ONLY <1>2, <1>3, <2>1, <2>2
<1>7. r \in Seq(S) /\ Len(r) = n + 1
  <2>1. r \in Seq(S) /\ Len(r) = Len(c) + Len(b)
    <3>1. c \in Seq(S) /\ b \in Seq(S)
      BY <1>4, <1>6
    <3> QED BY ONLY <1>5, <3>1
  <2>2. Len(c) + Len(b) = n + 1
    BY ONLY <1>2, <1>4, <1>6
  <2> QED BY <2>1, <2>2
<1>8. ASSUME NEW k \in 1 .. n + 1
      PROVE  r[k] = IF k <= m THEN s[k] ELSE IF k = m + 1 THEN e ELSE s[k - 1]
  <2>1. r[k] = IF k <= Len(c) THEN c[k] ELSE b[k - Len(c)]
    <3>1. c \in Seq(S) /\ b \in Seq(S) /\ Len(c) = m + 1 /\ Len(b) = n - m
      BY <1>4, <1>6
    <3> QED BY ONLY <1>2, <1>5, <3>1, k \in 1 .. n + 1
  <2>2. CASE k <= m + 1
    BY ONLY <1>2, <1>6, <2>1, <2>2, k \in 1 .. n + 1
  <2>3. CASE ~(k <= m + 1)
    <3>1. k - (m + 1) \in 1 .. n - m /\ k - (m + 1) + m = k - 1 /\ ~(k <= m) /\ k # m + 1
      BY <1>2, <2>3
    <3>2. r[k] = b[k - (m + 1)]
      BY ONLY <1>6, <2>1, <2>3
    <3> QED BY ONLY <1>4, <2>3, <3>1, <3>2
  <2> QED BY <1>2, <2>2, <2>3
<1>10. r = Put(s, m, e)
  BY ONLY <1>1, <1>9, <1>5 DEF Put
<1>11. HasPut(S, r, s, m, e)
  BY ONLY <1>1, <1>7, <1>8 DEF HasPut
<1> QED BY ONLY <1>10, <1>11

\* A list without one of its elements.
LEMMA RemovedFrom ==
  ASSUME NEW s \in Seq(SlotIDs), IsInjective(s), NEW e \in Range(s),
         NEW r, r = Events!Unsubscribed(s, e)
  PROVE  /\ r \in Seq(SlotIDs) /\ IsInjective(r) /\ Range(r) = Range(s) \ {e}
         /\ \A x : GroupsInOrder(x, s) => GroupsInOrder(x, r)
<1>1. PICK i \in 1 .. Len(s) : s[i] = e
  BY DEF Range
<1>2. \A k \in DOMAIN s : s[k] = e <=> k = i
  BY <1>1 DEF IsInjective
<1>3. i \in DOMAIN s /\ \A j \in 1 .. i - 1 : s[j] # e
  BY <1>1, <1>2
<1>4. (CHOOSE k \in DOMAIN s : s[k] = e /\ \A j \in 1 .. k - 1 : s[j] # e) = i
  BY <1>2, <1>3
<1>5. r = Cut(s, i)
  BY <1>4, EventLibrary DEF Events!Unsubscribed, Cut
<1>6. PICK n \in Nat : n = Len(s) /\ i \in 1 .. n
  BY <1>1
<1>7. /\ r \in Seq(SlotIDs) /\ Len(r) = n - 1
      /\ \A k \in 1 .. n - 1 : r[k] = IF k < i THEN s[k] ELSE s[k + 1]
  BY <1>5, <1>6, CutAt
<1>8. DOMAIN r = 1 .. n - 1 /\ DOMAIN s = 1 .. n
  BY <1>6, <1>7
<1>9. \A j, k \in 1 .. n : s[j] = s[k] => j = k
  BY <1>8 DEF IsInjective
<1>10. IsInjective(r)
  <2>1. SUFFICES ASSUME NEW j \in 1 .. n - 1, NEW k \in 1 .. n - 1, r[j] = r[k]
                 PROVE  j = k
    BY <1>8 DEF IsInjective
  <2>2. j \in 1 .. n /\ k \in 1 .. n /\ j + 1 \in 1 .. n /\ k + 1 \in 1 .. n
    BY <1>6
  <2> QED BY <1>6, <1>7, <1>9, <2>1, <2>2
<1>11. Range(r) = Range(s) \ {e}
  <2>1. ASSUME NEW y \in Range(r) PROVE y \in Range(s) \ {e}
    <3>1. PICK k \in 1 .. n - 1 : y = r[k]
      BY <1>8 DEF Range
    <3>2. k \in 1 .. n /\ k + 1 \in 1 .. n
      BY <1>6
    <3>3. PICK j \in 1 .. n : y = s[j] /\ j # i
      BY <1>6, <1>7, <3>1, <3>2
    <3> QED BY <1>1, <1>6, <1>8, <1>9, <3>3 DEF Range
  <2>2. ASSUME NEW y \in Range(s) \ {e} PROVE y \in Range(r)
    <3>1. PICK k \in 1 .. n : y = s[k] /\ k # i
      BY <1>1, <1>8 DEF Range
    <3>2. CASE k < i
      <4>1. k \in 1 .. n - 1 /\ r[k] = y
        BY <1>6, <1>7, <3>1, <3>2
      <4> QED BY <1>8, <4>1 DEF Range
    <3>3. CASE k > i
      <4>1. k - 1 \in 1 .. n - 1 /\ r[k - 1] = y
        BY <1>6, <1>7, <3>1, <3>3
      <4> QED BY <1>8, <4>1 DEF Range
    <3> QED BY <1>6, <3>1, <3>2, <3>3
  <2> QED BY <2>1, <2>2
<1>12. ASSUME NEW x, GroupsInOrder(x, s) PROVE GroupsInOrder(x, r)
  <2>1. \A j, k \in 1 .. n : j < k => x[s[j]].m_group <= x[s[k]].m_group
    BY <1>8, <1>12 DEF GroupsInOrder
  <2>2. SUFFICES ASSUME NEW j \in 1 .. n - 1, NEW k \in 1 .. n - 1, j < k
                 PROVE  x[r[j]].m_group <= x[r[k]].m_group
    BY <1>8 DEF GroupsInOrder
  <2>3. j \in 1 .. n /\ k \in 1 .. n /\ j + 1 \in 1 .. n /\ k + 1 \in 1 .. n
    BY <1>6
  <2>4. \E a, b \in 1 .. n : a < b /\ r[j] = s[a] /\ r[k] = s[b]
    BY <1>6, <1>7, <2>2, <2>3
  <2> QED BY <2>1, <2>4
<1> QED BY <1>7, <1>10, <1>11, <1>12

\* The group of a slot is a number, the one of a slot not yet used too.
LEMMA GroupsAreNumbers ==
  ASSUME NEW x \in [SlotIDs -> SlotType], NEW t \in SlotIDs
  PROVE  x[t].m_group \in Nat
<1>1. x[t] \in SlotType
  OBVIOUS
<1>2. PICK r : r = x[t]
  OBVIOUS
<1>3. r.m_group \in EventGroups \cup {0}
  BY ONLY <1>1, <1>2 DEF SlotType
<1>4. EventGroups \cup {0} \subseteq Nat
  BY EventAssumption
<1> QED BY ONLY <1>2, <1>3, <1>4

\* Slots up to a group are the first of a list that is in order.
UpTo(x, s, g) == {i \in DOMAIN s : x[s[i]].m_group <= g}

\* In a list in the order of groups, those up to a group are the first.
LEMMA FirstOfGroups ==
  ASSUME NEW x \in [SlotIDs -> SlotType], NEW s \in Seq(SlotIDs), GroupsInOrder(x, s), NEW g \in Nat
  PROVE  /\ Cardinality(UpTo(x, s, g)) \in 0 .. Len(s)
         /\ UpTo(x, s, g) = 1 .. Cardinality(UpTo(x, s, g))
<1>0. PICK before : before = UpTo(x, s, g) /\ before = {i \in DOMAIN s : x[s[i]].m_group <= g}
  BY DEF UpTo
<1> USE EventAssumption
<1>1. PICK n \in Nat : n = Len(s) /\ DOMAIN s = 1 .. n
  OBVIOUS
<1>2. \A i \in 1 .. n : x[s[i]].m_group \in Nat
  <2>1. \A t \in SlotIDs : x[t].m_group \in Nat
    BY GroupsAreNumbers
  <2>2. \A i \in 1 .. n : s[i] \in SlotIDs
    BY <1>1
  <2> QED BY <2>1, <2>2
<1>3. \A k \in Nat : IsFiniteSet(1 .. k) /\ Cardinality(1 .. k) = k
  <2>1. SUFFICES ASSUME NEW k \in Nat PROVE IsFiniteSet(1 .. k) /\ Cardinality(1 .. k) = k
    OBVIOUS
  <2>2. IsFiniteSet(1 .. k) /\ Cardinality(1 .. k) = IF 1 > k THEN 0 ELSE k - 1 + 1
    BY FS_Interval
  <2> QED BY <2>2
<1>4. PICK m : m = Cardinality(before)
  OBVIOUS
<1>5. before \subseteq 1 .. n /\ IsFiniteSet(before) /\ m \in Nat /\ m <= n
  <2>1. before \subseteq 1 .. n
    BY <1>0, <1>1
  <2>2. IsFiniteSet(before) /\ Cardinality(before) <= Cardinality(1 .. n)
    BY <1>3, <2>1, FS_Subset
  <2> QED BY <1>3, <1>4, <2>1, <2>2, FS_CardinalityType
<1>6. ASSUME NEW i \in before PROVE i \in 1 .. m
  <2>1. i \in 1 .. n /\ x[s[i]].m_group <= g
    BY <1>0, <1>1
  <2>2. ASSUME NEW j \in 1 .. i PROVE j \in before
    <3>1. j \in 1 .. n /\ (j = i \/ j < i)
      BY <2>1
    <3>2. x[s[j]].m_group <= x[s[i]].m_group
      BY <1>1, <1>2, <2>1, <3>1 DEF GroupsInOrder
    <3> QED BY <1>0, <1>1, <1>2, <2>1, <3>1, <3>2
  <2>3. Cardinality(1 .. i) <= Cardinality(before)
    <3>1. 1 .. i \subseteq before
      BY <2>2
    <3> QED BY <1>5, <3>1, FS_Subset
  <2> QED BY <1>3, <1>4, <1>5, <2>1, <2>3
<1>7. before \in SUBSET (1 .. m)
  BY <1>6
<1>8. before = 1 .. m
  BY <1>3, <1>4, <1>5, <1>7, FS_Subset
<1>9. m \in 0 .. Len(s)
  BY ONLY <1>1, <1>5
<1> QED BY ONLY <1>0, <1>4, <1>8, <1>9

\* A list with a slot inserted behind its group, when x and y are the groups.
IsPutInto(r, s, n, m, e) ==
  /\ DOMAIN s = 1 .. n /\ DOMAIN r = 1 .. n + 1
  /\ \A k \in 1 .. n + 1 : r[k] = IF k <= m THEN s[k] ELSE IF k = m + 1 THEN e ELSE s[k - 1]

IsGroupOf(y, s, n, m, e) ==
  /\ y[e].m_group \in Nat
  /\ \A i \in 1 .. n : y[s[i]].m_group \in Nat /\ (y[s[i]].m_group <= y[e].m_group <=> i <= m)

\* A list stays without repetition and in order when a slot is put behind those
\* of its group and the ones before.
LEMMA InsertedBehind ==
  ASSUME NEW n \in Nat, NEW m \in 0 .. n, NEW s, NEW r, NEW e, IsPutInto(r, s, n, m, e),
         IsInjective(s), e \notin Range(s),
         NEW y, IsGroupOf(y, s, n, m, e), GroupsInOrder(y, s)
  PROVE  IsInjective(r) /\ Range(r) = Range(s) \cup {e} /\ GroupsInOrder(y, r)
<1> USE DEF IsPutInto, IsGroupOf
<1>1. /\ \A i \in 1 .. n : s[i] \in Range(s) /\ s[i] # e
      /\ \A i \in 1 .. n + 1 : /\ i <= m => i \in 1 .. n
                               /\ i > m + 1 => i - 1 \in 1 .. n
  BY DEF Range
<1>2. IsInjective(r)
  <2>1. \A i, j \in 1 .. n : s[i] = s[j] => i = j
    BY DEF IsInjective
  <2>2. SUFFICES ASSUME NEW j \in 1 .. n + 1, NEW k \in 1 .. n + 1, r[j] = r[k]
                 PROVE  j = k
    BY DEF IsInjective
  <2> QED BY <1>1, <2>1, <2>2
<1>3. Range(r) = Range(s) \cup {e}
  <2>1. ASSUME NEW z \in Range(r) PROVE z \in Range(s) \cup {e}
    <3>1. PICK k \in 1 .. n + 1 : z = r[k]
      BY DEF Range
    <3> QED BY <1>1, <3>1
  <2>2. ASSUME NEW z \in Range(s) PROVE z \in Range(r)
    <3>1. PICK k \in 1 .. n : z = s[k]
      BY DEF Range
    <3>2. PICK j \in 1 .. n + 1 : r[j] = z
      <4>1. CASE k <= m
        BY <3>1, <4>1
      <4>2. CASE k > m
        <5>1. k + 1 \in 1 .. n + 1 /\ r[k + 1] = z
          BY <3>1, <4>2
        <5> QED BY <5>1
      <4> QED BY <4>1, <4>2
    <3> QED BY <3>2 DEF Range
  <2>3. e \in Range(r)
    <3>1. m + 1 \in 1 .. n + 1 /\ r[m + 1] = e
      OBVIOUS
    <3> QED BY <3>1 DEF Range
  <2> QED BY <2>1, <2>2, <2>3
<1>4. GroupsInOrder(y, r)
  <2>1. \A i, j \in 1 .. n : i < j => y[s[i]].m_group <= y[s[j]].m_group
    BY DEF GroupsInOrder
  <2>2. SUFFICES ASSUME NEW j \in 1 .. n + 1, NEW k \in 1 .. n + 1, j < k
                 PROVE  y[r[j]].m_group <= y[r[k]].m_group
    BY DEF GroupsInOrder
  <2>3. CASE k <= m
    BY <1>1, <2>1, <2>2, <2>3
  <2>4. CASE k = m + 1
    BY <1>1, <2>2, <2>4
  <2>5. CASE k > m + 1 /\ j = m + 1
    <3>1. k - 1 \in 1 .. n /\ ~(k - 1 <= m)
      BY <2>5
    <3> QED BY <2>5, <3>1
  <2>6. CASE k > m + 1 /\ j <= m
    BY <1>1, <2>1, <2>2, <2>6
  <2>7. CASE k > m + 1 /\ j > m + 1
    <3>1. j - 1 \in 1 .. n /\ k - 1 \in 1 .. n /\ j - 1 < k - 1
      BY <2>2, <2>7
    <3>2. r[j] = s[j - 1] /\ r[k] = s[k - 1]
      BY <2>7
    <3> QED BY ONLY <2>1, <3>1, <3>2
  <2> QED BY <2>3, <2>4, <2>5, <2>6, <2>7
<1> QED BY <1>2, <1>3, <1>4

\* So it is with the place that the multimap finds for a slot.
LEMMA InsertedInto ==
  ASSUME NEW x \in [SlotIDs -> SlotType], NEW s \in Seq(SlotIDs), IsInjective(s),
         GroupsInOrder(x, s), NEW g \in Nat, NEW e \in SlotIDs \ Range(s),
         NEW r, r = Put(s, Cardinality(UpTo(x, s, g)), e),
         NEW y, y[e].m_group = g, \A t \in Range(s) : y[t].m_group = x[t].m_group
  PROVE  /\ r \in Seq(SlotIDs) /\ r # <<>> /\ IsInjective(r) /\ Range(r) = Range(s) \cup {e}
         /\ GroupsInOrder(y, r)
<1>1. PICK n, m : n = Len(s) /\ m = Cardinality(UpTo(x, s, g))
  OBVIOUS
<1>2. n \in Nat /\ DOMAIN s = 1 .. n /\ m \in 0 .. n /\ UpTo(x, s, g) = 1 .. m
  BY <1>1, FirstOfGroups
<1>3. /\ r \in Seq(SlotIDs) /\ Len(r) = n + 1
      /\ \A k \in 1 .. n + 1 : r[k] = IF k <= m THEN s[k] ELSE IF k = m + 1 THEN e ELSE s[k - 1]
  <2>1. r = Put(s, m, e) /\ e \in SlotIDs /\ m \in 0 .. Len(s)
    BY <1>1, <1>2
  <2>2. HasPut(SlotIDs, r, s, m, e)
    BY ONLY <2>1, s \in Seq(SlotIDs), PutAt
  <2> QED BY ONLY <1>1, <2>2 DEF HasPut
<1>4. \A i \in 1 .. n : /\ x[s[i]].m_group \in Nat /\ y[s[i]].m_group = x[s[i]].m_group
                        /\ x[s[i]].m_group <= g <=> i <= m
  <2>1. \A t \in SlotIDs : x[t].m_group \in Nat
    BY GroupsAreNumbers
  <2>2. \A i \in 1 .. n : s[i] \in SlotIDs /\ s[i] \in Range(s)
    BY <1>1, <1>2 DEF Range
  <2>3. \A i \in 1 .. n : i \in UpTo(x, s, g) <=> i <= m
    BY ONLY <1>2
  <2>4. \A i \in 1 .. n : i \in UpTo(x, s, g) <=> x[s[i]].m_group <= g
    BY <1>2 DEF UpTo
  <2> QED BY <2>1, <2>2, <2>3, <2>4
<1>5. GroupsInOrder(y, s)
  BY <1>2, <1>4 DEF GroupsInOrder
<1>6. DOMAIN r = 1 .. n + 1 /\ r # <<>>
  BY ONLY <1>2, <1>3
<1>7. IsInjective(r) /\ Range(r) = Range(s) \cup {e} /\ GroupsInOrder(y, r)
  <2>1. IsGroupOf(y, s, n, m, e) /\ e \notin Range(s)
    BY <1>4 DEF IsGroupOf
  <2>2. IsPutInto(r, s, n, m, e)
    BY <1>2, <1>3, <1>6 DEF IsPutInto
  <2> QED BY <1>2, <1>5, <2>1, <2>2, InsertedBehind
<1> QED BY <1>3, <1>6, <1>7

\* What changes of the slots a dispatch outlives: those that were used keep
\* their groups, and none is connected again.
LEMMA FrameKept ==
  ASSUME NEW f \in Frames, NEW x, NEW y, Frame(x, f),
         \A t \in SlotIDs : x[t].used =>
           /\ y[t].used /\ y[t].m_group = x[t].m_group
           /\ (y[t].connected => x[t].connected)
  PROVE  Frame(y, f)
<1>1. f.conList \in Seq(SlotIDs) /\ f.called \in Seq(SlotIDs)
  BY DEF Frames
<1>2. PICK con, called : con = f.conList /\ called = f.called
  OBVIOUS
<1>3. PICK n \in Nat : n = Len(con) /\ DOMAIN con = 1 .. n /\ \A i \in 1 .. n : con[i] \in SlotIDs
  BY <1>1, <1>2
<1>4. \A i \in DOMAIN called : called[i] \in Range(called)
  BY DEF Range
<1>5. \A i \in 1 .. n : con[i] \in Range(con)
  BY <1>3 DEF Range
<1>6. \A i \in 1 .. n : /\ x[con[i]].used /\ y[con[i]].used /\ y[con[i]].m_group = x[con[i]].m_group
                        /\ y[con[i]].connected => x[con[i]].connected
  <2>1. \A t \in Range(con) : x[t].used
    BY <1>2 DEF Frame
  <2>2. ASSUME NEW i \in 1 .. n
        PROVE  /\ x[con[i]].used /\ y[con[i]].used /\ y[con[i]].m_group = x[con[i]].m_group
               /\ y[con[i]].connected => x[con[i]].connected
    <3>1. PICK t \in SlotIDs : t = con[i] /\ x[t].used
      BY <1>3, <1>5, <2>1
    <3> QED BY <3>1
  <2> QED BY <2>2
<1>7. \A i \in DOMAIN called : y[called[i]].m_group = x[called[i]].m_group
  BY <1>2, <1>3, <1>4, <1>6 DEF Frame
<1>8. GroupsInOrder(y, con) /\ GroupsInOrder(y, called)
  BY <1>2, <1>3, <1>6, <1>7 DEF Frame, GroupsInOrder
<1>9. \A t \in Range(con) : y[t].used
  BY <1>3, <1>6 DEF Range
<1>10. \A i \in 1 .. n : Passed(f, i) /\ y[con[i]].connected => con[i] \in Range(called)
  BY <1>2, <1>3, <1>6 DEF Frame
<1> QED BY <1>2, <1>3, <1>8, <1>9, <1>10 DEF Frame

\* The dispatches go on as they are when an operation changes events and slots.
LEMMA OperationKeepsFrames ==
  ASSUME EventInv, firing' = firing,
         \A t \in SlotIDs : slot[t].used =>
           /\ slot'[t].used /\ slot'[t].m_group = slot[t].m_group
           /\ (slot'[t].connected => slot[t].connected)
  PROVE  EventFrames'
<1>1. SUFFICES ASSUME NEW k \in 1 .. Len(firing) PROVE Frame(slot', firing[k])
  BY DEF EventFrames
<1>2. firing[k] \in Frames /\ Frame(slot, firing[k])
  BY DEF EventInv, EventTypes, EventFrames
<1> QED BY <1>2, FrameKept

\* AddEvent adds an event without slots, if it is not there.
LEMMA AddEventKeepsInv ==
  ASSUME EventInv, NEW n \in EventNames, Events!AddEvent(n)
  PROVE  EventInv'
<1>1. /\ m_events' = m_events \cup {n} /\ m_eventSlots' = m_eventSlots /\ m_muted' = m_muted
      /\ slot' = slot /\ firing' = firing
  BY DEF Events!AddEvent
<1>2. EventTypes' /\ EventLists'
  BY <1>1 DEF EventInv, EventTypes, EventLists
<1>3. EventFrames'
  BY <1>1 DEF EventInv, EventFrames
<1> QED BY <1>2, <1>3 DEF EventInv

\* SetMutedState changes no event and no slot.
LEMMA SetMutedKeepsInv ==
  ASSUME EventInv, NEW setting \in BOOLEAN, Events!SetMutedState(setting)
  PROVE  EventInv'
<1>1. /\ m_events' = m_events /\ m_eventSlots' = m_eventSlots /\ m_muted' \in BOOLEAN
      /\ slot' = slot /\ firing' = firing
  BY DEF Events!SetMutedState
<1>2. EventTypes' /\ EventLists'
  BY <1>1 DEF EventInv, EventTypes, EventLists
<1>3. EventFrames'
  BY <1>1 DEF EventInv, EventFrames
<1> QED BY <1>2, <1>3 DEF EventInv

\* Events take their slots with them.
LEMMA RemoveEventsKeepsInv ==
  ASSUME EventInv, NEW names, names \subseteq EventNames, Events!RemoveEvents(names)
  PROVE  EventInv'
<1> USE EventAssumption
<1>1. /\ m_events' = m_events \ names
      /\ m_eventSlots' = [n \in EventNames |-> IF n \in names THEN <<>> ELSE m_eventSlots[n]]
      /\ slot' = [s \in SlotIDs |-> IF slot[s].m_event \in names
                   THEN [slot[s] EXCEPT !.m_event = NoEvent, !.connected = FALSE] ELSE slot[s]]
      /\ m_muted' = m_muted /\ firing' = firing
  BY DEF Events!RemoveEvents
<1>2. ASSUME NEW s \in SlotIDs
      PROVE  /\ slot'[s] \in SlotType
             /\ slot'[s].m_event = IF slot[s].m_event \in names THEN NoEvent ELSE slot[s].m_event
             /\ slot'[s].connected = IF slot[s].m_event \in names THEN FALSE ELSE slot[s].connected
             /\ slot'[s].used = slot[s].used /\ slot'[s].m_group = slot[s].m_group
  <2>1. PICK a, b : a = slot[s] /\ b = slot'[s] /\ a \in SlotType
    BY DEF EventInv, EventTypes
  <2>2. b = IF a.m_event \in names THEN [a EXCEPT !.m_event = NoEvent, !.connected = FALSE] ELSE a
    BY <1>1, <2>1
  <2>3. /\ b \in SlotType
        /\ b.m_event = IF a.m_event \in names THEN NoEvent ELSE a.m_event
        /\ b.connected = IF a.m_event \in names THEN FALSE ELSE a.connected
        /\ b.used = a.used /\ b.m_group = a.m_group
    BY ONLY <2>1, <2>2 DEF SlotType
  <2> QED BY <2>1, <2>3
<1>3. Range(<<>>) = {}
  BY DEF Range
<1>4. EventTypes'
  <2>1. m_eventSlots' \in [EventNames -> Seq(SlotIDs)]
    <3>1. \A n \in EventNames : m_eventSlots[n] \in Seq(SlotIDs)
      BY DEF EventInv, EventTypes
    <3>2. PICK none : none = <<>> /\ none \in Seq(SlotIDs)
      <4>1. <<>> \in Seq(SlotIDs)
        OBVIOUS
      <4> QED BY ONLY <4>1, Zenon
    <3>3. m_eventSlots' = [n \in EventNames |-> IF n \in names THEN none ELSE m_eventSlots[n]]
      BY <1>1, <3>2
    <3> QED BY ONLY <3>1, <3>2, <3>3
  <2>2. slot' \in [SlotIDs -> SlotType]
    BY <1>1, <1>2
  <2> QED BY <1>1, <2>1, <2>2 DEF EventInv, EventTypes
<1>5. EventLists'
  <2>1. ASSUME NEW n \in EventNames
        PROVE  /\ m_eventSlots'[n] # <<>> => n \in m_events'
               /\ IsInjective(m_eventSlots'[n])
               /\ GroupsInOrder(slot', m_eventSlots'[n])
    <3>1. CASE n \in names
      <4>1. m_eventSlots'[n] = <<>>
        BY <1>1, <3>1
      <4>2. IsInjective(<<>>) /\ GroupsInOrder(slot', <<>>)
        BY DEF IsInjective, GroupsInOrder
      <4> QED BY <4>1, <4>2
    <3>2. CASE n \notin names
      <4>1. m_eventSlots'[n] = m_eventSlots[n] /\ (n \in m_events => n \in m_events')
        BY <1>1, <3>2
      <4>2. PICK list : list = m_eventSlots[n] /\ list \in Seq(SlotIDs)
        BY DEF EventInv, EventTypes
      <4>3. \A i \in DOMAIN list : slot'[list[i]].m_group = slot[list[i]].m_group
        <5>1. \A i \in DOMAIN list : list[i] \in SlotIDs
          BY <4>2
        <5> QED BY <1>2, <5>1
      <4> QED BY <4>1, <4>2, <4>3 DEF EventInv, EventLists, GroupsInOrder
    <3> QED BY <3>1, <3>2
  <2>2. ASSUME NEW s \in SlotIDs, NEW n \in EventNames
        PROVE  slot'[s].m_event = n <=> s \in Range(m_eventSlots'[n])
    <3>1. CASE n \in names
      <4>1. m_eventSlots'[n] = <<>>
        BY <1>1, <3>1
      <4>2. slot'[s].m_event # n
        BY <1>2, <3>1
      <4> QED BY <1>3, <4>1, <4>2
    <3>2. CASE n \notin names
      <4>1. m_eventSlots'[n] = m_eventSlots[n]
        BY <1>1, <3>2
      <4>2. slot[s].m_event = n <=> s \in Range(m_eventSlots[n])
        BY DEF EventInv, EventLists
      <4>3. slot'[s].m_event = IF slot[s].m_event \in names THEN NoEvent ELSE slot[s].m_event
        BY <1>2
      <4> QED BY ONLY <3>2, <4>1, <4>2, <4>3, n # NoEvent
    <3> QED BY <3>1, <3>2
  <2>3. \A s \in SlotIDs : /\ slot'[s].connected <=> slot'[s].m_event # NoEvent
                           /\ slot'[s].connected => slot'[s].used
    <3>1. \A s \in SlotIDs : /\ slot[s].connected <=> slot[s].m_event # NoEvent
                             /\ slot[s].connected => slot[s].used
      BY DEF EventInv, EventLists
    <3> QED BY <1>2, <3>1
  <2> QED BY <2>1, <2>2, <2>3 DEF EventLists
<1>6. EventFrames'
  BY <1>1, <1>2, OperationKeepsFrames
<1> QED BY <1>4, <1>5, <1>6 DEF EventInv

\* A slot that was not used gets its place behind those of its group.
LEMMA SubscribeKeepsInv ==
  ASSUME EventInv, NEW n \in EventNames, NEW s \in SlotIDs, NEW g \in EventGroups,
         Events!SubscribeEvent(n, s, g)
  PROVE  EventInv'
<1> USE EventAssumption
<1>1. /\ ~slot[s].used /\ m_events' = m_events \cup {n}
      /\ m_eventSlots' = [m_eventSlots EXCEPT ![n] = Events!Inserted(@, s, g)]
      /\ slot' = [slot EXCEPT ![s] = [m_event |-> n, m_group |-> g, connected |-> TRUE, used |-> TRUE]]
      /\ m_muted' = m_muted /\ firing' = firing
  BY DEF Events!SubscribeEvent
<1>2. PICK b : b = [m_event |-> n, m_group |-> g, connected |-> TRUE, used |-> TRUE]
  OBVIOUS
<1>3. b \in SlotType /\ b.m_event = n /\ b.m_group = g /\ b.connected /\ b.used
  BY <1>2 DEF SlotType
<1>4. slot' \in [SlotIDs -> SlotType] /\ \A t \in SlotIDs : slot'[t] = IF t = s THEN b ELSE slot[t]
  BY <1>1, <1>2, <1>3 DEF EventInv, EventTypes
<1>5. ~slot[s].connected /\ slot[s].m_event = NoEvent /\ \A k \in EventNames : s \notin Range(m_eventSlots[k])
  BY <1>1 DEF EventInv, EventLists
<1>6. PICK old, new : old = m_eventSlots[n] /\ new = Events!Inserted(old, s, g)
  OBVIOUS
<1>7. old \in Seq(SlotIDs) /\ IsInjective(old) /\ GroupsInOrder(slot, old) /\ slot \in [SlotIDs -> SlotType]
  <2>1. m_eventSlots \in [EventNames -> Seq(SlotIDs)] /\ slot \in [SlotIDs -> SlotType]
    BY DEF EventInv, EventTypes
  <2>2. IsInjective(m_eventSlots[n]) /\ GroupsInOrder(slot, m_eventSlots[n])
    BY DEF EventInv, EventLists
  <2>3. old \in Seq(SlotIDs)
    BY ONLY <1>6, <2>1, n \in EventNames
  <2> QED BY ONLY <1>6, <2>1, <2>2, <2>3
<1>8. new = Put(old, Cardinality(UpTo(slot, old, g)), s)
  <2>1. PICK m : m = Cardinality(UpTo(slot, old, g))
    OBVIOUS
  <2>2. m \in Nat
    <3>1. m \in 0 .. Len(old)
      BY <1>7, <2>1, FirstOfGroups
    <3> QED BY <1>7, <3>1
  <2>3. Events!Cardinality({i \in DOMAIN old : slot[old[i]].m_group <= g}) = m
    BY <2>1, EventLibrary DEF UpTo
  <2> QED BY <1>6, <2>1, <2>3 DEF Events!Inserted, Put
<1>9. \A t \in Range(old) : t \in SlotIDs /\ t # s
  BY <1>5, <1>6, <1>7 DEF Range
<1>10. /\ new \in Seq(SlotIDs) /\ IsInjective(new) /\ Range(new) = Range(old) \cup {s}
       /\ GroupsInOrder(slot', new)
  <2>1. slot'[s].m_group = g /\ \A t \in Range(old) : slot'[t].m_group = slot[t].m_group
    BY <1>3, <1>4, <1>9
  <2>2. s \in SlotIDs \ Range(old) /\ g \in Nat
    BY <1>9
  <2> QED BY <1>7, <1>8, <2>1, <2>2, InsertedInto
<1>11. \A k \in EventNames : m_eventSlots'[k] = IF k = n THEN new ELSE m_eventSlots[k]
  BY <1>1, <1>6 DEF EventInv, EventTypes
<1>12. EventTypes'
  <2>1. m_eventSlots' \in [EventNames -> Seq(SlotIDs)]
    BY <1>1, <1>6, <1>10 DEF EventInv, EventTypes
  <2> QED BY <1>1, <1>4, <2>1 DEF EventInv, EventTypes
<1>13. EventLists'
  <2>1. ASSUME NEW k \in EventNames
        PROVE  /\ m_eventSlots'[k] # <<>> => k \in m_events'
               /\ IsInjective(m_eventSlots'[k])
               /\ GroupsInOrder(slot', m_eventSlots'[k])
    <3>1. CASE k = n
      BY <1>1, <1>10, <1>11, <3>1
    <3>2. CASE k # n
      <4>1. PICK list : list = m_eventSlots[k] /\ list \in Seq(SlotIDs) /\ m_eventSlots'[k] = list
        BY <1>11, <3>2 DEF EventInv, EventTypes
      <4>2. \A i \in DOMAIN list : slot'[list[i]].m_group = slot[list[i]].m_group
        <5>1. \A i \in DOMAIN list : list[i] \in SlotIDs /\ list[i] \in Range(list)
          BY <4>1 DEF Range
        <5> QED BY <1>4, <1>5, <4>1, <5>1
      <4> QED BY <1>1, <4>1, <4>2 DEF EventInv, EventLists, GroupsInOrder
    <3> QED BY <3>1, <3>2
  <2>2. ASSUME NEW t \in SlotIDs, NEW k \in EventNames
        PROVE  slot'[t].m_event = k <=> t \in Range(m_eventSlots'[k])
    <3>1. slot[t].m_event = k <=> t \in Range(m_eventSlots[k])
      BY DEF EventInv, EventLists
    <3>2. CASE k = n
      BY <1>3, <1>4, <1>6, <1>10, <1>11, <3>1, <3>2
    <3>3. CASE k # n
      BY <1>3, <1>4, <1>5, <1>11, <3>1, <3>3
    <3> QED BY <3>2, <3>3
  <2>3. \A t \in SlotIDs : /\ slot'[t].connected <=> slot'[t].m_event # NoEvent
                           /\ slot'[t].connected => slot'[t].used
    BY <1>3, <1>4 DEF EventInv, EventLists
  <2> QED BY <2>1, <2>2, <2>3 DEF EventLists
<1>14. EventFrames'
  <2>1. \A t \in SlotIDs : slot[t].used => slot'[t] = slot[t]
    BY <1>1, <1>4
  <2> QED BY <1>1, <2>1, OperationKeepsFrames
<1> QED BY <1>12, <1>13, <1>14 DEF EventInv

\* A slot leaves its event, if that is there.
LEMMA DisconnectKeepsInv ==
  ASSUME EventInv, NEW s \in SlotIDs, Events!Disconnect(s)
  PROVE  EventInv'
<1> USE EventAssumption
<1>1. PICK n : n = slot[s].m_event
  OBVIOUS
<1>2. /\ slot[s].used
      /\ m_eventSlots' = IF n = NoEvent THEN m_eventSlots
                         ELSE [m_eventSlots EXCEPT ![n] = Events!Unsubscribed(@, s)]
      /\ slot' = [slot EXCEPT ![s].connected = FALSE, ![s].m_event = NoEvent]
      /\ m_events' = m_events /\ m_muted' = m_muted /\ firing' = firing
  BY <1>1 DEF Events!Disconnect
<1>3. PICK a, b : a = slot[s] /\ b = [a EXCEPT !.connected = FALSE, !.m_event = NoEvent]
  OBVIOUS
<1>4. a \in SlotType
  BY <1>3 DEF EventInv, EventTypes
<1>5. b \in SlotType /\ b.m_event = NoEvent /\ b.m_group = a.m_group /\ ~b.connected /\ b.used = a.used
  BY ONLY <1>3, <1>4 DEF SlotType
<1>6. slot' = [slot EXCEPT ![s] = b]
  BY <1>2, <1>3 DEF EventInv, EventTypes
<1>7. slot' \in [SlotIDs -> SlotType] /\ \A t \in SlotIDs : slot'[t] = IF t = s THEN b ELSE slot[t]
  BY <1>5, <1>6 DEF EventInv, EventTypes
<1>8. n \in EventNames \cup {NoEvent}
  BY <1>1, <1>3, <1>4 DEF SlotType
<1>9. ASSUME NEW k \in EventNames
      PROVE  /\ m_eventSlots'[k] \in Seq(SlotIDs) /\ IsInjective(m_eventSlots'[k])
             /\ Range(m_eventSlots'[k]) = Range(m_eventSlots[k]) \ {s}
             /\ GroupsInOrder(slot, m_eventSlots'[k])
  <2>1. PICK list : list = m_eventSlots[k] /\ list \in Seq(SlotIDs) /\ IsInjective(list) /\ GroupsInOrder(slot, list)
    BY DEF EventInv, EventTypes, EventLists
  <2>2. s \in Range(list) <=> k = n
    BY <1>1, <2>1 DEF EventInv, EventLists
  <2>3. CASE k = n
    <3>1. m_eventSlots'[k] = Events!Unsubscribed(list, s)
      BY <1>2, <2>1, <2>3 DEF EventInv, EventTypes
    <3> QED BY <2>1, <2>2, <2>3, <3>1, RemovedFrom
  <2>4. CASE k # n
    <3>1. m_eventSlots'[k] = list
      BY <1>2, <2>1, <2>4 DEF EventInv, EventTypes
    <3>2. Range(list) \ {s} = Range(list)
      BY <2>2, <2>4
    <3> QED BY <2>1, <3>1, <3>2
  <2> QED BY <2>3, <2>4
<1>10. \A t \in SlotIDs : slot'[t].m_group = slot[t].m_group
  BY <1>3, <1>5, <1>7
<1>11. EventTypes'
  <2>1. m_eventSlots' = [k \in EventNames |-> m_eventSlots'[k]]
    BY <1>2, <1>8 DEF EventInv, EventTypes
  <2>2. m_eventSlots' \in [EventNames -> Seq(SlotIDs)]
    BY <1>9, <2>1
  <2> QED BY <1>2, <1>7, <2>2 DEF EventInv, EventTypes
<1>12. EventLists'
  <2>1. ASSUME NEW k \in EventNames
        PROVE  /\ m_eventSlots'[k] # <<>> => k \in m_events'
               /\ IsInjective(m_eventSlots'[k])
               /\ GroupsInOrder(slot', m_eventSlots'[k])
    <3>1. m_eventSlots'[k] # <<>> => m_eventSlots[k] # <<>>
      <4>1. PICK new : new = m_eventSlots'[k] /\ new \in Seq(SlotIDs)
        BY <1>9
      <4>2. new # <<>> => new[1] \in Range(new)
        BY <4>1 DEF Range
      <4>3. Range(<<>>) = {}
        BY DEF Range
      <4> QED BY <1>9, <4>1, <4>2, <4>3
    <3>2. PICK new : new = m_eventSlots'[k] /\ \A i \in DOMAIN new : new[i] \in SlotIDs
      BY <1>9
    <3>3. GroupsInOrder(slot', m_eventSlots'[k])
      BY <1>9, <1>10, <3>2 DEF GroupsInOrder
    <3> QED BY <1>2, <1>9, <3>1, <3>3 DEF EventInv, EventLists
  <2>2. ASSUME NEW t \in SlotIDs, NEW k \in EventNames
        PROVE  slot'[t].m_event = k <=> t \in Range(m_eventSlots'[k])
    <3>1. slot[t].m_event = k <=> t \in Range(m_eventSlots[k])
      BY DEF EventInv, EventLists
    <3> QED BY <1>5, <1>7, <1>9, <3>1
  <2>3. \A t \in SlotIDs : /\ slot'[t].connected <=> slot'[t].m_event # NoEvent
                           /\ slot'[t].connected => slot'[t].used
    BY <1>5, <1>7 DEF EventInv, EventLists
  <2> QED BY <2>1, <2>2, <2>3 DEF EventLists
<1>13. EventFrames'
  <2>1. \A t \in SlotIDs : slot[t].used =>
           /\ slot'[t].used /\ slot'[t].m_group = slot[t].m_group
           /\ (slot'[t].connected => slot[t].connected)
    BY <1>3, <1>5, <1>7
  <2> QED BY <1>2, <2>1, OperationKeepsFrames
<1> QED BY <1>11, <1>12, <1>13 DEF EventInv

\* The dispatch that is to call the slot of its next place.
LEMMA SlotIsNext ==
  ASSUME NEW f \in Frames, NEW x, Frame(x, f), ~f.calling, f.next <= Len(f.conList)
  PROVE  /\ f.conList[f.next] \in SlotIDs \ Range(f.called)
         /\ f.next \in 1 .. Len(f.conList)
         /\ \A i \in DOMAIN f.called :
              x[f.called[i]].m_group <= x[f.conList[f.next]].m_group
<1>1. f.conList \in Seq(SlotIDs) /\ f.called \in Seq(SlotIDs) /\ f.next \in Nat
  BY DEF Frames
<1>2. PICK con, called, i : con = f.conList /\ called = f.called /\ i = f.next
  OBVIOUS
<1>3. PICK n \in Nat : n = Len(con) /\ DOMAIN con = 1 .. n /\ \A j \in 1 .. n : con[j] \in SlotIDs
  BY <1>1, <1>2
<1>4. i \in 1 .. n
  BY <1>1, <1>2, <1>3 DEF Frame
<1>5. \A s \in Range(called) : \E j \in 1 .. n : s = con[j] /\ j < i
  BY <1>2, <1>3 DEF Frame, Passed
<1>6. \A j, k \in 1 .. n : /\ con[j] = con[k] => j = k
                           /\ j < k => x[con[j]].m_group <= x[con[k]].m_group
  BY <1>2, <1>3 DEF Frame, IsInjective, GroupsInOrder
<1>7. con[i] \notin Range(called)
  <2>1. SUFFICES ASSUME con[i] \in Range(called) PROVE FALSE
    OBVIOUS
  <2>2. PICK j \in 1 .. n : con[i] = con[j] /\ j < i
    BY <1>5, <2>1
  <2> QED BY <1>4, <1>6, <2>2
<1>8. ASSUME NEW k \in DOMAIN called PROVE x[called[k]].m_group <= x[con[i]].m_group
  <2>1. called[k] \in Range(called)
    BY DEF Range
  <2>2. PICK j \in 1 .. n : called[k] = con[j] /\ j < i
    BY <1>5, <2>1
  <2> QED BY <1>4, <1>6, <2>2
<1> QED BY <1>2, <1>3, <1>4, <1>7, <1>8

\* It calls that slot.
LEMMA FrameCalls ==
  ASSUME NEW f \in Frames, NEW x, Frame(x, f), ~f.calling, f.next <= Len(f.conList),
         NEW g, g = [f EXCEPT !.calling = TRUE, !.called = Append(f.called, f.conList[f.next])]
  PROVE  g \in Frames /\ Frame(x, g)
<1>1. f.conList \in Seq(SlotIDs) /\ f.called \in Seq(SlotIDs) /\ f.next \in Nat
  BY DEF Frames
<1>2. PICK called, s, i, con : /\ called = f.called /\ i = f.next /\ s = f.conList[i] /\ con = f.conList
  OBVIOUS
<1>3. /\ s \in SlotIDs \ Range(called) /\ i \in 1 .. Len(con)
      /\ \A k \in DOMAIN called : x[called[k]].m_group <= x[s].m_group
  BY <1>2, SlotIsNext
<1>4. PICK new : new = Append(called, s)
  OBVIOUS
<1>5. /\ g.conList = con /\ g.next = i /\ g.calling /\ g.called = new
  BY ONLY <1>2, <1>4, g = [f EXCEPT !.calling = TRUE, !.called = Append(f.called, f.conList[f.next])],
          f \in Frames DEF Frames
<1>6. new \in Seq(SlotIDs) /\ Range(new) = Range(called) \cup {s} /\ IsInjective(new)
  BY <1>1, <1>2, <1>3, <1>4, RangeAppend, InjectiveAppend DEF Frame
<1>7. g \in Frames
  BY ONLY <1>1, <1>2, <1>4, <1>6, f \in Frames,
          g = [f EXCEPT !.calling = TRUE, !.called = Append(f.called, f.conList[f.next])] DEF Frames
<1>8. GroupsInOrder(x, new)
  <2>1. PICK m \in Nat : m = Len(called) /\ DOMAIN called = 1 .. m
    BY <1>1, <1>2
  <2>2. DOMAIN new = 1 .. m + 1 /\ new[m + 1] = s /\ \A k \in 1 .. m : new[k] = called[k]
    BY <1>1, <1>2, <1>3, <1>4, <2>1
  <2>3. \A j, k \in 1 .. m : j < k => x[called[j]].m_group <= x[called[k]].m_group
    BY <1>2, <2>1 DEF Frame, GroupsInOrder
  <2>4. ASSUME NEW j \in 1 .. m + 1, NEW k \in 1 .. m + 1, j < k
        PROVE  x[new[j]].m_group <= x[new[k]].m_group
    <3>1. j \in 1 .. m
      BY <2>4
    <3>2. CASE k = m + 1
      BY <1>3, <2>1, <2>2, <3>1, <3>2
    <3>3. CASE k # m + 1
      <4>1. k \in 1 .. m
        BY <3>3
      <4> QED BY <2>2, <2>3, <2>4, <3>1, <4>1
    <3> QED BY <3>2, <3>3
  <2> QED BY <2>2, <2>4 DEF GroupsInOrder
<1>9. \A k \in 1 .. Len(con) : Passed(g, k) <=> Passed(f, k) \/ k = i
  BY <1>1, <1>2, <1>3, <1>5 DEF Passed
<1>10. \A t \in Range(new) : \E k \in 1 .. Len(con) : t = con[k] /\ Passed(g, k)
  <2>1. \A t \in Range(called) : \E k \in 1 .. Len(con) : t = con[k] /\ Passed(f, k)
    BY <1>2 DEF Frame
  <2> QED BY <1>2, <1>3, <1>6, <1>9, <2>1
<1>11. \A k \in 1 .. Len(con) : Passed(g, k) /\ x[con[k]].connected => con[k] \in Range(new)
  <2>1. \A k \in 1 .. Len(con) : Passed(f, k) /\ x[con[k]].connected => con[k] \in Range(called)
    BY <1>2 DEF Frame
  <2> QED BY <1>2, <1>3, <1>6, <1>9, <2>1
<1>12. /\ IsInjective(con) /\ GroupsInOrder(x, con) /\ \A t \in Range(con) : x[t].used
       /\ i \in 1 .. Len(con) + 1 /\ i <= Len(con)
  <2>1. IsInjective(con) /\ GroupsInOrder(x, con) /\ \A t \in Range(con) : x[t].used
    BY <1>2 DEF Frame
  <2>2. Len(con) \in Nat
    BY <1>1, <1>2
  <2> QED BY <1>3, <2>1, <2>2
<1>13. Frame(x, g)
  BY ONLY <1>5, <1>6, <1>8, <1>10, <1>11, <1>12 DEF Frame
<1> QED BY <1>7, <1>13

\* It goes on to the next place, when that slot was called or is not connected.
LEMMA FrameGoesOn ==
  ASSUME NEW f \in Frames, NEW x, Frame(x, f), f.next <= Len(f.conList),
         f.calling \/ ~x[f.conList[f.next]].connected,
         NEW g, g = [f EXCEPT !.calling = FALSE, !.next = f.next + 1]
  PROVE  g \in Frames /\ Frame(x, g)
<1>1. f.conList \in Seq(SlotIDs) /\ f.called \in Seq(SlotIDs) /\ f.next \in Nat
  BY DEF Frames
<1>2. PICK called, i, con : called = f.called /\ i = f.next /\ con = f.conList
  OBVIOUS
<1>3. /\ g.conList = con /\ g.next = i + 1 /\ ~g.calling /\ g.called = called
      /\ g \in Frames
  <2>1. PICK m : m = f.next + 1
    OBVIOUS
  <2>2. m \in Nat /\ m = i + 1
    BY ONLY <1>1, <1>2, <2>1
  <2>3. g = [f EXCEPT !.calling = FALSE, !.next = m]
    BY <2>1
  <2>4. g.conList = f.conList /\ g.next = m /\ ~g.calling /\ g.called = f.called /\ g \in Frames
    BY ONLY <2>2, <2>3, f \in Frames DEF Frames
  <2> QED BY ONLY <1>2, <2>2, <2>4
<1>4. PICK n \in Nat : n = Len(con) /\ i \in 1 .. n
  BY <1>1, <1>2 DEF Frame
<1>5. \A k \in 1 .. n : /\ Passed(g, k) => Passed(f, k) \/ k = i
                        /\ Passed(f, k) => Passed(g, k)
  BY <1>2, <1>3, <1>4 DEF Passed
<1>6. \A t \in Range(called) : \E k \in 1 .. n : t = con[k] /\ Passed(g, k)
  <2>1. \A t \in Range(called) : \E k \in 1 .. n : t = con[k] /\ Passed(f, k)
    BY <1>2, <1>4 DEF Frame
  <2> QED BY <1>5, <2>1
<1>7. \A k \in 1 .. n : Passed(g, k) /\ x[con[k]].connected => con[k] \in Range(called)
  <2>1. \A k \in 1 .. n : Passed(f, k) /\ x[con[k]].connected => con[k] \in Range(called)
    BY <1>2, <1>4 DEF Frame
  <2>2. Passed(f, i) \/ ~x[con[i]].connected
    BY <1>2 DEF Passed
  <2> QED BY <1>5, <2>1, <2>2
<1>8. /\ IsInjective(con) /\ GroupsInOrder(x, con) /\ \A t \in Range(con) : x[t].used
      /\ IsInjective(called) /\ GroupsInOrder(x, called)
  BY <1>2 DEF Frame
<1>9. i + 1 \in 1 .. n + 1
  BY <1>4
<1>10. Frame(x, g)
  BY ONLY <1>3, <1>4, <1>6, <1>7, <1>8, <1>9 DEF Frame
<1> QED BY <1>3, <1>10

\* The dispatches with another innermost one, and without it.
OnTop(s, e) == SubSeq(s, 1, Len(s) - 1) \o <<e>>
Below(s) == SubSeq(s, 1, Len(s) - 1)

\* A list without its last element.
LEMMA TopTaken ==
  ASSUME NEW S, NEW s \in Seq(S), s # <<>>
  PROVE  /\ Len(s) \in Nat \ {0} /\ s[Len(s)] \in S
         /\ Below(s) \in Seq(S) /\ Len(Below(s)) = Len(s) - 1
         /\ \A k \in 1 .. Len(s) - 1 : Below(s)[k] = s[k]
<1>1. PICK n, b : n = Len(s) /\ b = SubSeq(s, 1, n - 1)
  OBVIOUS
<1>2. n \in Nat \ {0} /\ s[n] \in S
  BY <1>1
<1>3. b \in Seq(S) /\ Len(b) = n - 1 /\ \A k \in 1 .. n - 1 : b[k] = s[k]
  BY <1>1, <1>2
<1>4. b = Below(s)
  BY <1>1 DEF Below
<1> QED BY ONLY <1>1, <1>2, <1>3, <1>4

\* A list with another last element.
LEMMA TopReplaced ==
  ASSUME NEW S, NEW s \in Seq(S), s # <<>>, NEW e \in S
  PROVE  /\ OnTop(s, e) \in Seq(S) /\ Len(OnTop(s, e)) = Len(s)
         /\ \A k \in 1 .. Len(s) : OnTop(s, e)[k] = IF k = Len(s) THEN e ELSE s[k]
<1>1. PICK n, b : n = Len(s) /\ b = Below(s)
  OBVIOUS
<1>5. PICK r : r = b \o <<e>>
  OBVIOUS
<1>2. n \in Nat \ {0} /\ b \in Seq(S) /\ Len(b) = n - 1 /\ \A k \in 1 .. n - 1 : b[k] = s[k]
  BY <1>1, TopTaken
<1>3. r \in Seq(S) /\ Len(r) = n /\ \A k \in 1 .. n : r[k] = IF k <= n - 1 THEN b[k] ELSE e
  BY ONLY <1>2, <1>5, e \in S
<1>4. \A k \in 1 .. n : r[k] = IF k = n THEN e ELSE s[k]
  BY <1>2, <1>3
<1>6. r = OnTop(s, e)
  BY <1>1, <1>5 DEF OnTop, Below
<1> QED BY ONLY <1>1, <1>3, <1>4, <1>6

\* What the innermost dispatch does leaves the events and the others alone.
LEMMA DispatchKeepsInv ==
  ASSUME EventInv, UNCHANGED <<m_events, m_eventSlots, m_muted, slot>>,
         firing' \in Seq(Frames), Len(firing') <= MaxNested,
         \A k \in 1 .. Len(firing') : Frame(slot, firing'[k])
  PROVE  EventInv'
<1>1. EventTypes' /\ EventLists'
  BY DEF EventInv, EventTypes, EventLists
<1>2. EventFrames'
  BY DEF EventFrames
<1> QED BY <1>1, <1>2 DEF EventInv

\* FireEvent begins a dispatch with a copy of the event's slots.
LEMMA FireKeepsInv ==
  ASSUME EventInv, NEW n \in EventNames, Events!FireEvent(n)
  PROVE  EventInv'
<1>1. PICK f : f = [conList |-> m_eventSlots[n], next |-> 1, calling |-> FALSE, called |-> <<>>]
  OBVIOUS
<1>2. /\ firing' = Append(firing, f) /\ Len(firing) < MaxNested
      /\ UNCHANGED <<m_events, m_eventSlots, m_muted, slot>>
  BY <1>1 DEF Events!FireEvent
<1>3. PICK con : con = m_eventSlots[n] /\ con \in Seq(SlotIDs)
  BY DEF EventInv, EventTypes
<1>4. f.conList = con /\ f.next = 1 /\ ~f.calling /\ f.called = <<>> /\ f \in Frames
  BY ONLY <1>1, <1>3 DEF Frames
<1>5. Range(<<>>) = {}
  BY DEF Range
<1>6. Frame(slot, f)
  <2>1. IsInjective(con) /\ GroupsInOrder(slot, con)
    BY <1>3 DEF EventInv, EventLists
  <2>2. IsInjective(<<>>) /\ GroupsInOrder(slot, <<>>)
    BY DEF IsInjective, GroupsInOrder
  <2>3. \A t \in Range(con) : slot[t].used
    <3>1. SUFFICES ASSUME NEW t \in Range(con) PROVE slot[t].used
      OBVIOUS
    <3>2. t \in SlotIDs
      BY <1>3 DEF Range
    <3>3. slot[t].m_event = n
      BY <1>3, <3>2 DEF EventInv, EventLists
    <3>4. n # NoEvent
      BY EventAssumption DEF EventAssumption
    <3> QED BY <3>2, <3>3, <3>4 DEF EventInv, EventLists
  <2>4. \A i \in 1 .. Len(con) : ~Passed(f, i)
    BY <1>3, <1>4 DEF Passed
  <2>5. 1 \in 1 .. Len(con) + 1
    BY <1>3
  <2> QED BY ONLY <1>4, <1>5, <2>1, <2>2, <2>3, <2>4, <2>5 DEF Frame
<1>7. firing \in Seq(Frames) /\ \A k \in 1 .. Len(firing) : Frame(slot, firing[k])
  BY DEF EventInv, EventTypes, EventFrames
<1>8. firing' \in Seq(Frames) /\ Len(firing') = Len(firing) + 1
  BY <1>2, <1>4, <1>7
<1>9. \A k \in 1 .. Len(firing') : Frame(slot, firing'[k])
  <2>1. \A k \in 1 .. Len(firing) + 1 : firing'[k] = IF k = Len(firing) + 1 THEN f ELSE firing[k]
    BY <1>2, <1>4, <1>7
  <2> QED BY <1>6, <1>7, <1>8, <2>1
<1>10. Len(firing') <= MaxNested
  BY <1>2, <1>7, <1>8, EventAssumption DEF EventAssumption
<1> QED BY <1>2, <1>8, <1>9, <1>10, DispatchKeepsInv

\* The innermost dispatch is one of them.
LEMMA TopFrame ==
  ASSUME EventInv, firing # <<>>
  PROVE  /\ Events!Top \in Frames /\ Frame(slot, Events!Top)
         /\ \A e : Events!WithTop(e) = OnTop(firing, e)
         /\ Events!Outer = Below(firing)
<1>1. firing \in Seq(Frames) /\ \A k \in 1 .. Len(firing) : Frame(slot, firing[k])
  BY DEF EventInv, EventTypes, EventFrames
<1>2. Len(firing) \in 1 .. Len(firing) /\ firing[Len(firing)] \in Frames
  BY <1>1
<1>3. Events!Top = firing[Len(firing)]
  BY DEF Events!Top
<1> QED BY <1>1, <1>2, <1>3 DEF Events!WithTop, Events!Outer, OnTop, Below

\* The innermost dispatch goes on.
LEMMA ReplaceKeepsInv ==
  ASSUME EventInv, firing # <<>>, NEW e \in Frames, Frame(slot, e),
         firing' = Events!WithTop(e),
         UNCHANGED <<m_events, m_eventSlots, m_muted, slot>>
  PROVE  EventInv'
<1>1. /\ firing \in Seq(Frames) /\ Len(firing) <= MaxNested
      /\ \A k \in 1 .. Len(firing) : Frame(slot, firing[k])
  BY DEF EventInv, EventTypes, EventFrames
<1>2. firing' = OnTop(firing, e)
  BY TopFrame
<1>3. /\ firing' \in Seq(Frames) /\ Len(firing') = Len(firing)
      /\ \A k \in 1 .. Len(firing) : firing'[k] = IF k = Len(firing) THEN e ELSE firing[k]
  <2>1. PICK q : q = firing
    OBVIOUS
  <2>2. q \in Seq(Frames) /\ q # <<>>
    BY <1>1, <2>1
  <2>3. /\ OnTop(q, e) \in Seq(Frames) /\ Len(OnTop(q, e)) = Len(q)
        /\ \A k \in 1 .. Len(q) : OnTop(q, e)[k] = IF k = Len(q) THEN e ELSE q[k]
    BY ONLY <2>2, e \in Frames, TopReplaced
  <2> QED BY ONLY <1>2, <2>1, <2>3
<1>4. \A k \in 1 .. Len(firing') : Frame(slot, firing'[k])
  BY <1>1, <1>3
<1> QED BY <1>1, <1>3, <1>4, DispatchKeepsInv

\* The innermost dispatch ends.
LEMMA EndKeepsInv ==
  ASSUME EventInv, firing # <<>>, firing' = Events!Outer,
         UNCHANGED <<m_events, m_eventSlots, m_muted, slot>>
  PROVE  EventInv'
<1>1. /\ firing \in Seq(Frames) /\ Len(firing) <= MaxNested
      /\ \A k \in 1 .. Len(firing) : Frame(slot, firing[k])
  BY DEF EventInv, EventTypes, EventFrames
<1>2. firing' = Below(firing)
  BY TopFrame
<1>3. /\ firing' \in Seq(Frames) /\ Len(firing') = Len(firing) - 1 /\ Len(firing) \in Nat \ {0}
      /\ \A k \in 1 .. Len(firing) - 1 : firing'[k] = firing[k]
  BY ONLY <1>1, <1>2, firing # <<>>, TopTaken
<1>4. \A k \in 1 .. Len(firing') : Frame(slot, firing'[k])
  BY <1>1, <1>3
<1>5. Len(firing') <= MaxNested
  BY <1>1, <1>3, EventAssumption DEF EventAssumption
<1> QED BY <1>3, <1>4, <1>5, DispatchKeepsInv

\* The next slot is called, or passed over when it is not connected.
LEMMA CallSlotKeepsInv ==
  ASSUME EventInv, Events!CallSlot
  PROVE  EventInv'
<1>1. PICK f : f = Events!Top
  OBVIOUS
<1>2. /\ firing # <<>> /\ ~f.calling /\ f.next <= Len(f.conList)
      /\ UNCHANGED <<m_events, m_eventSlots, m_muted, slot>>
      /\ firing' = Events!WithTop(IF slot[f.conList[f.next]].connected
           THEN [f EXCEPT !.calling = TRUE, !.called = Append(f.called, f.conList[f.next])]
           ELSE [f EXCEPT !.next = f.next + 1])
  BY <1>1 DEF Events!CallSlot, Events!IsCalled
<1>3. f \in Frames /\ Frame(slot, f)
  BY <1>1, <1>2, TopFrame
<1>4. CASE slot[f.conList[f.next]].connected
  <2>1. PICK g : g = [f EXCEPT !.calling = TRUE, !.called = Append(f.called, f.conList[f.next])]
    OBVIOUS
  <2>2. g \in Frames /\ Frame(slot, g)
    BY <1>2, <1>3, <2>1, FrameCalls
  <2>3. firing' = Events!WithTop(g)
    BY <1>2, <1>4, <2>1
  <2> QED BY <1>2, <2>2, <2>3, ReplaceKeepsInv
<1>5. CASE ~slot[f.conList[f.next]].connected
  <2>1. PICK g : g = [f EXCEPT !.calling = FALSE, !.next = f.next + 1]
    BY SMTT(30)
  <2>2. g \in Frames /\ Frame(slot, g)
    BY <1>2, <1>3, <1>5, <2>1, FrameGoesOn
  <2>3. g = [f EXCEPT !.next = f.next + 1]
    BY ONLY <1>2, <1>3, <2>1 DEF Frames
  <2>4. firing' = Events!WithTop(g)
    BY <1>2, <1>5, <2>3
  <2> QED BY <1>2, <2>2, <2>4, ReplaceKeepsInv
<1> QED BY <1>4, <1>5

\* The slot returns and the dispatch goes on, or ends.
LEMMA SlotReturnsKeepsInv ==
  ASSUME EventInv, NEW bFire \in BOOLEAN, Events!SlotReturns(bFire)
  PROVE  EventInv'
<1>1. PICK f : f = Events!Top
  OBVIOUS
<1>2. /\ firing # <<>> /\ f.calling
      /\ UNCHANGED <<m_events, m_eventSlots, m_muted, slot>>
      /\ firing' = IF bFire THEN Events!WithTop([f EXCEPT !.calling = FALSE, !.next = f.next + 1])
                   ELSE Events!Outer
  BY <1>1 DEF Events!SlotReturns
<1>3. f \in Frames /\ Frame(slot, f)
  BY <1>1, <1>2, TopFrame
<1>4. CASE bFire
  <2>1. PICK g : g = [f EXCEPT !.calling = FALSE, !.next = f.next + 1]
    OBVIOUS
  <2>2. f.next <= Len(f.conList)
    BY <1>2, <1>3, SMTT(30) DEF Frame
  <2>3. g \in Frames /\ Frame(slot, g)
    BY <1>2, <1>3, <2>1, <2>2, FrameGoesOn
  <2>4. firing' = Events!WithTop(g)
    BY <1>2, <1>4, <2>1
  <2> QED BY <1>2, <2>3, <2>4, ReplaceKeepsInv
<1>5. CASE ~bFire
  <2>1. firing' = Events!Outer
    BY <1>2, <1>5
  <2> QED BY <1>2, <2>1, EndKeepsInv
<1> QED BY <1>4, <1>5

\* Each operation on the events, and each step of a dispatch, keeps the invariant.
LEMMA EventStepKeepsInv ==
  ASSUME EventInv, Events!EventNext \/ UNCHANGED eventVars
  PROVE  EventInv'
<1>1. ASSUME NEW n \in EventNames, Events!AddEvent(n) PROVE EventInv'
  BY <1>1, AddEventKeepsInv
<1>2. ASSUME NEW n \in EventNames, Events!RemoveEvent(n) PROVE EventInv'
  <2>1. Events!RemoveEvents({n}) /\ {n} \subseteq EventNames
    BY <1>2 DEF Events!RemoveEvent
  <2> QED BY <2>1, RemoveEventsKeepsInv
<1>3. ASSUME NEW n \in EventNames, Events!FireEvent(n) PROVE EventInv'
  BY <1>3, FireKeepsInv
<1>4. CASE Events!RemoveAllEvents
  <2>1. Events!RemoveEvents(m_events) /\ m_events \subseteq EventNames
    BY <1>4 DEF Events!RemoveAllEvents, EventInv, EventTypes
  <2> QED BY <2>1, RemoveEventsKeepsInv
<1>5. ASSUME NEW n \in EventNames, NEW s \in SlotIDs, NEW g \in EventGroups,
             Events!SubscribeEvent(n, s, g)
      PROVE  EventInv'
  BY <1>5, SubscribeKeepsInv
<1>6. ASSUME NEW s \in SlotIDs, Events!Disconnect(s) PROVE EventInv'
  BY <1>6, DisconnectKeepsInv
<1>7. ASSUME NEW setting \in BOOLEAN, Events!SetMutedState(setting) PROVE EventInv'
  BY <1>7, SetMutedKeepsInv
<1>8. ASSUME NEW setting \in BOOLEAN, Events!SlotReturns(setting) PROVE EventInv'
  BY <1>8, SlotReturnsKeepsInv
<1>9. CASE Events!CallSlot
  BY <1>9, CallSlotKeepsInv
<1>10. CASE Events!DispatchEnds
  <2>1. /\ firing # <<>> /\ firing' = Events!Outer
        /\ UNCHANGED <<m_events, m_eventSlots, m_muted, slot>>
    BY <1>10 DEF Events!DispatchEnds
  <2> QED BY <2>1, EndKeepsInv
<1>11. CASE UNCHANGED eventVars
  <2>1. UNCHANGED <<m_events, m_eventSlots, m_muted, slot>> /\ firing' = firing
    BY <1>11 DEF eventVars
  <2>2. firing' \in Seq(Frames) /\ Len(firing') <= MaxNested
        /\ \A k \in 1 .. Len(firing') : Frame(slot, firing'[k])
    BY <2>1 DEF EventInv, EventTypes, EventFrames
  <2> QED BY <2>1, <2>2, DispatchKeepsInv
<1> QED BY <1>1, <1>2, <1>3, <1>4, <1>5, <1>6, <1>7, <1>8, <1>9, <1>10, <1>11 DEF Events!EventNext

\* What the events promise, from the invariant.
LEMMA EventsInOrder ==
  ASSUME EventInv
  PROVE  Events!EventTypeOK /\ Events!SlotsAndEvents
<1>1. Events!EventTypeOK
  BY DEF EventInv, EventTypes, SlotType, Events!EventTypeOK
<1>2. ASSUME NEW n \in EventNames
      PROVE  /\ m_eventSlots[n] # <<>> => n \in m_events
             /\ Events!IsInjective(m_eventSlots[n])
             /\ \A i, j \in DOMAIN m_eventSlots[n] : i < j =>
                  slot[m_eventSlots[n][i]].m_group <= slot[m_eventSlots[n][j]].m_group
  BY EventLibrary DEF EventInv, EventLists, GroupsInOrder
<1>3. ASSUME NEW s \in SlotIDs
      PROVE  /\ \A n \in EventNames : slot[s].m_event = n <=> s \in Events!Range(m_eventSlots[n])
             /\ slot[s].connected <=> slot[s].m_event # NoEvent
  BY EventLibrary DEF EventInv, EventLists
<1>4. ASSUME NEW f \in Events!Range(firing)
      PROVE  /\ Events!IsInjective(f.called)
             /\ \A i, j \in DOMAIN f.called : i < j =>
                  slot[f.called[i]].m_group <= slot[f.called[j]].m_group
             /\ \A i \in 1 .. f.next - 1 : slot[f.conList[i]].connected =>
                  f.conList[i] \in Events!Range(f.called)
  <2>1. f \in Frames /\ Frame(slot, f)
    <3>1. f \in Range(firing)
      BY EventLibrary
    <3>2. firing \in Seq(Frames) /\ \A k \in 1 .. Len(firing) : Frame(slot, firing[k])
      BY DEF EventInv, EventTypes, EventFrames
    <3> QED BY <3>1, <3>2 DEF Range
  <2>2. f.conList \in Seq(SlotIDs) /\ f.next \in 1 .. Len(f.conList) + 1
    BY <2>1 DEF Frames, Frame
  <2>3. \A i \in 1 .. f.next - 1 : i \in 1 .. Len(f.conList) /\ Passed(f, i)
    BY <2>2 DEF Passed
  <2>4. IsInjective(f.called) /\ GroupsInOrder(slot, f.called)
    BY <2>1 DEF Frame
  <2>5. \A i \in 1 .. f.next - 1 : slot[f.conList[i]].connected => f.conList[i] \in Range(f.called)
    BY <2>1, <2>3 DEF Frame
  <2> QED BY <2>4, <2>5, EventLibrary DEF GroupsInOrder
<1> QED BY <1>1, <1>2, <1>3, <1>4 DEF Events!SlotsAndEvents

-----------------------------------------------------------------------------
(***************************************************************************)
(* Who watches whom.                                                       *)
(***************************************************************************)
WatchInv ==
  /\ Watch!WatchTypeOK /\ Watch!WatchersWanted
  /\ wants \subseteq CharIDs \X CharIDs

\* At the start nobody watches anybody.
LEMMA WatchStarts ==
  ASSUME Watch!WatchInit
  PROVE  WatchInv
BY DEF Watch!WatchInit, WatchInv, Watch!WatchTypeOK, Watch!WatchersWanted, Watch!dispatchEvent

\* Every step keeps the watchers of a player those who want it: watch finds the
\* one who is there already in his own list, and offline all who are not.
LEMMA WatchStepKeepsInv ==
  ASSUME WatchInv, Watch!WatchNext \/ UNCHANGED watchVars
  PROVE  WatchInv'
<1>1. /\ m_event_list \in [CharIDs -> SUBSET CharIDs]
      /\ m_watch_list \in [CharIDs -> SUBSET CharIDs]
      /\ \A c, d \in CharIDs : c \in m_event_list[d] <=> <<c, d>> \in wants
      /\ \A c, d \in CharIDs : <<c, d>> \in wants => d \in m_watch_list[c]
      /\ \A w \in wants : w = <<w[1], w[2]>> /\ w[1] \in CharIDs /\ w[2] \in CharIDs
  BY DEF WatchInv, Watch!WatchTypeOK, Watch!WatchersWanted, Watch!dispatchEvent
<1>2. ASSUME /\ m_event_list' \in [CharIDs -> SUBSET CharIDs]
             /\ m_watch_list' \in [CharIDs -> SUBSET CharIDs]
             /\ \A c, d \in CharIDs : c \in m_event_list'[d] <=> <<c, d>> \in wants'
             /\ \A c, d \in CharIDs : <<c, d>> \in wants' => d \in m_watch_list'[c]
             /\ \A w \in wants' : w = <<w[1], w[2]>> /\ w[1] \in CharIDs /\ w[2] \in CharIDs
      PROVE  WatchInv'
  <2>1. wants' \subseteq CharIDs \X CharIDs
    BY <1>2
  <2>2. \A w \in wants' : w[2] \in m_watch_list'[w[1]]
    BY <1>2
  <2> QED BY <1>2, <2>1, <2>2
             DEF WatchInv, Watch!WatchTypeOK, Watch!WatchersWanted, Watch!dispatchEvent
<1>3. ASSUME NEW s \in CharIDs, NEW t \in CharIDs, Watch!watch(s, t)
      PROVE  WatchInv'
  <2>1. /\ m_event_list' = [m_event_list EXCEPT ![t] = @ \cup {s}]
        /\ m_watch_list' = IF s \in m_event_list[t] THEN m_watch_list
                           ELSE [m_watch_list EXCEPT ![s] = @ \cup {t}]
        /\ wants' = wants \cup {<<s, t>>}
    BY <1>3 DEF Watch!watch
  <2>2. \A c, d \in CharIDs : <<c, d>> \in wants' <=> <<c, d>> \in wants \/ (c = s /\ d = t)
    BY <2>1
  <2>3. /\ m_event_list' \in [CharIDs -> SUBSET CharIDs]
        /\ \A c, d \in CharIDs : c \in m_event_list'[d] <=> <<c, d>> \in wants'
    BY <1>1, <2>1, <2>2
  <2>4. /\ m_watch_list' \in [CharIDs -> SUBSET CharIDs]
        /\ \A c, d \in CharIDs : <<c, d>> \in wants' => d \in m_watch_list'[c]
    BY <1>1, <2>1, <2>2
  <2>5. \A w \in wants' : w = <<w[1], w[2]>> /\ w[1] \in CharIDs /\ w[2] \in CharIDs
    BY <1>1, <2>1
  <2> QED BY <1>2, <2>3, <2>4, <2>5
<1>4. ASSUME NEW s \in CharIDs, NEW t \in CharIDs, Watch!cancelWatch(s, t)
      PROVE  WatchInv'
  <2>1. /\ m_event_list' = [m_event_list EXCEPT ![t] = @ \ {s}]
        /\ m_watch_list' = m_watch_list
        /\ wants' = wants \ {<<s, t>>}
    BY <1>4 DEF Watch!cancelWatch
  <2>2. \A c, d \in CharIDs : <<c, d>> \in wants' <=> <<c, d>> \in wants /\ ~(c = s /\ d = t)
    BY <2>1
  <2> QED BY <1>1, <1>2, <2>1, <2>2
<1>5. ASSUME NEW s \in CharIDs, Watch!offline(s)
      PROVE  WatchInv'
  <2>1. /\ m_event_list' = [t \in CharIDs |->
             IF t \in m_watch_list[s] THEN m_event_list[t] \ {s} ELSE m_event_list[t]]
        /\ m_watch_list' = [m_watch_list EXCEPT ![s] = {}]
        /\ wants' = {w \in wants : w[1] # s}
    BY <1>5 DEF Watch!offline, Watch!Unwatched
  <2>2. \A c, d \in CharIDs : <<c, d>> \in wants' <=> <<c, d>> \in wants /\ c # s
    BY <2>1
  <2>3. \A c, d \in CharIDs : c \in m_event_list'[d] <=> <<c, d>> \in wants'
    BY <1>1, <2>1, <2>2
  <2>4. m_event_list' \in [CharIDs -> SUBSET CharIDs]
    BY <1>1, <2>1
  <2>5. /\ m_watch_list' \in [CharIDs -> SUBSET CharIDs]
        /\ \A c, d \in CharIDs : <<c, d>> \in wants' => d \in m_watch_list'[c]
    BY <1>1, <2>1, <2>2
  <2>6. \A w \in wants' : w = <<w[1], w[2]>> /\ w[1] \in CharIDs /\ w[2] \in CharIDs
    BY <1>1, <2>1
  <2> QED BY <1>2, <2>3, <2>4, <2>5, <2>6
<1>6. CASE UNCHANGED watchVars
  BY <1>1, <1>2, <1>6 DEF watchVars
<1> QED BY <1>3, <1>4, <1>5, <1>6 DEF Watch!WatchNext

-----------------------------------------------------------------------------
(***************************************************************************)
(* The timers of CommBase.                                                 *)
(***************************************************************************)

Single == part = "single timers"

\* A timer object, of any kind.
TimerObjects ==
  [type : Wheel!Types \cup {"none"}, interval : Int, due : Int, seen : Int,
   m_elapseRound : Int, m_round : Int, m_delflag : BOOLEAN]

WheelTypes ==
  /\ m_slots \in [Wheel!Slots -> SUBSET Timers]
  /\ m_currSlot \in Wheel!Slots /\ curslot \in Wheel!Slots
  /\ timer \in [Timers -> TimerObjects] /\ fired \in [Timers -> BOOLEAN]
  /\ stage \in {"sleep", "visit", "fire", "attach"}
  /\ timeoutAll \subseteq Timers /\ toErase \subseteq Timers /\ reset \subseteq Timers
  /\ m_timeout \subseteq Timers /\ taken \subseteq Timers /\ raced \subseteq Timers
  /\ overdue \in 0 .. MaxLate

\* Between the tick and the sleep m_currSlot is one further than the visit; a
\* timer that is looked at is in the slot, and will stay or leave it.
WheelStages ==
  /\ stage # "sleep" => m_currSlot = (curslot + 1) % SLOT_COUNT
  /\ stage # "fire" => timeoutAll = {} /\ toErase = {}
  /\ timeoutAll \subseteq m_slots[curslot] \ toErase
  /\ IF Single THEN stage \in {"sleep", "visit"} ELSE m_timeout = {} /\ taken = {}
  /\ ~Single /\ reset # {} => stage \in {"fire", "attach"}

\* A timer is in slot s, and not only until the slot is cleared.
InSlot(t, s) == t \in m_slots[s] /\ ~(s = curslot /\ t \in toErase)

WithThread(t) == t \in reset \/ t \in m_timeout \/ t \in taken
Placed(t) == WithThread(t) \/ \E s \in Wheel!Slots : InSlot(t, s)

\* A timer has one place at most; it is in one if it is due, and a once timer
\* that is in one has not been called back.
OnePlace(t) ==
  /\ \A r, s \in Wheel!Slots : InSlot(t, r) /\ InSlot(t, s) => r = s
  /\ (\E s \in Wheel!Slots : InSlot(t, s)) => ~WithThread(t)
  /\ t \in reset => t \notin m_timeout /\ t \notin taken
  /\ t \in m_timeout => t \notin taken
  /\ t \in reset => Wheel!Loops(t)
  /\ Placed(t) \/ t \in toErase => Wheel!Registered(t)
  /\ Placed(t) /\ ~Wheel!Loops(t) => ~fired[t]
  /\ ~Wheel!Registered(t) => ~fired[t]
  /\ Wheel!Due(t) => Placed(t)

\* Ticks until slot s is visited when m is the next one, and those until the
\* visit of timer t in it; the visit under way is not over for t.
TicksFrom(m, s) == IF s < m THEN s - m + SLOT_COUNT + 1 ELSE s - m + 1
TicksLeft(t, s) == IF s = curslot /\ (stage = "visit" \/ t \in timeoutAll)
                   THEN 0 ELSE TicksFrom(m_currSlot, s)

Slack == IF Single THEN 2 * SLOT_CHANGE_TIME ELSE SLOT_CHANGE_TIME

\* A timer that is visited after d ticks, of which the next is o late by now, is
\* called back at most b before its time.  One that was visited has lost the time that was seen to pass beyond
\* its rounds, and will be no nearer to its time for it.
Timely(x, d, b, o) ==
  /\ x.m_round >= 1
  /\ IF x.seen = Wheel!NotSeen
     THEN x.due < d * SLOT_CHANGE_TIME + (x.m_round - 1) * Wheel!Round + b
                    + (IF d = 0 THEN 0 ELSE o)
     ELSE /\ x.seen >= 0
          /\ x.due + x.seen < (x.m_elapseRound + x.m_round - 1) * Wheel!Round + b
          /\ x.seen + d * SLOT_CHANGE_TIME >= x.m_elapseRound * Wheel!Round

\* A timer counts if it is armed or about to be looked at.
Matters(t) == (~timer[t].m_delflag \/ t \in timeoutAll) /\ t \notin raced

WheelTimes ==
  /\ \A s \in Wheel!Slots : \A t \in Timers :
       InSlot(t, s) /\ Matters(t) => Timely(timer[t], TicksLeft(t, s), Slack, overdue)
  /\ \A t \in m_timeout \cup taken : Matters(t) => timer[t].due < Slack
  /\ early = {}

WheelInv == WheelTypes /\ WheelStages /\ (\A t \in Timers : OnePlace(t)) /\ WheelTimes

-----------------------------------------------------------------------------
\* Division.
LEMMA DivMod ==
  ASSUME NEW a \in Int, NEW b \in Nat \ {0}
  PROVE  /\ a % b \in 0 .. b - 1 /\ a \div b \in Int /\ a = b * (a \div b) + (a % b)
         /\ a \in Nat => a \div b \in Nat
OBVIOUS

LEMMA ModOf ==
  ASSUME NEW b \in Nat \ {0}, NEW q \in Int, NEW r \in 0 .. b - 1
  PROVE  (b * q + r) % b = r
OBVIOUS

\* Which period a tick is in.
LEMMA DivOf ==
  ASSUME NEW b \in Nat \ {0}, NEW q \in Int, NEW r \in 0 .. b - 1
  PROVE  (b * q + r) \div b = q
OBVIOUS

LEMMA LaterPeriod ==
  ASSUME NEW a \in Int, NEW e \in Int, a <= e, NEW b \in Nat \ {0}
  PROVE  a \div b <= e \div b
<1>1. PICK p, q, r, s : p = a \div b /\ q = e \div b /\ r = a % b /\ s = e % b
  OBVIOUS
<1>2. /\ p \in Int /\ q \in Int /\ r \in 0 .. b - 1 /\ s \in 0 .. b - 1
      /\ a = b * p + r /\ e = b * q + s
  BY ONLY <1>1, a \in Int, e \in Int, b \in Nat \ {0}, DivMod
<1>3. SUFFICES ASSUME q + 1 <= p PROVE FALSE
  BY <1>1, <1>2
<1>4. b * (q + 1) <= b * p /\ b * (q + 1) = b * q + b
  BY ONLY <1>2, <1>3, b \in Nat \ {0}
<1>5. PICK f, g : f = b * p /\ g = b * q
  OBVIOUS
<1>6. f \in Int /\ g \in Int
  BY ONLY <1>2, <1>5, b \in Nat \ {0}
<1> QED BY ONLY <1>2, <1>4, <1>5, <1>6, a <= e, b \in Nat \ {0}

LEMMA NextPeriod ==
  ASSUME NEW a \in Int, NEW b \in Nat \ {0}
  PROVE  (a + 1) \div b = IF a % b = b - 1 THEN (a \div b) + 1 ELSE a \div b
<1>1. PICK p, r : p = a \div b /\ r = a % b
  OBVIOUS
<1>2. p \in Int /\ r \in 0 .. b - 1 /\ a = b * p + r
  BY ONLY <1>1, a \in Int, b \in Nat \ {0}, DivMod
<1>3. CASE r = b - 1
  <2>1. a + 1 = b * (p + 1) + 0 /\ p + 1 \in Int /\ 0 \in 0 .. b - 1
    BY ONLY <1>2, <1>3, b \in Nat \ {0}
  <2>2. (b * (p + 1) + 0) \div b = p + 1
    BY ONLY <2>1, b \in Nat \ {0}, DivOf
  <2> QED BY <1>1, <1>3, <2>1, <2>2
<1>4. CASE r # b - 1
  <2>1. a + 1 = b * p + (r + 1) /\ r + 1 \in 0 .. b - 1
    BY ONLY <1>2, <1>4, b \in Nat \ {0}
  <2>2. (b * p + (r + 1)) \div b = p
    BY ONLY <1>2, <2>1, b \in Nat \ {0}, DivOf
  <2> QED BY <1>1, <1>4, <2>1, <2>2
<1> QED BY <1>3, <1>4

\* A slot that is n ticks ahead.
LEMMA SlotAhead ==
  ASSUME NEW m \in Wheel!Slots, NEW n \in Nat, NEW s, s = (m + n) % SLOT_COUNT
  PROVE  s \in Wheel!Slots /\ TicksFrom(m, s) = (n % SLOT_COUNT) + 1
<1>1. PICK c \in Nat \ {0} : c = SLOT_COUNT
  BY WheelAssumption
<1>2. PICK q, r : q = n \div c /\ r = n % c
  OBVIOUS
<1>3. q \in Int /\ r \in 0 .. c - 1 /\ n = c * q + r
  BY ONLY <1>1, <1>2, n \in Nat, DivMod
<1>4. m \in 0 .. c - 1
  BY <1>1 DEF Wheel!Slots
<1>5. s = IF m + r < c THEN m + r ELSE m + r - c
  <2>1. CASE m + r < c
    <3>1. m + n = c * q + (m + r) /\ m + r \in 0 .. c - 1
      BY ONLY <1>1, <1>3, <1>4, <2>1
    <3> QED BY <1>1, <1>3, <2>1, <3>1, ModOf
  <2>2. CASE ~(m + r < c)
    <3>1. m + n = c * (q + 1) + (m + r - c) /\ m + r - c \in 0 .. c - 1 /\ q + 1 \in Int
      BY ONLY <1>1, <1>3, <1>4, <2>2
    <3> QED BY <1>1, <2>2, <3>1, ModOf
  <2> QED BY <2>1, <2>2
<1> QED BY <1>1, <1>2, <1>3, <1>4, <1>5 DEF Wheel!Slots, TicksFrom

\* At a tick each slot is nearer by one, but for the one that is visited.
LEMMA SlotsNearer ==
  ASSUME NEW m \in Wheel!Slots, NEW k, k = (m + 1) % SLOT_COUNT
  PROVE  /\ k \in Wheel!Slots /\ TicksFrom(m, m) = 1 /\ TicksFrom(k, m) = SLOT_COUNT
         /\ \A s \in Wheel!Slots : /\ TicksFrom(m, s) \in 1 .. SLOT_COUNT
                                   /\ s # m => TicksFrom(k, s) = TicksFrom(m, s) - 1
<1>1. PICK c \in Nat \ {0} : c = SLOT_COUNT
  BY WheelAssumption
<1>2. m \in 0 .. c - 1
  BY <1>1 DEF Wheel!Slots
<1>3. k = IF m = c - 1 THEN 0 ELSE m + 1
  <2>1. CASE m = c - 1
    <3>1. m + 1 = c * 1 + 0 /\ 0 \in 0 .. c - 1
      BY ONLY <1>1, <1>2, <2>1
    <3>2. (c * 1 + 0) % c = 0
      BY ONLY <1>1, <3>1, ModOf
    <3> QED BY <1>1, <2>1, <3>1, <3>2
  <2>2. CASE m # c - 1
    <3>1. m + 1 = c * 0 + (m + 1) /\ m + 1 \in 0 .. c - 1
      BY ONLY <1>1, <1>2, <2>2
    <3>2. (c * 0 + (m + 1)) % c = m + 1
      BY ONLY <1>1, <3>1, ModOf
    <3> QED BY <1>1, <2>2, <3>1, <3>2
  <2> QED BY <2>1, <2>2
<1> QED BY <1>1, <1>2, <1>3 DEF Wheel!Slots, TicksFrom

\* The slot that is j slots back from the one visited.
LEMMA SlotBack ==
  ASSUME NEW s \in Wheel!Slots, NEW j \in 0 .. SLOT_COUNT - 1,
         NEW r, r = (s - j) % SLOT_COUNT, NEW k, k = (s + 1) % SLOT_COUNT
  PROVE  /\ r \in Wheel!Slots /\ TicksFrom(k, r) = SLOT_COUNT - j /\ (r = s <=> j = 0)
<1>1. PICK c \in Nat \ {0} : c = SLOT_COUNT
  BY WheelAssumption
<1>2. s \in 0 .. c - 1 /\ j \in 0 .. c - 1
  BY <1>1 DEF Wheel!Slots
<1>3. r = IF s < j THEN s - j + c ELSE s - j
  <2>1. CASE s < j
    <3>1. s - j = c * (-1) + (s - j + c) /\ s - j + c \in 0 .. c - 1 /\ -1 \in Int
      BY ONLY <1>1, <1>2, <2>1
    <3> QED BY <1>1, <2>1, <3>1, ModOf
  <2>2. CASE ~(s < j)
    <3>1. s - j = c * 0 + (s - j) /\ s - j \in 0 .. c - 1
      BY ONLY <1>1, <1>2, <2>2
    <3> QED BY <1>1, <2>2, <3>1, ModOf
  <2> QED BY <2>1, <2>2
<1>4. k = IF s = c - 1 THEN 0 ELSE s + 1
  <2>1. s # c - 1 => TicksFrom(s, s) = 1
    BY <1>2 DEF TicksFrom
  <2>2. k \in Wheel!Slots /\ TicksFrom(k, s) = c
    BY <1>1, SlotsNearer
  <2> QED BY <1>1, <1>2, <2>2 DEF Wheel!Slots, TicksFrom
<1> QED BY <1>1, <1>2, <1>3, <1>4 DEF Wheel!Slots, TicksFrom

\* A timer object when time has passed, and after a visit.
Later(x, d, n) == [x EXCEPT !.due = d, !.seen = n]
After(x, n, e) == [[x EXCEPT !.m_round = @ - 1] EXCEPT !.seen = n, !.m_elapseRound = e]

LEMMA LaterIs ==
  ASSUME NEW x \in TimerObjects, NEW d \in Int, NEW n \in Int, NEW y, y = Later(x, d, n)
  PROVE  /\ y \in TimerObjects /\ y.due = d /\ y.seen = n
         /\ y.m_elapseRound = x.m_elapseRound /\ y.m_round = x.m_round
         /\ y.type = x.type /\ y.m_delflag = x.m_delflag
BY DEF TimerObjects, Later

LEMMA AfterIs ==
  ASSUME NEW x \in TimerObjects, NEW n \in Int, NEW e \in Int, NEW y, y = After(x, n, e)
  PROVE  /\ y \in TimerObjects /\ y.due = x.due /\ y.seen = n
         /\ y.m_elapseRound = e /\ y.m_round = x.m_round - 1
         /\ y.type = x.type /\ y.m_delflag = x.m_delflag
<1>1. PICK z : z = [x EXCEPT !.m_round = @ - 1]
  OBVIOUS
<1>2. z \in TimerObjects /\ z.m_round = x.m_round - 1 /\ z.due = x.due /\ z.type = x.type
      /\ z.m_delflag = x.m_delflag
  BY <1>1 DEF TimerObjects
<1>3. y = [z EXCEPT !.seen = n, !.m_elapseRound = e]
  BY <1>1 DEF After
<1> QED BY <1>2, <1>3 DEF TimerObjects

\* A timer object that is registered, or put into a slot again.
New(type, v, d, m) ==
  [Wheel!NewTimer EXCEPT !.type = type, !.interval = v, !.due = d, !.m_round = m]
Again(x, v, d, m) ==
  [x EXCEPT !.due = d, !.interval = v, !.seen = Wheel!NotSeen, !.m_elapseRound = 0, !.m_round = m]

LEMMA NewIs ==
  ASSUME NEW type \in Wheel!Types, NEW v \in Int, NEW d \in Int, NEW m \in Int, NEW y,
         y = New(type, v, d, m)
  PROVE  /\ y \in TimerObjects /\ y.type = type /\ ~y.m_delflag /\ y.seen = Wheel!NotSeen
         /\ y.m_round = m /\ y.due = d
<1>1. y = [type |-> type, interval |-> v, due |-> d, seen |-> -1, m_elapseRound |-> 0,
           m_round |-> m, m_delflag |-> FALSE]
  BY DEF New, Wheel!NewTimer, Wheel!NotSeen
<1> QED BY ONLY type \in Wheel!Types, v \in Int, d \in Int, m \in Int, <1>1 DEF TimerObjects, Wheel!NotSeen

LEMMA AgainIs ==
  ASSUME NEW x \in TimerObjects, NEW v \in Int, NEW d \in Int, NEW m \in Int, NEW y,
         y = Again(x, v, d, m)
  PROVE  /\ y \in TimerObjects /\ y.type = x.type /\ y.m_delflag = x.m_delflag
         /\ y.seen = Wheel!NotSeen /\ y.m_round = m /\ y.due = d
<1>1. y = [type |-> x.type, interval |-> v, due |-> d, seen |-> -1, m_elapseRound |-> 0,
           m_round |-> m, m_delflag |-> x.m_delflag]
  BY DEF TimerObjects, Again, Wheel!NotSeen
<1>2. x.type \in Wheel!Types \cup {"none"} /\ x.m_delflag \in BOOLEAN
  BY DEF TimerObjects
<1> QED BY ONLY v \in Int, d \in Int, m \in Int, <1>1, <1>2 DEF TimerObjects, Wheel!NotSeen

\* Timers that wait through a tick.
LEMMA TickKeepsTimely ==
  ASSUME NEW x \in TimerObjects, NEW d \in Nat, d >= 1, NEW b \in Nat, NEW o \in Nat,
         Timely(x, d, b, o), NEW late \in Nat, late >= o, NEW y,
         y = [x EXCEPT !.due = @ - (SLOT_CHANGE_TIME + late),
                       !.seen = IF @ = Wheel!NotSeen THEN @ ELSE @ + (SLOT_CHANGE_TIME + late)]
  PROVE  y \in TimerObjects /\ Timely(y, d - 1, b, 0)
<1>1. /\ SLOT_CHANGE_TIME \in Nat /\ Wheel!Round \in Nat /\ Wheel!NotSeen = -1
      /\ (d - 1) * SLOT_CHANGE_TIME = d * SLOT_CHANGE_TIME - SLOT_CHANGE_TIME
  BY WheelAssumption DEF Wheel!Round, Wheel!NotSeen
<1>2. /\ y.m_round = x.m_round /\ y.m_elapseRound = x.m_elapseRound
      /\ y.due = x.due - (SLOT_CHANGE_TIME + late)
      /\ y.seen = IF x.seen = Wheel!NotSeen THEN x.seen ELSE x.seen + (SLOT_CHANGE_TIME + late)
      /\ x.due \in Int /\ x.seen \in Int /\ x.m_round \in Int /\ x.m_elapseRound \in Int
      /\ y \in TimerObjects
  <2>1. x.due \in Int /\ x.seen \in Int /\ x.m_round \in Int /\ x.m_elapseRound \in Int
    BY DEF TimerObjects
  <2>2. PICK v, n : /\ v = x.due - (SLOT_CHANGE_TIME + late)
                    /\ n = IF x.seen = Wheel!NotSeen THEN x.seen
                           ELSE x.seen + (SLOT_CHANGE_TIME + late)
    OBVIOUS
  <2>3. v \in Int /\ n \in Int
    BY <1>1, <2>1, <2>2
  <2>4. y = Later(x, v, n)
    BY <2>2 DEF Later
  <2>5. /\ y \in TimerObjects /\ y.due = v /\ y.seen = n
        /\ y.m_elapseRound = x.m_elapseRound /\ y.m_round = x.m_round
    BY ONLY x \in TimerObjects, <2>3, <2>4, LaterIs
  <2> QED BY <2>1, <2>2, <2>5
<1>3. PICK p, q, r, t : /\ p = d * SLOT_CHANGE_TIME /\ q = (x.m_round - 1) * Wheel!Round
                        /\ r = (x.m_elapseRound + x.m_round - 1) * Wheel!Round
                        /\ t = x.m_elapseRound * Wheel!Round
  OBVIOUS
<1>4. p \in Int /\ q \in Int /\ r \in Int /\ t \in Int
  BY <1>1, <1>2, <1>3
<1>5. CASE x.seen = Wheel!NotSeen
  <2>1. x.due < p + q + b + o /\ x.m_round >= 1
    <3>1. (IF d = 0 THEN 0 ELSE o) = o
      OBVIOUS
    <3> QED BY <1>3, <1>5, <3>1 DEF Timely
  <2>2. y.due < (p - SLOT_CHANGE_TIME) + q + b + 0
    BY ONLY <1>1, <1>2, <1>4, <2>1, b \in Nat, late \in Nat, o \in Nat, late >= o
  <2> QED BY <1>1, <1>2, <1>3, <1>5, <2>1, <2>2 DEF Timely
<1>6. CASE x.seen # Wheel!NotSeen
  <2>1. x.m_round >= 1 /\ x.seen >= 0 /\ x.due + x.seen < r + b /\ x.seen + p >= t
    BY <1>3, <1>6 DEF Timely
  <2>2. y.seen = x.seen + (SLOT_CHANGE_TIME + late)
    BY <1>2, <1>6
  <2>3. /\ y.seen >= 0 /\ y.due + y.seen < r + b /\ y.seen + (p - SLOT_CHANGE_TIME) >= t
        /\ y.seen # -1
    BY ONLY <1>1, <1>2, <1>4, <2>1, <2>2, b \in Nat, late \in Nat
  <2> QED BY <1>1, <1>2, <1>3, <2>1, <2>3 DEF Timely
<1> QED BY <1>2, <1>5, <1>6

\* A timer that expires when it is visited is not called back early.
LEMMA ExpiresInTime ==
  ASSUME NEW x \in TimerObjects, NEW b \in Nat \ {0}, NEW o \in Nat, Timely(x, 0, b, o),
         Wheel!Expires(x)
  PROVE  x.due < b
<1>1. CASE x.due <= 0
  BY <1>1 DEF TimerObjects
<1>2. CASE x.m_round <= 1
  <2>1. x.m_round = 1 /\ x.due \in Int /\ x.seen \in Int /\ x.m_elapseRound \in Int
    BY <1>2 DEF Timely, TimerObjects
  <2>2. /\ SLOT_CHANGE_TIME \in Nat /\ Wheel!Round \in Nat
        /\ 0 * SLOT_CHANGE_TIME = 0 /\ (1 - 1) * Wheel!Round = 0
    BY WheelAssumption DEF Wheel!Round
  <2>3. CASE x.seen = Wheel!NotSeen
    BY <2>1, <2>2, <2>3 DEF Timely
  <2>4. CASE x.seen # Wheel!NotSeen
    <3>1. PICK r : r = x.m_elapseRound * Wheel!Round
      OBVIOUS
    <3>2. r \in Int /\ (x.m_elapseRound + 1 - 1) * Wheel!Round = r
      BY <2>1, <2>2, <3>1
    <3>3. x.due + x.seen < r + b /\ x.seen + 0 >= r
      BY <2>1, <2>2, <2>4, <3>1, <3>2 DEF Timely
    <3> QED BY ONLY <2>1, <3>2, <3>3, b \in Nat
  <2> QED BY <2>3, <2>4
<1> QED BY <1>1, <1>2 DEF Wheel!Expires

\* One that does not expire stays in a slot, from which it is timely.
LEMMA VisitKeepsTimely ==
  ASSUME NEW x \in TimerObjects, NEW b \in Nat, NEW o \in Nat, Timely(x, 0, b, o),
         ~Wheel!Expires(x),
         NEW s \in Wheel!Slots, NEW k, k = (s + 1) % SLOT_COUNT,
         NEW y, y = Wheel!Visited(x), NEW r, r = Wheel!SlotOf(x, s)
  PROVE  /\ y \in TimerObjects /\ r \in Wheel!Slots /\ Timely(y, TicksFrom(k, r), b, o)
         /\ y.type = x.type /\ y.m_delflag = x.m_delflag
<1>1. PICK c, w, R : c = SLOT_COUNT /\ w = SLOT_CHANGE_TIME /\ R = Wheel!Round
  OBVIOUS
<1>2. c \in Nat \ {0} /\ w \in Nat \ {0} /\ R \in Nat \ {0} /\ R = c * w /\ Wheel!NotSeen = -1
  BY <1>1, WheelAssumption DEF Wheel!Round, Wheel!NotSeen
<1>3. /\ x.due \in Int /\ x.seen \in Int /\ x.m_elapseRound \in Int /\ x.m_round \in Int
      /\ x.m_round > 1
  BY DEF TimerObjects, Wheel!Expires
<1>4. PICK e, m : e = x.m_elapseRound /\ m = x.m_round
  OBVIOUS
<1>5. k \in Wheel!Slots /\ TicksFrom(k, s) = c
  BY <1>1, SlotsNearer
<1>6. CASE x.seen = Wheel!NotSeen
  <2>1. y = After(x, 0, 1) /\ r = s
    BY <1>6 DEF After, Wheel!Visited, Wheel!SlotOf
  <2>2. /\ y.due = x.due /\ y.seen = 0 /\ y.m_elapseRound = 1 /\ y.m_round = m - 1
        /\ y \in TimerObjects /\ y.type = x.type /\ y.m_delflag = x.m_delflag
    BY <1>4, <2>1, AfterIs
  <2>3. x.due < (m - 1) * R + b
    <3>1. 0 * w = 0
      BY <1>2
    <3> QED BY <1>1, <1>2, <1>3, <1>4, <1>6, <3>1 DEF Timely
  <2>4. x.due + 0 < (1 + (m - 1) - 1) * R + b /\ 0 + c * w >= 1 * R /\ m - 1 >= 1
    <3>1. 1 + (m - 1) - 1 = m - 1
      BY <1>3, <1>4
    <3> QED BY <1>2, <1>3, <1>4, <2>3, <3>1
  <2> QED BY <1>1, <1>2, <1>5, <2>1, <2>2, <2>4 DEF Timely
<1>7. CASE x.seen # Wheel!NotSeen /\ ~Wheel!Drifted(x)
  <2>1. y = After(x, x.seen, e + 1) /\ r = s
    <3>1. PICK z : z = [x EXCEPT !.m_round = @ - 1]
      OBVIOUS
    <3>2. y = [z EXCEPT !.m_elapseRound = x.m_elapseRound + 1] /\ r = s
      BY <1>7, <3>1 DEF Wheel!Visited, Wheel!SlotOf
    <3>3. z.seen = x.seen /\ z \in TimerObjects
      BY <3>1, <1>3 DEF TimerObjects
    <3>4. [z EXCEPT !.m_elapseRound = e + 1] = [z EXCEPT !.seen = x.seen, !.m_elapseRound = e + 1]
      BY <3>3 DEF TimerObjects
    <3> QED BY <1>4, <3>1, <3>2, <3>4 DEF After
  <2>2. /\ y.due = x.due /\ y.seen = x.seen /\ y.m_elapseRound = e + 1 /\ y.m_round = m - 1
        /\ y \in TimerObjects /\ y.type = x.type /\ y.m_delflag = x.m_delflag
    <3>1. e + 1 \in Int
      BY <1>3, <1>4
    <3> QED BY <1>3, <1>4, <2>1, <3>1, AfterIs
  <2>3. x.seen >= 0 /\ x.due + x.seen < (e + m - 1) * R + b /\ x.seen >= e * R
    <3>1. x.seen + 0 * w = x.seen
      BY <1>2, <1>3
    <3> QED BY <1>1, <1>4, <1>7, <3>1 DEF Timely
  <2>4. /\ x.due + x.seen < (e + 1 + (m - 1) - 1) * R + b /\ m - 1 >= 1
        /\ x.seen + c * w >= (e + 1) * R
    <3>1. e + 1 + (m - 1) - 1 = e + m - 1 /\ (e + 1) * R = e * R + R /\ e * R \in Int
      BY <1>2, <1>3, <1>4
    <3> QED BY <1>2, <1>3, <1>4, <2>3, <3>1
  <2> QED BY <1>1, <1>2, <1>5, <1>7, <2>1, <2>2, <2>3, <2>4 DEF Timely
<1>8. CASE x.seen # Wheel!NotSeen /\ Wheel!Drifted(x)
  <2>1. PICK v, j : v = x.seen % R /\ j = v \div w
    OBVIOUS
  <2>2. /\ y = After(x, x.seen - e * R, 1)
        /\ r = (s - j) % c
    <3>1. PICK z : z = [x EXCEPT !.m_round = @ - 1]
      OBVIOUS
    <3>2. /\ y = [z EXCEPT !.seen = @ - e * R, !.m_elapseRound = 1]
          /\ r = (s - j) % c
      BY <1>1, <1>4, <1>8, <2>1, <3>1 DEF Wheel!Visited, Wheel!SlotOf
    <3>3. z.seen = x.seen /\ z \in TimerObjects
      BY <1>3, <3>1 DEF TimerObjects
    <3> QED BY <3>1, <3>2, <3>3 DEF TimerObjects, After
  <2>3. e * R \in Int
    BY <1>2, <1>3, <1>4
  <2>4. /\ y.due = x.due /\ y.seen = x.seen - e * R /\ y.m_elapseRound = 1 /\ y.m_round = m - 1
        /\ y \in TimerObjects /\ y.type = x.type /\ y.m_delflag = x.m_delflag
    <3>1. x.seen - e * R \in Int /\ 1 \in Int
      BY <1>3, <2>3
    <3> QED BY <1>4, <2>2, <3>1, AfterIs
  <2>5. x.due + x.seen < (e + m - 1) * R + b /\ x.seen > e * R
    BY <1>1, <1>4, <1>8 DEF Timely, Wheel!Drifted
  <2>6. PICK q \in Int : q = x.seen \div R /\ v \in 0 .. R - 1 /\ x.seen = R * q + v
    BY <1>2, <1>3, <2>1, DivMod
  <2>7. j \in Int /\ v = w * j + (v % w) /\ v % w \in 0 .. w - 1
    <3>1. v \in Int
      BY <1>2, <2>6
    <3> QED BY ONLY <1>2, <2>1, <3>1, DivMod
  <2>8. j \in 0 .. c - 1
    <3>1. j \in Nat
      <4>1. v \in Nat /\ v \in Int
        BY <1>2, <2>6
      <4> QED BY ONLY <1>2, <2>1, <4>1, DivMod
    <3>2. w * j <= v /\ v < c * w
      BY <1>2, <2>6, <2>7
    <3>3. j < c
      <4>1. SUFFICES ASSUME j >= c PROVE FALSE
        BY <1>2, <3>1
      <4>2. w * j >= w * c
        BY <1>2, <3>1, <4>1
      <4> QED BY <1>2, <2>6, <3>1, <3>2, <4>2
    <3> QED BY <1>2, <3>1, <3>3
  <2>9. x.seen - e * R >= w * j
    <3>1. q >= e
      <4>1. SUFFICES ASSUME q + 1 <= e PROVE FALSE
        BY <1>3, <1>4, <2>6
      <4>2. (q + 1) * R <= e * R
          <5>1. R \in Nat /\ e \in Int /\ q \in Int
            BY <1>2, <1>3, <1>4, <2>6
          <5> QED BY ONLY <4>1, <5>1
      <4>3. (q + 1) * R = R * q + R
        BY <1>2, <2>6
      <4> QED BY <1>2, <1>3, <2>3, <2>5, <2>6, <4>2, <4>3
    <3>2. R * q >= e * R
      BY <1>2, <1>3, <1>4, <2>6, <3>1
    <3>3. PICK f, g, h : f = R * q /\ g = e * R /\ h = w * j
      OBVIOUS
    <3>4. /\ f \in Int /\ g \in Int /\ h \in Int /\ f >= g /\ x.seen = f + v
          /\ v = h + (v % w) /\ v % w \in 0 .. w - 1 /\ w \in Nat
      <4>1. R * q \in Int /\ w * j \in Int
        BY <1>2, <2>6, <2>7
      <4> QED BY <1>2, <2>3, <2>6, <2>7, <3>2, <3>3, <4>1
    <3> QED BY ONLY <3>3, <3>4
  <2>10. r \in Wheel!Slots /\ TicksFrom(k, r) = c - j
    BY <1>1, <2>2, <2>8, SlotBack
  <2>11. /\ y.seen >= 0 /\ y.seen # -1
         /\ x.due + y.seen < (1 + (m - 1) - 1) * R + b
         /\ y.seen + (c - j) * w >= 1 * R /\ m - 1 >= 1
    <3>1. PICK g, h, f : g = e * R /\ h = w * j /\ f = (m - 1) * R
      OBVIOUS
    <3>2. /\ g \in Int /\ h \in Nat /\ f \in Int
          /\ (1 + (m - 1) - 1) * R = f /\ (e + m - 1) * R = g + f /\ (c - j) * w = R - h
      BY <1>2, <1>3, <1>4, <2>8, <3>1
    <3>3. y.seen = x.seen - g /\ y.seen >= h /\ x.due + x.seen < g + f + b
      BY <2>4, <2>5, <2>9, <3>1, <3>2
    <3>4. m - 1 >= 1
      BY <1>3, <1>4
    <3> QED BY ONLY <1>2, <1>3, <3>2, <3>3, <3>4, b \in Nat
  <2> QED BY <1>1, <1>2, <2>4, <2>10, <2>11 DEF Timely
<1> QED BY <1>6, <1>7, <1>8

\* A timer that is put into a slot n ticks ahead, and is due then.
LEMMA PutTimely ==
  ASSUME NEW x \in TimerObjects, NEW n \in Nat, NEW b \in Nat, NEW o \in Nat,
         x.seen = Wheel!NotSeen, x.m_round = Wheel!RoundsFor(n),
         x.due < (n + 1) * SLOT_CHANGE_TIME + b + o
  PROVE  Timely(x, (n % SLOT_COUNT) + 1, b, o)
<1>1. PICK c, w, q, r : /\ c = SLOT_COUNT /\ w = SLOT_CHANGE_TIME
                        /\ q = n \div SLOT_COUNT /\ r = n % SLOT_COUNT
  OBVIOUS
<1>2. c \in Nat \ {0} /\ w \in Nat
  BY <1>1, WheelAssumption
<1>3. q \in Nat /\ r \in 0 .. c - 1 /\ n = c * q + r
  <2>1. n \in Int /\ n \in Nat /\ c \in Nat \ {0} /\ q = n \div c /\ r = n % c
    BY <1>1, WheelAssumption
  <2> QED BY ONLY <2>1, DivMod
<1>4. x.m_round = q + 1 /\ x.due < (n + 1) * w + b + o
  BY <1>1 DEF Wheel!RoundsFor
<1>5. (n + 1) * w = (r + 1) * w + q * (c * w) /\ (q + 1) - 1 = q
  BY ONLY <1>2, <1>3
<1>6. x.due < (r + 1) * w + (x.m_round - 1) * (c * w) + b + o /\ x.m_round >= 1
  BY ONLY <1>3, <1>4, <1>5
<1>7. (IF r + 1 = 0 THEN 0 ELSE o) = o
  BY <1>2, <1>3
<1> QED BY <1>1, <1>6, <1>7 DEF Timely, Wheel!Round

LEMMA WheelStarts == ASSUME Wheel!TimerInit PROVE WheelInv
<1>1. 0 \in Wheel!Slots
  BY WheelAssumption DEF Wheel!Slots
<1>2. Wheel!NewTimer \in TimerObjects /\ Wheel!NewTimer.type = "none"
  BY DEF Wheel!NewTimer, TimerObjects, Wheel!NotSeen
<1>3. WheelTypes /\ WheelStages
  <2>1. 0 \in 0 .. MaxLate
    BY WheelAssumption
  <2> QED BY <1>1, <1>2, <2>1 DEF Wheel!TimerInit, WheelTypes, WheelStages
<1>4. ASSUME NEW t \in Timers PROVE OnePlace(t)
  <2>1. ~Wheel!Registered(t) /\ ~fired[t] /\ t \notin toErase /\ ~WithThread(t)
    BY <1>2 DEF Wheel!TimerInit, Wheel!Registered, WithThread
  <2>2. \A s \in Wheel!Slots : ~InSlot(t, s)
    BY DEF Wheel!TimerInit, InSlot
  <2> QED BY <2>1, <2>2 DEF OnePlace, Placed, WithThread, Wheel!Due, Wheel!Armed
<1>5. WheelTimes
  <2>1. \A s \in Wheel!Slots, t \in Timers : ~InSlot(t, s)
    BY DEF Wheel!TimerInit, InSlot
  <2> QED BY <2>1 DEF Wheel!TimerInit, WheelTimes
<1> QED BY <1>3, <1>4, <1>5 DEF WheelInv

\* A timer that a step leaves where it is keeps its place, and if it is not
\* touched at all its time.
SamePlace(u) ==
  /\ \A s \in Wheel!Slots : InSlot(u, s)' <=> InSlot(u, s)
  /\ (u \in reset' <=> u \in reset) /\ (u \in m_timeout' <=> u \in m_timeout)
  /\ (u \in taken' <=> u \in taken) /\ (u \in toErase' => u \in toErase)
  /\ timer'[u].type = timer[u].type /\ timer'[u].m_delflag = timer[u].m_delflag
  /\ fired'[u] = fired[u]

Untouched(u) == SamePlace(u) /\ timer'[u] = timer[u]

LEMMA KeepsPlace == ASSUME NEW u, OnePlace(u), SamePlace(u) PROVE OnePlace(u)'
<1>1. WithThread(u)' <=> WithThread(u)
  BY DEF WithThread, SamePlace
<1>2. Placed(u)' <=> Placed(u)
  BY <1>1 DEF Placed, SamePlace
<1>3. /\ Wheel!Registered(u)' <=> Wheel!Registered(u)
      /\ Wheel!Loops(u)' <=> Wheel!Loops(u)
      /\ Wheel!Due(u)' <=> Wheel!Due(u)
  BY DEF SamePlace, Wheel!Registered, Wheel!Loops, Wheel!Due, Wheel!Armed
<1> QED BY <1>1, <1>2, <1>3 DEF OnePlace, SamePlace

\* What a step does to a timer's time.
TimeOf(t) ==
  /\ \A s \in Wheel!Slots : InSlot(t, s) /\ Matters(t) => Timely(timer[t], TicksLeft(t, s), Slack, overdue)
  /\ t \in m_timeout \cup taken /\ Matters(t) => timer[t].due < Slack

LEMMA TimesOfTimers == WheelTypes => (WheelTimes <=> early = {} /\ \A t \in Timers : TimeOf(t))
BY DEF WheelTypes, WheelTimes, TimeOf

LEMMA KeepsTime ==
  ASSUME NEW u, TimeOf(u), Untouched(u), Slack' = Slack, Matters(u)' => Matters(u),
         \A s \in Wheel!Slots : InSlot(u, s) => TicksLeft(u, s)' = TicksLeft(u, s),
         overdue' = overdue
  PROVE  TimeOf(u)'
BY DEF TimeOf, Untouched, SamePlace

\* A timer is as timely when the next tick is known to be later.
LEMMA LaterIsTimely ==
  ASSUME NEW x \in TimerObjects, NEW d \in Nat, NEW b \in Nat, NEW o \in Nat, NEW p \in Nat,
         o <= p, Timely(x, d, b, o)
  PROVE  Timely(x, d, b, p)
<1>1. /\ x.due \in Int /\ x.m_round \in Int /\ SLOT_CHANGE_TIME \in Nat
      /\ Wheel!Round \in Nat
  BY WheelAssumption DEF TimerObjects, Wheel!Round
<1>2. PICK y, z : y = d * SLOT_CHANGE_TIME /\ z = (x.m_round - 1) * Wheel!Round
  OBVIOUS
<1>3. y \in Int /\ z \in Int
  BY <1>1, <1>2
<1>4. PICK e, f : e = (IF d = 0 THEN 0 ELSE o) /\ f = (IF d = 0 THEN 0 ELSE p)
  OBVIOUS
<1>5. e \in Int /\ f \in Int /\ e <= f
  BY <1>4
<1>6. x.due < y + z + b + e => x.due < y + z + b + f
  BY ONLY <1>1, <1>3, <1>5, b \in Nat
<1> QED BY <1>2, <1>4, <1>6 DEF Timely

LEMMA OverdueIsNat == ASSUME WheelTypes PROVE overdue \in Nat /\ overdue \in 0 .. MaxLate
BY WheelAssumption DEF WheelTypes

LEMMA TicksAreNat ==
  ASSUME WheelTypes, NEW u, NEW s \in Wheel!Slots
  PROVE  TicksLeft(u, s) \in Nat
BY WheelAssumption DEF WheelTypes, TicksLeft, TicksFrom, Wheel!Slots

LEMMA KeepsTimeLater ==
  ASSUME NEW u, TimeOf(u), Untouched(u), Slack' = Slack, Matters(u)' => Matters(u),
         \A s \in Wheel!Slots : InSlot(u, s) => TicksLeft(u, s)' = TicksLeft(u, s)
                                              /\ TicksLeft(u, s) \in Nat,
         timer[u] \in TimerObjects, Slack \in Nat, overdue \in Nat, overdue' \in Nat,
         overdue <= overdue'
  PROVE  TimeOf(u)'
<1>1. ASSUME NEW s \in Wheel!Slots, InSlot(u, s)', Matters(u)'
      PROVE  Timely(timer'[u], TicksLeft(u, s)', Slack', overdue')
  <2>1. InSlot(u, s) /\ timer'[u] = timer[u]
    BY <1>1 DEF Untouched, SamePlace
  <2>2. Timely(timer[u], TicksLeft(u, s), Slack, overdue)
    BY <1>1, <2>1 DEF TimeOf
  <2>3. PICK d, b, o, p : d = TicksLeft(u, s) /\ b = Slack /\ o = overdue /\ p = overdue'
    OBVIOUS
  <2>4. Timely(timer[u], d, b, p)
    BY <2>1, <2>2, <2>3, LaterIsTimely
  <2> QED BY <2>1, <2>3, <2>4
<1>2. u \in m_timeout' \cup taken' /\ Matters(u)' => timer'[u].due < Slack'
  BY DEF TimeOf, Untouched, SamePlace
<1> QED BY <1>1, <1>2 DEF TimeOf

\* A timer that is put into a slot is in this one and, unless it raced, is
\* visited when it should be.
LEMMA PutsInto ==
  ASSUME WheelTypes, WheelStages, NEW t \in Timers, NEW n \in Nat, Wheel!PutInto(t, n), t \notin toErase,
         UNCHANGED <<m_currSlot, stage, curslot, timeoutAll, toErase>>,
         t \notin timeoutAll, NEW s, s = Wheel!SlotAfter(n)
  PROVE  /\ m_slots' \in [Wheel!Slots -> SUBSET Timers] /\ s \in Wheel!Slots
         /\ \A u \in Timers, r \in Wheel!Slots : InSlot(u, r)' <=> InSlot(u, r) \/ (u = t /\ r = s)
         /\ \A u \in Timers : u # t => (u \in raced' <=> u \in raced)
         /\ t \notin raced' => TicksLeft(t, s)' = (n % SLOT_COUNT) + 1
         /\ \A u \in Timers, r \in Wheel!Slots : TicksLeft(u, r)' = TicksLeft(u, r)
         /\ timeoutAll \subseteq m_slots'[curslot] \ toErase
         /\ raced' \subseteq Timers
<1>1. s = Wheel!SlotAfter(n)
  OBVIOUS
<1>2. s \in Wheel!Slots /\ TicksFrom(m_currSlot, s) = (n % SLOT_COUNT) + 1
  BY <1>1, SlotAhead DEF Wheel!SlotAfter, WheelTypes
<1>3. /\ m_slots' = [m_slots EXCEPT ![s] = @ \cup {t}]
      /\ raced' = IF stage = "visit" /\ s = curslot THEN raced \cup {t} ELSE raced
  BY <1>1 DEF Wheel!PutInto
<1>4. m_slots' \in [Wheel!Slots -> SUBSET Timers]
  BY <1>2, <1>3 DEF WheelTypes
<1>5. \A u \in Timers, r \in Wheel!Slots : InSlot(u, r)' <=> InSlot(u, r) \/ (u = t /\ r = s)
  BY <1>2, <1>3 DEF InSlot, WheelTypes
<1>6. t \notin raced' => TicksLeft(t, s)' = (n % SLOT_COUNT) + 1
  BY <1>2, <1>3 DEF TicksLeft
<1>7. \A u \in Timers, r \in Wheel!Slots : TicksLeft(u, r)' = TicksLeft(u, r)
  BY DEF TicksLeft
<1>8. timeoutAll \subseteq m_slots'[curslot] \ toErase
  BY <1>2, <1>3 DEF WheelTypes, WheelStages
<1>9. \A u \in Timers : u # t => (u \in raced' <=> u \in raced)
  BY <1>3
<1>10. raced' \subseteq Timers
  BY <1>3 DEF WheelTypes
<1> QED BY ONLY <1>1, <1>2, <1>4, <1>5, <1>6, <1>7, <1>8, <1>9, <1>10

LEMMA Attaches ==
  ASSUME WheelInv, NEW t \in Timers, t \notin toErase, t \notin timeoutAll,
         t \notin m_timeout, t \notin taken, \A s \in Wheel!Slots : ~InSlot(t, s),
         NEW x \in TimerObjects, timer' = [timer EXCEPT ![t] = x], x.type # "none", ~x.m_delflag,
         x.type = "OnceTimer" => ~fired[t], x.seen = Wheel!NotSeen,
         NEW n \in Nat, x.m_round = Wheel!RoundsFor(n), x.due < (n + 1) * SLOT_CHANGE_TIME + Slack + overdue',
         overdue' \in 0 .. MaxLate, overdue <= overdue',
         Wheel!PutInto(t, n), reset' = reset \ {t}, Single' = Single,
         UNCHANGED <<m_currSlot, stage, curslot, timeoutAll, toErase, m_timeout, taken, fired, early>>
  PROVE  WheelInv'
<1>1. PICK s : s = Wheel!SlotAfter(n)
  OBVIOUS
<1>2. /\ m_slots' \in [Wheel!Slots -> SUBSET Timers] /\ s \in Wheel!Slots
      /\ \A u \in Timers, r \in Wheel!Slots : InSlot(u, r)' <=> InSlot(u, r) \/ (u = t /\ r = s)
      /\ \A u \in Timers : u # t => (u \in raced' <=> u \in raced)
      /\ t \notin raced' => TicksLeft(t, s)' = (n % SLOT_COUNT) + 1
      /\ \A u \in Timers, r \in Wheel!Slots : TicksLeft(u, r)' = TicksLeft(u, r)
      /\ timeoutAll \subseteq m_slots'[curslot] \ toErase
      /\ raced' \subseteq Timers
  BY <1>1, PutsInto DEF WheelInv
<1>3. WheelTypes'
  BY <1>2 DEF WheelInv, WheelTypes
<1>4. WheelStages'
  BY <1>2 DEF WheelInv, WheelStages
<1>5. timer'[t] = x /\ \A u \in Timers \ {t} : timer'[u] = timer[u]
  BY DEF WheelInv, WheelTypes
<1>6. \A u \in Timers \ {t} : Untouched(u)
  BY <1>2, <1>5 DEF Untouched, SamePlace
<1>7. ASSUME NEW u \in Timers PROVE OnePlace(u)'
  <2>1. CASE u # t
    BY <1>6, <2>1, KeepsPlace DEF WheelInv, Untouched
  <2>2. CASE u = t
    <3>1. ~WithThread(t)' /\ \A r \in Wheel!Slots : InSlot(t, r)' <=> r = s
      BY <1>2 DEF WithThread
    <3>2. Placed(t)' /\ Wheel!Registered(t)' /\ (~Wheel!Loops(t)' => ~fired'[t])
      BY <1>2, <1>5, <3>1 DEF Placed, Wheel!Registered, Wheel!Loops
    <3> QED BY <2>2, <3>1, <3>2 DEF OnePlace, WithThread
  <2> QED BY <2>1, <2>2
<1>8. ASSUME NEW u \in Timers PROVE TimeOf(u)'
  <2>1. TimeOf(u)
    BY TimesOfTimers DEF WheelInv
  <2>2. CASE u # t
    <3>1. Matters(u)' <=> Matters(u)
      BY <1>2, <1>5, <2>2 DEF Matters
    <3>2. Slack' = Slack
      BY DEF Slack
    <3>3. timer[u] \in TimerObjects /\ overdue \in Nat /\ Slack \in Nat
      BY WheelAssumption DEF WheelInv, WheelTypes, Slack
    <3>4. \A r \in Wheel!Slots : TicksLeft(u, r) \in Nat
      BY TicksAreNat DEF WheelInv
    <3> QED BY <1>2, <1>6, <2>1, <2>2, <3>1, <3>2, <3>3, <3>4, KeepsTimeLater
  <2>3. CASE u = t
    <3>1. Slack' = Slack /\ Slack \in Nat
      BY WheelAssumption DEF Slack
    <3>2. Timely(x, (n % SLOT_COUNT) + 1, Slack, overdue')
      BY <3>1, PutTimely
    <3>3. \A r \in Wheel!Slots : InSlot(t, r)' => r = s
      BY <1>2
    <3>4. Matters(t)' => t \notin raced'
      BY DEF Matters
    <3>5. t \notin m_timeout' /\ t \notin taken'
      OBVIOUS
    <3>6. Matters(t)' => Timely(timer'[t], TicksLeft(t, s)', Slack', overdue')
      BY <1>2, <1>5, <3>1, <3>2, <3>4
    <3> QED BY <2>3, <3>3, <3>5, <3>6 DEF TimeOf
  <2> QED BY <2>2, <2>3
<1>9. early' = {}
  BY DEF WheelInv, WheelTimes
<1>10. WheelTimes'
  BY <1>3, <1>8, <1>9, TimesOfTimers DEF WheelTypes, WheelTimes, TimeOf
<1> QED BY <1>3, <1>4, <1>7, <1>10 DEF WheelInv

\* The next tick is no earlier than the clock that was read.
LEMMA ClockRead ==
  ASSUME WheelTypes, NEW ahead \in Wheel!Ahead, Wheel!ReadClock(ahead)
  PROVE  /\ overdue' \in 0 .. MaxLate /\ overdue <= overdue' /\ overdue' \in Nat
         /\ ahead <= SLOT_CHANGE_TIME + overdue' /\ ahead \in Nat
<1>1. /\ overdue \in 0 .. MaxLate /\ MaxLate \in Nat /\ SLOT_CHANGE_TIME \in Nat
      /\ ahead \in 0 .. SLOT_CHANGE_TIME + MaxLate
  BY WheelAssumption DEF WheelTypes, Wheel!Ahead
<1>2. overdue' = IF ahead > SLOT_CHANGE_TIME + overdue THEN ahead - SLOT_CHANGE_TIME
                 ELSE overdue
  BY DEF Wheel!ReadClock
<1>3. PICK o, p : o = overdue /\ p = overdue'
  OBVIOUS
<1>4. /\ p \in 0 .. MaxLate /\ o <= p /\ p \in Nat
      /\ ahead <= SLOT_CHANGE_TIME + p /\ ahead \in Nat
  BY ONLY <1>1, <1>2, <1>3
<1> QED BY <1>3, <1>4

LEMMA RegisterKeeps ==
  ASSUME WheelInv, NEW t \in Timers, Wheel!Register(t), Single' = Single
  PROVE  WheelInv'
<1>0. PICK y \in Wheel!Types, start \in StartTimes, v \in Intervals, ahead \in Wheel!Ahead :
         LET k == (IF Single THEN start - SLOT_CHANGE_TIME ELSE start) \div SLOT_CHANGE_TIME IN
         /\ timer' = [timer EXCEPT ![t] = New(y, IF y = "OnceTimer" THEN 0 ELSE v, start + ahead,
                                               Wheel!RoundsFor(k))]
         /\ Wheel!PutInto(t, k) /\ Wheel!ReadClock(ahead)
  BY DEF Wheel!Register, Wheel!FirstDue, Single, New
<1>1. PICK n, x :
         /\ n = (IF Single THEN start - SLOT_CHANGE_TIME ELSE start) \div SLOT_CHANGE_TIME
         /\ x = New(y, IF y = "OnceTimer" THEN 0 ELSE v, start + ahead, Wheel!RoundsFor(n))
         /\ timer' = [timer EXCEPT ![t] = x] /\ Wheel!PutInto(t, n)
  BY <1>0
<1>2. /\ ~Wheel!Registered(t)
      /\ UNCHANGED <<m_currSlot, stage, curslot, timeoutAll, toErase, reset, m_timeout, taken, fired, early>>
  BY DEF Wheel!Register, Wheel!visit, Wheel!single
<1>3. /\ t \notin toErase /\ ~WithThread(t) /\ ~fired[t] /\ \A s \in Wheel!Slots : ~InSlot(t, s)
  BY <1>2 DEF WheelInv, OnePlace, Placed
<1>4. t \notin timeoutAll
  BY <1>3 DEF WheelInv, WheelStages, WheelTypes, InSlot
<1>5. start \in Nat /\ start >= SLOT_CHANGE_TIME /\ v \in Int /\ SLOT_CHANGE_TIME \in Nat \ {0}
      /\ SLOT_COUNT \in Nat \ {0}
  BY WheelAssumption
<1>14. /\ overdue' \in 0 .. MaxLate /\ overdue <= overdue' /\ overdue' \in Nat
       /\ ahead <= SLOT_CHANGE_TIME + overdue' /\ ahead \in Nat
  BY <1>0, ClockRead DEF WheelInv
<1>6. PICK a : a = IF Single THEN start - SLOT_CHANGE_TIME ELSE start
  OBVIOUS
<1>7. n \in Nat /\ a = SLOT_CHANGE_TIME * n + (a % SLOT_CHANGE_TIME)
      /\ a % SLOT_CHANGE_TIME \in 0 .. SLOT_CHANGE_TIME - 1
  <2>1. a \in Nat /\ a \in Int
    BY <1>5, <1>6
  <2>2. n = a \div SLOT_CHANGE_TIME
    BY <1>1, <1>6
  <2> QED BY ONLY <1>5, <2>1, <2>2, DivMod
<1>8. Wheel!RoundsFor(n) \in Int
  <2>1. n \div SLOT_COUNT \in Int
    BY <1>5, <1>7, DivMod
  <2> QED BY <2>1 DEF Wheel!RoundsFor
<1>9. /\ x \in TimerObjects /\ x.type = y /\ ~x.m_delflag /\ x.seen = Wheel!NotSeen
      /\ x.m_round = Wheel!RoundsFor(n) /\ x.due = start + ahead
  <2>1. start + ahead \in Int /\ (IF y = "OnceTimer" THEN 0 ELSE v) \in Int
    BY <1>5, <1>14
  <2> QED BY <1>1, <1>8, <2>1, NewIs
<1>10. x.due < (n + 1) * SLOT_CHANGE_TIME + Slack + overdue'
  <2>1. (n + 1) * SLOT_CHANGE_TIME = SLOT_CHANGE_TIME * n + SLOT_CHANGE_TIME
    BY <1>5, <1>7
  <2>2. PICK p : p = SLOT_CHANGE_TIME * n
    OBVIOUS
  <2>3. p \in Int /\ a < p + SLOT_CHANGE_TIME
    BY <1>5, <1>7, <2>2
  <2>4. start + ahead < p + SLOT_CHANGE_TIME + Slack + overdue'
    <3>1. PICK o, k : o = overdue' /\ k = Slack
      OBVIOUS
    <3>2. /\ o \in Nat /\ ahead \in Nat /\ ahead <= SLOT_CHANGE_TIME + o
          /\ k = IF Single THEN 2 * SLOT_CHANGE_TIME ELSE SLOT_CHANGE_TIME
      BY <1>14, <3>1 DEF Slack
    <3>3. start + ahead < p + SLOT_CHANGE_TIME + k + o
      BY ONLY <1>5, <1>6, <2>3, <3>2
    <3> QED BY <3>1, <3>3
  <2> QED BY <1>9, <2>1, <2>2, <2>4
<1>11. reset' = reset \ {t}
  BY <1>2, <1>3 DEF WithThread
<1>12. x.type # "none"
  BY <1>9 DEF Wheel!Types
<1>13. t \notin m_timeout /\ t \notin taken
  BY <1>3 DEF WithThread
<1> QED BY <1>1, <1>2, <1>3, <1>4, <1>7, <1>9, <1>10, <1>11, <1>12, <1>13, <1>14, Attaches

\* A loop timer, when its callback is over.
LEMMA ReattachKeeps ==
  ASSUME WheelInv, NEW t \in reset, NEW ahead \in Wheel!Ahead, Wheel!Reattach(t, ahead),
         reset' = reset \ {t}, t \notin toErase, Single' = Single, Wheel!Loops(t) \/ timer[t].m_delflag,
         overdue' \in 0 .. MaxLate, overdue <= overdue', ahead <= SLOT_CHANGE_TIME + overdue',
         UNCHANGED <<m_currSlot, stage, curslot, timeoutAll, toErase, m_timeout, taken, fired, early>>
  PROVE  WheelInv'
<1>1. /\ t \in Timers /\ WithThread(t) /\ t \notin m_timeout /\ t \notin taken
      /\ \A s \in Wheel!Slots : ~InSlot(t, s)
      /\ Wheel!Registered(t)
  BY DEF WheelInv, WheelTypes, OnePlace, Placed, WithThread
<1>2. t \notin timeoutAll
  BY <1>1 DEF WheelInv, WheelStages, WheelTypes, InSlot
<1>3. CASE timer[t].m_delflag
  <2>1. UNCHANGED <<timer, m_slots, raced>>
    BY <1>3 DEF Wheel!Reattach
  <2>2. WheelTypes' /\ WheelStages'
    BY <2>1 DEF WheelInv, WheelTypes, WheelStages
  <2>3. \A u \in Timers \ {t} : Untouched(u)
    BY <2>1 DEF Untouched, SamePlace, InSlot
  <2>4. /\ Slack' = Slack
        /\ \A u \in Timers : Matters(u)' => Matters(u)
        /\ \A u \in Timers, s \in Wheel!Slots : TicksLeft(u, s)' = TicksLeft(u, s)
    BY <2>1 DEF Slack, Matters, TicksLeft
  <2>5. \A s \in Wheel!Slots : ~InSlot(t, s)'
    BY <1>1, <2>1 DEF InSlot
  <2>6. ~WithThread(t)' /\ ~Placed(t)' /\ Wheel!Registered(t)' /\ ~Wheel!Due(t)' /\ t \notin m_timeout' \cup taken'
    BY <1>1, <1>3, <2>1, <2>5 DEF WithThread, Placed, Wheel!Registered, Wheel!Due, Wheel!Armed
  <2>7. OnePlace(t)' /\ TimeOf(t)'
    BY <2>5, <2>6 DEF OnePlace, TimeOf, WithThread
  <2>8. \A u \in Timers : OnePlace(u)' /\ TimeOf(u)'
    <3>1. SUFFICES ASSUME NEW u \in Timers \ {t} PROVE OnePlace(u)' /\ TimeOf(u)'
      BY <2>7
    <3>2. OnePlace(u) /\ TimeOf(u)
      BY TimesOfTimers DEF WheelInv
    <3>3. /\ timer[u] \in TimerObjects /\ Slack \in Nat /\ overdue \in Nat /\ overdue' \in Nat
          /\ \A s \in Wheel!Slots : TicksLeft(u, s) \in Nat
      BY WheelAssumption, TicksAreNat DEF WheelInv, WheelTypes, Slack
    <3>4. OnePlace(u)'
      BY <2>3, <3>2, KeepsPlace DEF Untouched
    <3> QED BY <2>3, <2>4, <3>2, <3>3, <3>4, KeepsTimeLater
  <2>9. WheelTimes'
    <3>1. early' = {}
      BY <2>1 DEF WheelInv, WheelTimes
    <3>2. m_timeout' \cup taken' \subseteq Timers
      BY <2>2 DEF WheelTypes
    <3> QED BY <2>8, <3>1, <3>2 DEF WheelTimes, TimeOf
  <2> QED BY <2>2, <2>8, <2>9 DEF WheelInv
<1>4. CASE ~timer[t].m_delflag
  <2>1. PICK v, due, n, x :
         /\ v \in IF timer[t].type = "MonthLoopTimer" THEN Intervals ELSE {timer[t].interval}
         /\ due = timer[t].due + v
         /\ n = (IF due > ahead THEN due - ahead ELSE 0) \div SLOT_CHANGE_TIME
         /\ x = Again(timer[t], v, due, Wheel!RoundsFor(n))
         /\ timer' = [timer EXCEPT ![t] = x] /\ Wheel!PutInto(t, n)
    BY <1>4 DEF Wheel!Reattach, Wheel!NextDue, Again
  <2>2. timer[t] \in TimerObjects
    BY <1>1 DEF WheelInv, WheelTypes
  <2>3. v \in Int /\ due \in Int /\ SLOT_CHANGE_TIME \in Nat \ {0} /\ SLOT_COUNT \in Nat \ {0}
        /\ ahead \in Nat /\ overdue' \in Nat
    BY <2>1, <2>2, WheelAssumption DEF TimerObjects, Wheel!Ahead
  <2>4. PICK a : a = IF due > ahead THEN due - ahead ELSE 0
    OBVIOUS
  <2>5. n \in Nat /\ a = SLOT_CHANGE_TIME * n + (a % SLOT_CHANGE_TIME)
        /\ a % SLOT_CHANGE_TIME \in 0 .. SLOT_CHANGE_TIME - 1
    <3>1. a \in Nat /\ a \in Int
      BY <2>3, <2>4
    <3>2. n = a \div SLOT_CHANGE_TIME
      BY <2>1, <2>4
    <3> QED BY ONLY <2>3, <3>1, <3>2, DivMod
  <2>6. Wheel!RoundsFor(n) \in Int
    <3>1. n \div SLOT_COUNT \in Int
      BY <2>3, <2>5, DivMod
    <3> QED BY <3>1 DEF Wheel!RoundsFor
  <2>7. /\ x \in TimerObjects /\ x.type = timer[t].type /\ ~x.m_delflag /\ x.seen = Wheel!NotSeen
        /\ x.m_round = Wheel!RoundsFor(n) /\ x.due = due
    <3> QED BY <1>4, <2>1, <2>2, <2>3, <2>6, AgainIs
  <2>8. x.due < (n + 1) * SLOT_CHANGE_TIME + Slack + overdue'
    <3>1. (n + 1) * SLOT_CHANGE_TIME = SLOT_CHANGE_TIME * n + SLOT_CHANGE_TIME
      BY <2>3, <2>5
    <3>2. PICK p : p = SLOT_CHANGE_TIME * n
      OBVIOUS
    <3>3. p \in Int /\ a < p + SLOT_CHANGE_TIME
      BY <2>3, <2>5, <3>2
    <3>4. due < p + SLOT_CHANGE_TIME + Slack + overdue'
      <4>1. PICK o, k : o = overdue' /\ k = Slack
        OBVIOUS
      <4>2. o \in Nat /\ k \in Nat /\ ahead <= SLOT_CHANGE_TIME + o /\ k >= SLOT_CHANGE_TIME
        <5>1. k = IF Single THEN 2 * SLOT_CHANGE_TIME ELSE SLOT_CHANGE_TIME
          BY <4>1 DEF Slack
        <5>2. k \in Nat /\ k >= SLOT_CHANGE_TIME
          BY ONLY <2>3, <5>1
        <5>3. overdue' \in Nat /\ ahead <= SLOT_CHANGE_TIME + overdue'
          BY <2>3
        <5> QED BY <4>1, <5>2, <5>3
      <4>3. due < p + SLOT_CHANGE_TIME + k + o
        <5>1. a \in Int /\ ahead \in Nat /\ due \in Int /\ SLOT_CHANGE_TIME \in Nat
          BY <2>3, <2>4
        <5>2. due <= a + ahead
          BY <2>3, <2>4
        <5> QED BY ONLY <3>3, <4>2, <5>1, <5>2
      <4> QED BY <4>1, <4>3
    <3> QED BY <2>7, <3>1, <3>2, <3>4
  <2>9. x.type # "none" /\ (x.type = "OnceTimer" => ~fired[t])
    BY <1>1, <1>4, <2>7 DEF Wheel!Registered, Wheel!Loops
  <2> QED BY <1>1, <1>2, <2>1, <2>5, <2>7, <2>8, <2>9, Attaches
<1> QED BY <1>3, <1>4

LEMMA CancelKeeps ==
  ASSUME WheelInv, NEW t \in Timers, Wheel!Cancel(t), Single' = Single
  PROVE  WheelInv'
<1>1. /\ timer' = [timer EXCEPT ![t].m_delflag = TRUE]
      /\ UNCHANGED <<m_slots, m_currSlot, stage, curslot, timeoutAll, toErase, reset,
                     m_timeout, taken, fired, raced, early, overdue>>
  BY DEF Wheel!Cancel, Wheel!visit, Wheel!single, Wheel!history
<1>2. WheelTypes'
  BY <1>1 DEF WheelInv, WheelTypes, TimerObjects
<1>3. WheelStages'
  BY <1>1 DEF WheelInv, WheelStages
<1>4. /\ timer'[t].type = timer[t].type /\ timer'[t].m_delflag /\ timer[t].type # "none"
      /\ \A u \in Timers \ {t} : timer'[u] = timer[u]
  BY <1>1 DEF WheelInv, WheelTypes, TimerObjects, Wheel!Cancel, Wheel!Armed, Wheel!Registered
<1>5. \A u \in Timers, s \in Wheel!Slots : InSlot(u, s)' <=> InSlot(u, s)
  BY <1>1 DEF InSlot
<1>6. ASSUME NEW u \in Timers PROVE OnePlace(u)'
  <2>1. CASE u # t
    BY <1>1, <1>4, <1>5, <2>1, KeepsPlace DEF WheelInv, SamePlace
  <2>2. CASE u = t
    <3>1. (WithThread(t)' <=> WithThread(t)) /\ (Placed(t)' <=> Placed(t))
      BY <1>1, <1>5 DEF WithThread, Placed
    <3>2. (Wheel!Loops(t)' <=> Wheel!Loops(t)) /\ Wheel!Registered(t)' /\ ~Wheel!Due(t)'
      BY <1>4 DEF Wheel!Loops, Wheel!Registered, Wheel!Due, Wheel!Armed
    <3> QED BY <1>1, <1>5, <2>2, <3>1, <3>2 DEF WheelInv, OnePlace
  <2> QED BY <2>1, <2>2
<1>7. Slack' = Slack /\ \A u \in Timers, s \in Wheel!Slots : TicksLeft(u, s)' = TicksLeft(u, s)
  BY <1>1 DEF Slack, TicksLeft
<1>8. ASSUME NEW u \in Timers PROVE TimeOf(u)'
  <2>1. TimeOf(u)
    BY TimesOfTimers DEF WheelInv
  <2>2. CASE u # t
    <3>1. Matters(u)' <=> Matters(u)
      BY <1>1, <1>4, <2>2 DEF Matters
    <3>2. Untouched(u)
      BY <1>1, <1>4, <1>5, <2>2 DEF Untouched, SamePlace
    <3> QED BY <1>1, <1>7, <2>1, <3>1, <3>2, KeepsTime
  <2>3. CASE u = t
    <3>1. Matters(t)' <=> t \in timeoutAll /\ t \notin raced
      BY <1>1, <1>4 DEF Matters
    <3>2. /\ timer'[t].due = timer[t].due /\ timer'[t].seen = timer[t].seen
          /\ timer'[t].m_round = timer[t].m_round
          /\ timer'[t].m_elapseRound = timer[t].m_elapseRound
      BY <1>1 DEF WheelInv, WheelTypes, TimerObjects
    <3>3. \A d, b, o : Timely(timer'[t], d, b, o) <=> Timely(timer[t], d, b, o)
      BY <3>2 DEF Timely
    <3>4. Matters(t)' => Matters(t)
      BY <3>1 DEF Matters
    <3> QED BY <1>1, <1>5, <1>7, <2>1, <2>3, <3>2, <3>3, <3>4 DEF TimeOf
  <2> QED BY <2>2, <2>3
<1>9. WheelTimes'
  BY <1>1, <1>2, <1>8 DEF WheelInv, WheelTypes, WheelTimes, TimeOf
<1> QED BY <1>2, <1>3, <1>6, <1>9 DEF WheelInv

\* When every timer keeps its place and its time, all is as it should be.
LEMMA TimersTogether ==
  ASSUME WheelTypes', WheelStages', \A u \in Timers : OnePlace(u)' /\ TimeOf(u)', early' = {}
  PROVE  WheelInv'
BY DEF WheelInv, WheelTypes, WheelTimes, TimeOf

LEMMA OnTickKeeps ==
  ASSUME WheelInv, NEW late \in 0 .. MaxLate, Wheel!OnTick(late), Single' = Single
  PROVE  WheelInv'
<1>1. PICK passed, waiting :
        /\ passed = SLOT_CHANGE_TIME + late
        /\ waiting = Wheel!Waiting
        /\ timer' = [t \in Timers |->
             IF t \in waiting
             THEN [timer[t] EXCEPT !.due = @ - passed,
                     !.seen = IF @ = Wheel!NotSeen THEN @ ELSE @ + passed]
             ELSE timer[t]]
  BY DEF Wheel!OnTick, Wheel!Sleep
<1>2. /\ stage = "sleep" /\ stage' = "visit" /\ curslot' = m_currSlot
      /\ m_currSlot' = (m_currSlot + 1) % SLOT_COUNT
      /\ UNCHANGED <<m_slots, timeoutAll, toErase, reset, m_timeout, taken, fired, raced, early>>
      /\ late >= overdue /\ overdue' = 0
  BY DEF Wheel!OnTick, Wheel!Sleep, Wheel!single, Wheel!history
<1>3. /\ late \in Nat /\ passed \in Nat /\ passed >= SLOT_CHANGE_TIME
      /\ Slack' = Slack /\ Slack \in Nat
  <2>1. MaxLate \in Nat /\ SLOT_CHANGE_TIME \in Nat
    BY WheelAssumption
  <2>2. Slack' = Slack
    BY DEF Slack
  <2>3. Slack \in Nat
    BY <2>1 DEF Slack
  <2>4. late \in Nat
    BY ONLY <2>1, late \in 0 .. MaxLate
  <2>5. passed = SLOT_CHANGE_TIME + late
    BY <1>1
  <2>6. passed \in Nat /\ passed >= SLOT_CHANGE_TIME
    BY ONLY <2>1, <2>4, <2>5
  <2> QED BY <2>2, <2>3, <2>4, <2>6
<1>4. timeoutAll = {} /\ toErase = {} /\ m_currSlot \in Wheel!Slots
  BY <1>2 DEF WheelInv, WheelStages, WheelTypes
<1>5. ASSUME NEW u \in Timers
      PROVE  /\ timer'[u] \in TimerObjects /\ timer'[u].due <= timer[u].due
             /\ timer'[u].type = timer[u].type /\ timer'[u].m_delflag = timer[u].m_delflag
  <2>1. timer[u] \in TimerObjects /\ timer[u].due \in Int /\ timer[u].seen \in Int
    BY DEF WheelInv, WheelTypes, TimerObjects
  <2>2. CASE u \in waiting
    <3>1. PICK d, n : /\ d = timer[u].due - passed
                      /\ n = IF timer[u].seen = Wheel!NotSeen THEN timer[u].seen
                             ELSE timer[u].seen + passed
      OBVIOUS
    <3>2. d \in Int /\ n \in Int /\ d <= timer[u].due
      BY <1>3, <2>1, <3>1
    <3>3. timer'[u] = Later(timer[u], d, n)
      BY <1>1, <2>2, <3>1 DEF Later
    <3> QED BY <2>1, <3>2, <3>3, LaterIs
  <2>3. CASE u \notin waiting
    <3>1. timer'[u] = timer[u]
      BY <1>1, <2>3
    <3> QED BY <2>1, <3>1
  <2> QED BY <2>2, <2>3
<1>6. /\ m_currSlot' \in Wheel!Slots /\ TicksFrom(m_currSlot, m_currSlot) = 1
      /\ \A s \in Wheel!Slots : /\ TicksFrom(m_currSlot, s) \in 1 .. SLOT_COUNT
                                /\ s # m_currSlot =>
                                    TicksFrom(m_currSlot', s) = TicksFrom(m_currSlot, s) - 1
  BY <1>2, <1>4, SlotsNearer
<1>7. WheelTypes'
  <2>1. timer' \in [Timers -> TimerObjects]
    BY <1>1, <1>5
  <2>2. overdue' \in 0 .. MaxLate
    BY <1>2, WheelAssumption
  <2> QED BY <1>2, <1>6, <2>1, <2>2 DEF WheelInv, WheelTypes
<1>8. WheelStages'
  BY <1>2, <1>4 DEF WheelInv, WheelStages
<1>9. \A u \in Timers, s \in Wheel!Slots : InSlot(u, s)' <=> InSlot(u, s)
  BY <1>2, <1>4 DEF InSlot
<1>10. ASSUME NEW u \in Timers PROVE OnePlace(u)'
  <2>1. SamePlace(u)
    BY <1>2, <1>5, <1>9 DEF SamePlace
  <2> QED BY <2>1, KeepsPlace DEF WheelInv
<1>11. ASSUME NEW u \in Timers PROVE TimeOf(u)'
  <2>1. TimeOf(u) /\ timer[u] \in TimerObjects
    BY TimesOfTimers DEF WheelInv, WheelTypes
  <2>2. Matters(u)' => Matters(u)
    BY <1>2, <1>5 DEF Matters
  <2>3. ASSUME NEW s \in Wheel!Slots, InSlot(u, s)', Matters(u)'
        PROVE  Timely(timer'[u], TicksLeft(u, s)', Slack', overdue')
    <3>1. InSlot(u, s) /\ Timely(timer[u], TicksLeft(u, s), Slack, overdue)
      BY <1>9, <2>1, <2>2, <2>3 DEF TimeOf
    <3>2. PICK d : d = TicksFrom(m_currSlot, s)
      OBVIOUS
    <3>3. d \in Nat /\ d >= 1 /\ TicksLeft(u, s) = d /\ TicksLeft(u, s)' = d - 1
      <4>0. SLOT_COUNT \in Nat
        BY WheelAssumption
      <4>1. d \in 1 .. SLOT_COUNT /\ SLOT_COUNT \in Nat
        <5>1. TicksFrom(m_currSlot, s) \in 1 .. SLOT_COUNT
          BY <1>6
        <5> QED BY <3>2, <4>0, <5>1
      <4>2. d \in Nat /\ d >= 1
        BY <4>1
      <4>3. TicksLeft(u, s) = d
        BY <1>2, <1>4, <3>2 DEF TicksLeft
      <4>4. TicksLeft(u, s)' = IF s = m_currSlot THEN 0 ELSE TicksFrom(m_currSlot', s)
        BY <1>2, <1>4 DEF TicksLeft
      <4>5. s = m_currSlot => d = 1
        BY <1>6, <3>2
      <4>6. s # m_currSlot => TicksFrom(m_currSlot', s) = d - 1
        <5>1. s # m_currSlot => TicksFrom(m_currSlot', s) = TicksFrom(m_currSlot, s) - 1
          BY <1>6
        <5> QED BY <3>2, <5>1
      <4> QED BY ONLY <4>2, <4>3, <4>4, <4>5, <4>6
    <3>4. u \in waiting
      <4>1. u \in m_slots[s] /\ Wheel!Registered(u)
        BY <3>1 DEF InSlot, WheelInv, OnePlace, Placed
      <4>2. ~timer[u].m_delflag
        BY <1>4, <2>2, <2>3 DEF Matters
      <4> QED BY <1>1, <4>1, <4>2 DEF Wheel!Armed, Wheel!Waiting
    <3>5. timer'[u] = [timer[u] EXCEPT !.due = @ - (SLOT_CHANGE_TIME + late),
                       !.seen = IF @ = Wheel!NotSeen THEN @ ELSE @ + (SLOT_CHANGE_TIME + late)]
      BY <1>1, <3>4
    <3>6. Timely(timer'[u], d - 1, Slack, 0)
      <4>1. overdue \in Nat
        BY OverdueIsNat DEF WheelInv
      <4> QED BY <1>2, <1>3, <2>1, <3>1, <3>3, <3>5, <4>1, TickKeepsTimely
    <3> QED BY <1>2, <1>3, <3>3, <3>6
  <2>4. u \in m_timeout' \cup taken' /\ Matters(u)' => timer'[u].due < Slack'
    <3>1. timer[u].due \in Int /\ timer'[u].due \in Int
      BY <1>5, <2>1 DEF TimerObjects
    <3> QED BY <1>2, <1>3, <1>5, <2>1, <2>2, <3>1 DEF TimeOf
  <2> QED BY <2>3, <2>4 DEF TimeOf
<1>12. early' = {}
  BY <1>2 DEF WheelInv, WheelTimes
<1> QED BY <1>7, <1>8, <1>10, <1>11, <1>12, TimersTogether

\* The slot is listed.
LEMMA ListTimersKeeps == ASSUME WheelInv, Wheel!ListTimers, Single' = Single PROVE WheelInv'
<1>1. PICK all :
      /\ all = {t \in m_slots[curslot] : Wheel!Armed(t)} /\ timeoutAll' = all
      /\ m_slots' = [m_slots EXCEPT ![curslot] = all]
      /\ stage = "visit" /\ ~Single /\ stage' = "fire"
      /\ UNCHANGED <<m_currSlot, timer, curslot, toErase, reset, m_timeout, taken, fired, raced, early, overdue>>
  BY DEF Wheel!ListTimers, Wheel!single, Wheel!history, Single
<1>2. timeoutAll = {} /\ toErase = {} /\ curslot \in Wheel!Slots /\ all \subseteq Timers
  BY <1>1 DEF WheelInv, WheelStages, WheelTypes
<1>3. WheelTypes'
  BY <1>1, <1>2 DEF WheelInv, WheelTypes
<1>4. m_slots'[curslot] = all /\ \A s \in Wheel!Slots \ {curslot} : m_slots'[s] = m_slots[s]
  BY <1>1, <1>2 DEF WheelInv, WheelTypes
<1>5. WheelStages'
  BY <1>1, <1>2, <1>4 DEF WheelInv, WheelStages
<1>6. \A u \in Timers, s \in Wheel!Slots :
        InSlot(u, s)' <=> InSlot(u, s) /\ (s = curslot => Wheel!Armed(u))
  BY <1>1, <1>2, <1>4 DEF InSlot
<1>7. Slack' = Slack
  BY DEF Slack
<1>8. ASSUME NEW u \in Timers PROVE OnePlace(u)' /\ TimeOf(u)'
  <2>1. OnePlace(u) /\ TimeOf(u)
    BY TimesOfTimers DEF WheelInv
  <2>2. CASE InSlot(u, curslot) /\ ~Wheel!Armed(u)
    <3>1. \A s \in Wheel!Slots : ~InSlot(u, s)'
      BY <1>2, <1>6, <2>1, <2>2 DEF OnePlace
    <3>2. ~WithThread(u)' /\ ~Placed(u)'
      BY <1>1, <1>2, <2>1, <2>2, <3>1 DEF OnePlace, WithThread, Placed
    <3>3. /\ (Wheel!Registered(u)' <=> Wheel!Registered(u)) /\ ~Wheel!Due(u)'
          /\ (fired[u] <=> fired'[u]) /\ u \notin toErase'
      BY <1>1, <1>2, <2>2 DEF Wheel!Registered, Wheel!Due, Wheel!Armed
    <3>4. OnePlace(u)'
      BY <2>1, <3>1, <3>2, <3>3 DEF OnePlace, WithThread
    <3>5. TimeOf(u)'
      BY <3>1, <3>2 DEF TimeOf, WithThread
    <3> QED BY <3>4, <3>5
  <2>3. CASE ~(InSlot(u, curslot) /\ ~Wheel!Armed(u))
    <3>1. Untouched(u)
      BY <1>1, <1>2, <1>6, <2>3 DEF Untouched, SamePlace
    <3>2. Matters(u)' => Matters(u)
      BY <1>1 DEF Matters, Wheel!Armed
    <3>3. \A s \in Wheel!Slots : InSlot(u, s) => TicksLeft(u, s)' = TicksLeft(u, s)
      BY <1>1, <1>2, <2>3 DEF TicksLeft, InSlot
    <3> QED BY <1>1, <1>7, <2>1, <3>1, <3>2, <3>3, KeepsPlace, KeepsTime DEF Untouched
  <2> QED BY <2>2, <2>3
<1>9. early' = {}
  BY <1>1 DEF WheelInv, WheelTimes
<1> QED BY <1>3, <1>5, <1>8, <1>9, TimersTogether

\* The slot is cleared of those that left it.
LEMMA EraseAllKeeps == ASSUME WheelInv, Wheel!EraseAll, Single' = Single PROVE WheelInv'
<1>1. /\ m_slots' = [m_slots EXCEPT ![curslot] = @ \ toErase] /\ toErase' = {}
      /\ stage = "fire" /\ timeoutAll = {} /\ stage' = "attach"
      /\ UNCHANGED <<m_currSlot, timer, curslot, timeoutAll, reset, m_timeout, taken, fired, raced, early, overdue>>
  BY DEF Wheel!EraseAll, Wheel!Remaining, Wheel!single, Wheel!history
<1>2. WheelTypes'
  BY <1>1 DEF WheelInv, WheelTypes
<1>3. WheelStages'
  BY <1>1 DEF WheelInv, WheelStages
<1>4. \A u \in Timers, s \in Wheel!Slots : InSlot(u, s)' <=> InSlot(u, s)
  BY <1>1 DEF InSlot, WheelInv, WheelTypes
<1>5. ASSUME NEW u \in Timers PROVE OnePlace(u)' /\ TimeOf(u)'
  <2>1. Untouched(u)
    BY <1>1, <1>4 DEF Untouched, SamePlace
  <2>2. (Matters(u)' => Matters(u)) /\ Slack' = Slack
    BY <1>1 DEF Matters, Slack
  <2>3. \A s \in Wheel!Slots : TicksLeft(u, s)' = TicksLeft(u, s)
    BY <1>1 DEF TicksLeft
  <2>4. OnePlace(u) /\ TimeOf(u)
    BY TimesOfTimers DEF WheelInv
  <2> QED BY <1>1, <2>1, <2>2, <2>3, <2>4, KeepsPlace, KeepsTime DEF Untouched
<1>6. early' = {}
  BY <1>1 DEF WheelInv, WheelTimes
<1> QED BY <1>2, <1>3, <1>5, <1>6, TimersTogether

LEMMA AttachDoneKeeps == ASSUME WheelInv, Wheel!AttachDone, Single' = Single PROVE WheelInv'
<1>1. /\ stage = "attach" /\ reset = {} /\ stage' = "sleep"
      /\ UNCHANGED <<m_slots, m_currSlot, timer, curslot, timeoutAll, toErase, reset,
                     m_timeout, taken, fired, raced, early, overdue>>
  BY DEF Wheel!AttachDone, Wheel!single, Wheel!history
<1>2. WheelTypes'
  BY <1>1 DEF WheelInv, WheelTypes
<1>3. WheelStages'
  BY <1>1 DEF WheelInv, WheelStages
<1>4. \A u \in Timers, s \in Wheel!Slots : InSlot(u, s)' <=> InSlot(u, s)
  BY <1>1 DEF InSlot
<1>5. ASSUME NEW u \in Timers PROVE OnePlace(u)' /\ TimeOf(u)'
  <2>1. Untouched(u)
    BY <1>1, <1>4 DEF Untouched, SamePlace
  <2>2. (Matters(u)' => Matters(u)) /\ Slack' = Slack
    BY <1>1 DEF Matters, Slack
  <2>3. \A s \in Wheel!Slots : TicksLeft(u, s)' = TicksLeft(u, s)
    BY <1>1 DEF TicksLeft
  <2>4. OnePlace(u) /\ TimeOf(u)
    BY TimesOfTimers DEF WheelInv
  <2> QED BY <1>1, <2>1, <2>2, <2>3, <2>4, KeepsPlace, KeepsTime DEF Untouched
<1>6. early' = {}
  BY <1>1 DEF WheelInv, WheelTimes
<1> QED BY <1>2, <1>3, <1>5, <1>6, TimersTogether

\* A timer that a step does not touch.
LEMMA Undisturbed ==
  ASSUME WheelInv, NEW u \in Timers, Untouched(u), Slack' = Slack, Matters(u)' => Matters(u),
         \A s \in Wheel!Slots : InSlot(u, s) => TicksLeft(u, s)' = TicksLeft(u, s),
         overdue' = overdue
  PROVE  OnePlace(u)' /\ TimeOf(u)'
<1>1. OnePlace(u) /\ TimeOf(u)
  BY TimesOfTimers DEF WheelInv
<1> QED BY <1>1, KeepsPlace, KeepsTime DEF Untouched

\* Loop timers go back into the wheel, from either thread.
LEMMA AttachNextKeeps ==
  ASSUME WheelInv, NEW t \in Timers, Wheel!AttachNext(t), Single' = Single PROVE WheelInv'
<1>1. /\ stage = "attach" /\ t \in reset /\ Wheel!Reattach(t, 0) /\ reset' = reset \ {t}
      /\ UNCHANGED <<m_currSlot, stage, curslot, timeoutAll, toErase, m_timeout, taken, fired, early>>
      /\ overdue' = overdue
  BY DEF Wheel!AttachNext, Wheel!single
<1>2. t \notin toErase /\ Wheel!Loops(t)
  BY <1>1 DEF WheelInv, WheelStages, OnePlace
<1>3. 0 \in Wheel!Ahead
  BY WheelAssumption DEF Wheel!Ahead
<1>4. overdue' \in 0 .. MaxLate /\ overdue <= overdue' /\ 0 <= SLOT_CHANGE_TIME + overdue'
  BY <1>1, WheelAssumption DEF WheelInv, WheelTypes
<1> QED BY <1>1, <1>2, <1>3, <1>4, ReattachKeeps

LEMMA TickAttachKeeps ==
  ASSUME WheelInv, NEW t \in Timers, Wheel!TickAttach(t), Single' = Single PROVE WheelInv'
<1>1. PICK ahead \in Wheel!Ahead : Wheel!Reattach(t, ahead) /\ Wheel!ReadClock(ahead)
  BY DEF Wheel!TickAttach
<1>2. /\ Single /\ t \in reset /\ reset' = reset \ {t}
      /\ UNCHANGED <<m_currSlot, stage, curslot, timeoutAll, toErase, m_timeout, taken, fired, early>>
  BY DEF Wheel!TickAttach, Wheel!single, Single
<1>3. t \notin toErase /\ Wheel!Loops(t)
  BY <1>2 DEF WheelInv, WheelStages, OnePlace
<1>4. /\ overdue' \in 0 .. MaxLate /\ overdue <= overdue'
      /\ ahead <= SLOT_CHANGE_TIME + overdue'
  BY <1>1, ClockRead DEF WheelInv
<1> QED BY <1>1, <1>2, <1>3, <1>4, ReattachKeeps

\* What the main loop takes.
LEMMA TickKeeps == ASSUME WheelInv, Wheel!Tick, Single' = Single PROVE WheelInv'
<1>1. /\ Single /\ taken = {} /\ taken' = m_timeout /\ m_timeout' = {}
      /\ UNCHANGED <<m_slots, m_currSlot, timer, stage, curslot, timeoutAll, toErase, reset,
                     fired, raced, early, overdue>>
  BY DEF Wheel!Tick, Wheel!visit, Wheel!history, Single
<1>2. WheelTypes' /\ WheelStages'
  BY <1>1 DEF WheelInv, WheelTypes, WheelStages
<1>3. ASSUME NEW u \in Timers PROVE OnePlace(u)' /\ TimeOf(u)'
  <2>1. OnePlace(u) /\ TimeOf(u)
    BY TimesOfTimers DEF WheelInv
  <2>2. \A s \in Wheel!Slots : InSlot(u, s)' <=> InSlot(u, s)
    BY <1>1 DEF InSlot
  <2>3. (WithThread(u)' <=> WithThread(u)) /\ (Placed(u)' <=> Placed(u))
    BY <1>1, <2>2 DEF WithThread, Placed
  <2>4. /\ Wheel!Registered(u)' <=> Wheel!Registered(u)
        /\ Wheel!Loops(u)' <=> Wheel!Loops(u)
        /\ Wheel!Due(u)' <=> Wheel!Due(u)
    BY <1>1 DEF Wheel!Registered, Wheel!Loops, Wheel!Due, Wheel!Armed
  <2>5. OnePlace(u)'
    BY <1>1, <2>1, <2>2, <2>3, <2>4 DEF OnePlace
  <2>6. Slack' = Slack /\ (Matters(u)' <=> Matters(u))
        /\ \A s \in Wheel!Slots : TicksLeft(u, s)' = TicksLeft(u, s)
    BY <1>1 DEF Slack, Matters, TicksLeft
  <2>7. TimeOf(u)'
    BY <1>1, <2>1, <2>2, <2>6 DEF TimeOf
  <2> QED BY <2>5, <2>7
<1>4. early' = {}
  BY <1>1 DEF WheelInv, WheelTimes
<1> QED BY <1>2, <1>3, <1>4, TimersTogether

\* A timer that the main loop calls back.
LEMMA TickNextKeeps ==
  ASSUME WheelInv, NEW t \in Timers, Wheel!TickNext(t), Single' = Single PROVE WheelInv'
<1>1. /\ t \in taken /\ taken' = taken \ {t}
      /\ reset' = IF Wheel!Loops(t) THEN reset \cup {t} ELSE reset
      /\ UNCHANGED <<m_slots, m_currSlot, timer, stage, curslot, timeoutAll, toErase, m_timeout>>
  BY DEF Wheel!TickNext
<1>2. /\ IF timer[t].m_delflag THEN fired' = fired ELSE fired' = [fired EXCEPT ![t] = ~@]
      /\ raced' = raced \/ raced' = raced \ {t}
      /\ early' = early \/ /\ ~timer[t].m_delflag /\ t \notin raced
                           /\ timer[t].due >= 2 * SLOT_CHANGE_TIME
      /\ overdue' = overdue
  BY DEF Wheel!TickNext, Wheel!Calls, Wheel!CallBack, Wheel!history
<1>3. Single /\ OnePlace(t) /\ TimeOf(t) /\ timer[t] \in TimerObjects /\ WithThread(t)
  BY <1>1, TimesOfTimers DEF WheelInv, WheelStages, WheelTypes, WithThread
<1>4. /\ t \notin reset /\ t \notin m_timeout /\ \A s \in Wheel!Slots : ~InSlot(t, s)
      /\ Wheel!Registered(t) /\ (~Wheel!Loops(t) => ~fired[t])
  BY <1>1, <1>3 DEF OnePlace, Placed
<1>5. fired' \in [Timers -> BOOLEAN] /\ \A u \in Timers \ {t} : fired'[u] = fired[u]
  BY <1>2 DEF WheelInv, WheelTypes
<1>6. WheelTypes' /\ WheelStages'
  <2>1. raced' \subseteq Timers
    BY <1>2 DEF WheelInv, WheelTypes
  <2>2. WheelTypes'
    BY <1>1, <1>2, <1>5, <2>1 DEF WheelInv, WheelTypes
  <2>3. WheelStages'
    BY <1>1, <1>3 DEF WheelInv, WheelStages
  <2> QED BY <2>2, <2>3
<1>7. \A u \in Timers, s \in Wheel!Slots : InSlot(u, s)' <=> InSlot(u, s)
  BY <1>1 DEF InSlot
<1>8. Slack' = Slack /\ \A u \in Timers, s \in Wheel!Slots : TicksLeft(u, s)' = TicksLeft(u, s)
  BY <1>1 DEF Slack, TicksLeft
<1>9. ASSUME NEW u \in Timers PROVE OnePlace(u)' /\ TimeOf(u)'
  <2>1. CASE u # t
    <3>1. Untouched(u)
      BY <1>1, <1>5, <1>7, <2>1 DEF Untouched, SamePlace
    <3>2. Matters(u)' => Matters(u)
      BY <1>1, <1>2, <2>1 DEF Matters
    <3> QED BY <1>2, <1>8, <3>1, <3>2, Undisturbed
  <2>2. CASE u = t
    <3>1. /\ \A s \in Wheel!Slots : ~InSlot(t, s)'
          /\ t \notin m_timeout' /\ t \notin taken' /\ (t \in reset' <=> Wheel!Loops(t))
      BY <1>1, <1>4, <1>7
    <3>2. TimeOf(t)'
      BY <3>1 DEF TimeOf
    <3>3. (Placed(t)' <=> Wheel!Loops(t)) /\ (WithThread(t)' <=> Wheel!Loops(t))
      BY <3>1 DEF Placed, WithThread
    <3>4. Wheel!Registered(t)' /\ (Wheel!Loops(t)' <=> Wheel!Loops(t))
      BY <1>1, <1>4 DEF Wheel!Registered, Wheel!Loops
    <3>5. Wheel!Due(t)' => Wheel!Loops(t)
      <4>1. SUFFICES ASSUME ~Wheel!Loops(t), ~timer[t].m_delflag PROVE fired'[t]
        BY <1>1 DEF Wheel!Due, Wheel!Armed, Wheel!Loops
      <4>2. fired' = [fired EXCEPT ![t] = ~@] /\ fired \in [Timers -> BOOLEAN] /\ ~fired[t]
        BY <1>2, <1>4, <4>1 DEF WheelInv, WheelTypes
      <4> QED BY <4>2
    <3> QED BY <2>2, <3>1, <3>2, <3>3, <3>4, <3>5 DEF OnePlace
  <2> QED BY <2>1, <2>2
<1>10. early' = {}
  <2>1. SUFFICES ASSUME ~timer[t].m_delflag, t \notin raced, timer[t].due >= 2 * SLOT_CHANGE_TIME
                 PROVE  FALSE
    BY <1>2 DEF WheelInv, WheelTimes
  <2>2. timer[t].due < 2 * SLOT_CHANGE_TIME
    BY <1>1, <1>3, <2>1 DEF TimeOf, Matters, Slack
  <2>3. timer[t].due \in Int /\ 2 * SLOT_CHANGE_TIME \in Int
    BY <1>3, WheelAssumption DEF TimerObjects
  <2> QED BY <2>1, <2>2, <2>3
<1> QED BY <1>6, <1>9, <1>10, TimersTogether

\* A timer that the wheel's own thread calls back leaves the slot.
LEMMA FireNextKeeps ==
  ASSUME WheelInv, NEW t \in Timers, Wheel!FireNext(t), Single' = Single PROVE WheelInv'
<1>1. /\ stage = "fire" /\ t \in timeoutAll /\ Wheel!Expires(timer[t])
      /\ timeoutAll' = timeoutAll \ {t} /\ toErase' = toErase \cup {t}
      /\ fired' = [fired EXCEPT ![t] = ~@] /\ raced' = raced \ {t}
      /\ early' = early \/ (timer[t].due >= SLOT_CHANGE_TIME /\ t \notin raced)
      /\ IF Wheel!Loops(t)
         THEN reset' = reset \cup {t} /\ timer' = timer
         ELSE timer' = [timer EXCEPT ![t].m_delflag = TRUE] /\ reset' = reset
      /\ UNCHANGED <<m_slots, m_currSlot, stage, curslot, m_timeout, taken, overdue>>
  BY DEF Wheel!FireNext, Wheel!CallBack, Wheel!single
<1>2. /\ ~Single /\ curslot \in Wheel!Slots /\ InSlot(t, curslot) /\ m_timeout = {} /\ taken = {}
      /\ OnePlace(t) /\ TimeOf(t) /\ timer[t] \in TimerObjects
  BY <1>1, TimesOfTimers DEF WheelInv, WheelStages, WheelTypes, InSlot
<1>3. t \notin toErase /\ t \notin reset /\ Wheel!Registered(t)
  BY <1>2 DEF OnePlace, Placed, InSlot, WithThread
<1>4. /\ fired' \in [Timers -> BOOLEAN] /\ (fired'[t] <=> ~fired[t])
      /\ \A u \in Timers \ {t} : fired'[u] = fired[u]
  BY <1>1 DEF WheelInv, WheelTypes
<1>5. /\ timer' \in [Timers -> TimerObjects] /\ timer'[t].type = timer[t].type
      /\ (~Wheel!Loops(t) => timer'[t].m_delflag)
      /\ \A u \in Timers \ {t} : timer'[u] = timer[u]
  <2>1. timer \in [Timers -> TimerObjects]
    BY DEF WheelInv, WheelTypes
  <2>2. CASE Wheel!Loops(t)
    BY <1>1, <2>1, <2>2
  <2>3. CASE ~Wheel!Loops(t)
    <3>1. PICK x : x = [timer[t] EXCEPT !.m_delflag = TRUE]
      OBVIOUS
    <3>2. x \in TimerObjects /\ x.type = timer[t].type /\ x.m_delflag
      BY <1>2, <3>1 DEF TimerObjects
    <3>3. timer' = [timer EXCEPT ![t] = x]
      BY <1>1, <2>3, <3>1
    <3> QED BY <2>1, <3>2, <3>3
  <2> QED BY <2>2, <2>3
<1>6. WheelTypes'
  BY <1>1, <1>4, <1>5 DEF WheelInv, WheelTypes
<1>7. WheelStages'
  BY <1>1, <1>2 DEF WheelInv, WheelStages
<1>8. \A u \in Timers, s \in Wheel!Slots : InSlot(u, s)' <=> InSlot(u, s) /\ u # t
  BY <1>1, <1>2 DEF InSlot, OnePlace
<1>9. ASSUME NEW u \in Timers PROVE OnePlace(u)' /\ TimeOf(u)'
  <2>1. CASE u # t
    <3>1. Untouched(u)
      BY <1>1, <1>4, <1>5, <1>8, <2>1 DEF Untouched, SamePlace
    <3>2. (Matters(u)' => Matters(u)) /\ Slack' = Slack
      BY <1>1, <1>5, <2>1 DEF Matters, Slack
    <3>3. \A s \in Wheel!Slots : TicksLeft(u, s)' = TicksLeft(u, s)
      BY <1>1, <2>1 DEF TicksLeft
    <3> QED BY <1>1, <3>1, <3>2, <3>3, Undisturbed
  <2>2. CASE u = t
    <3>1. /\ \A s \in Wheel!Slots : ~InSlot(t, s)'
          /\ t \notin m_timeout' /\ t \notin taken' /\ (t \in reset' <=> Wheel!Loops(t))
      BY <1>1, <1>2, <1>3, <1>8
    <3>2. TimeOf(t)'
      BY <3>1 DEF TimeOf
    <3>3. (Placed(t)' <=> Wheel!Loops(t)) /\ (WithThread(t)' <=> Wheel!Loops(t))
      BY <3>1 DEF Placed, WithThread
    <3>4. Wheel!Registered(t)' /\ (Wheel!Loops(t)' <=> Wheel!Loops(t))
      BY <1>3, <1>5 DEF Wheel!Registered, Wheel!Loops
    <3>5. Wheel!Due(t)' => Wheel!Loops(t)
      BY <1>5 DEF Wheel!Due, Wheel!Armed
    <3> QED BY <2>2, <3>1, <3>2, <3>3, <3>4, <3>5 DEF OnePlace
  <2> QED BY <2>1, <2>2
<1>10. early' = {}
  <2>1. SUFFICES ASSUME t \notin raced, timer[t].due >= SLOT_CHANGE_TIME PROVE FALSE
    BY <1>1 DEF WheelInv, WheelTimes
  <2>2. TicksLeft(t, curslot) = 0 /\ Slack = SLOT_CHANGE_TIME
    BY <1>1, <1>2 DEF TicksLeft, Slack
  <2>3. Timely(timer[t], 0, SLOT_CHANGE_TIME, overdue)
    BY <1>1, <1>2, <2>1, <2>2 DEF TimeOf, Matters
  <2>4. SLOT_CHANGE_TIME \in Nat \ {0}
    BY WheelAssumption
  <2>5. timer[t].due < SLOT_CHANGE_TIME
    <3>1. overdue \in Nat
      BY OverdueIsNat DEF WheelInv
    <3> QED BY <1>1, <1>2, <2>3, <2>4, <3>1, ExpiresInTime
  <2>6. timer[t].due \in Int
    BY <1>2 DEF TimerObjects
  <2> QED BY <2>1, <2>4, <2>5, <2>6
<1> QED BY <1>6, <1>7, <1>9, <1>10, TimersTogether

\* A visit, whatever the times.
LEMMA VisitIs ==
  ASSUME NEW x \in TimerObjects, NEW s \in Wheel!Slots
  PROVE  /\ Wheel!Visited(x) \in TimerObjects /\ Wheel!SlotOf(x, s) \in Wheel!Slots
         /\ Wheel!Visited(x).type = x.type /\ Wheel!Visited(x).m_delflag = x.m_delflag
<1>1. SLOT_COUNT \in Nat \ {0} /\ SLOT_CHANGE_TIME \in Nat \ {0} /\ Wheel!Round \in Nat \ {0}
  BY WheelAssumption DEF Wheel!Round
<1>2. x.seen \in Int /\ x.m_elapseRound \in Int /\ x.m_round \in Int
  BY DEF TimerObjects
<1>3. Wheel!SlotOf(x, s) \in Wheel!Slots
  <2>1. PICK j : j = (x.seen % Wheel!Round) \div SLOT_CHANGE_TIME
    OBVIOUS
  <2>2. x.seen % Wheel!Round \in Int
    BY <1>1, <1>2, DivMod
  <2>3. j \in Int
    <3>1. PICK k : k = x.seen % Wheel!Round
      OBVIOUS
    <3>2. k \in Int /\ j = k \div SLOT_CHANGE_TIME
      BY <2>1, <2>2, <3>1
    <3> QED BY ONLY <1>1, <3>2, DivMod
  <2>4. s - j \in Int
    BY <2>3 DEF Wheel!Slots
  <2>5. (s - j) % SLOT_COUNT \in 0 .. SLOT_COUNT - 1
    BY <1>1, <2>4, DivMod
  <2> QED BY <2>1, <2>5 DEF Wheel!SlotOf, Wheel!Slots
<1>4. PICK y, z : y = Wheel!Visited(x) /\ z = [x EXCEPT !.m_round = @ - 1]
  OBVIOUS
<1>5. z \in TimerObjects /\ z.type = x.type /\ z.m_delflag = x.m_delflag /\ z.seen = x.seen
      /\ z.m_elapseRound = x.m_elapseRound
  BY <1>2, <1>4 DEF TimerObjects
<1>6. \E n, e \in Int : y = [z EXCEPT !.seen = n, !.m_elapseRound = e]
  <2>1. x.seen - x.m_elapseRound * Wheel!Round \in Int /\ x.m_elapseRound + 1 \in Int
        /\ 0 \in Int /\ 1 \in Int
    BY <1>1, <1>2
  <2>2. CASE x.seen = Wheel!NotSeen
    BY <1>4, <2>1, <2>2 DEF Wheel!Visited
  <2>3. CASE x.seen # Wheel!NotSeen /\ Wheel!Drifted(x)
    <3>1. y = [z EXCEPT !.seen = x.seen - x.m_elapseRound * Wheel!Round, !.m_elapseRound = 1]
      BY <1>4, <1>5, <2>3 DEF Wheel!Visited, TimerObjects
    <3> QED BY <2>1, <3>1
  <2>4. CASE x.seen # Wheel!NotSeen /\ ~Wheel!Drifted(x)
    <3>1. y = [z EXCEPT !.m_elapseRound = x.m_elapseRound + 1]
      BY <1>4, <1>5, <2>4 DEF Wheel!Visited, TimerObjects
    <3>2. y = [z EXCEPT !.seen = x.seen, !.m_elapseRound = x.m_elapseRound + 1]
      BY <1>5, <3>1 DEF TimerObjects
    <3> QED BY <1>2, <2>1, <3>2
  <2> QED BY <2>2, <2>3, <2>4
<1>7. y \in TimerObjects /\ y.type = x.type /\ y.m_delflag = x.m_delflag
  BY <1>5, <1>6 DEF TimerObjects
<1> QED BY <1>3, <1>4, <1>7

\* A timer that stays after the visit, there or in another slot.
LEMMA PassNextKeeps ==
  ASSUME WheelInv, NEW t \in Timers, Wheel!PassNext(t), Single' = Single PROVE WheelInv'
<1>1. PICK x, y, s : x = timer[t] /\ y = Wheel!Visited(x) /\ s = Wheel!SlotOf(x, curslot)
  OBVIOUS
<1>2. /\ stage = "fire" /\ t \in timeoutAll /\ ~Wheel!Expires(x)
      /\ timeoutAll' = timeoutAll \ {t} /\ timer' = [timer EXCEPT ![t] = y]
      /\ m_slots' = [m_slots EXCEPT ![s] = @ \cup {t}]
      /\ toErase' = IF s = curslot THEN toErase ELSE toErase \cup {t}
      /\ UNCHANGED <<m_currSlot, stage, curslot, reset, m_timeout, taken, fired, raced, early, overdue>>
  BY <1>1 DEF Wheel!PassNext, Wheel!single, Wheel!history
<1>3. /\ ~Single /\ curslot \in Wheel!Slots /\ InSlot(t, curslot)
      /\ OnePlace(t) /\ TimeOf(t) /\ x \in TimerObjects
      /\ m_currSlot = (curslot + 1) % SLOT_COUNT
  BY <1>1, <1>2, TimesOfTimers DEF WheelInv, WheelStages, WheelTypes, InSlot
<1>4. y \in TimerObjects /\ s \in Wheel!Slots /\ y.type = x.type /\ y.m_delflag = x.m_delflag
  BY <1>1, <1>3, VisitIs
<1>5. timer'[t] = y /\ \A u \in Timers \ {t} : timer'[u] = timer[u]
  BY <1>2 DEF WheelInv, WheelTypes
<1>6. t \notin toErase /\ ~WithThread(t) /\ Wheel!Registered(t)
  BY <1>3 DEF OnePlace, Placed, InSlot
<1>7. /\ \A r \in Wheel!Slots : m_slots'[r] = IF r = s THEN m_slots[r] \cup {t} ELSE m_slots[r]
      /\ m_slots' \in [Wheel!Slots -> SUBSET Timers]
  BY <1>2, <1>4 DEF WheelInv, WheelTypes
<1>8. WheelTypes'
  BY <1>2, <1>4, <1>7 DEF WheelInv, WheelTypes
<1>9. WheelStages'
  BY <1>2, <1>3, <1>7 DEF WheelInv, WheelStages
<1>10. ASSUME NEW u \in Timers, NEW r \in Wheel!Slots
       PROVE  InSlot(u, r)' <=> IF u = t THEN r = s ELSE InSlot(u, r)
  <2>1. CASE u # t
    BY <1>2, <1>7, <2>1 DEF InSlot
  <2>2. CASE u = t
    <3>1. t \in m_slots[r] => r = curslot
      BY <1>3, <1>6 DEF OnePlace, InSlot
    <3> QED BY <1>2, <1>3, <1>6, <1>7, <2>2, <3>1 DEF InSlot
  <2> QED BY <2>1, <2>2
<1>11. ASSUME NEW u \in Timers PROVE OnePlace(u)' /\ TimeOf(u)'
  <2>1. CASE u # t
    <3>1. Untouched(u)
      BY <1>2, <1>5, <1>10, <2>1 DEF Untouched, SamePlace
    <3>2. (Matters(u)' => Matters(u)) /\ Slack' = Slack
      BY <1>2, <1>5, <2>1 DEF Matters, Slack
    <3>3. \A r \in Wheel!Slots : TicksLeft(u, r)' = TicksLeft(u, r)
      BY <1>2, <2>1 DEF TicksLeft
    <3> QED BY <1>2, <3>1, <3>2, <3>3, Undisturbed
  <2>2. CASE u = t
    <3>1. \A r \in Wheel!Slots : InSlot(t, r)' <=> r = s
      BY <1>10
    <3>2. (WithThread(t)' <=> WithThread(t)) /\ Placed(t)' /\ Placed(t)
      BY <1>2, <1>3, <1>4, <3>1 DEF WithThread, Placed
    <3>3. /\ Wheel!Registered(t)' <=> Wheel!Registered(t)
          /\ Wheel!Loops(t)' <=> Wheel!Loops(t)
      BY <1>1, <1>4, <1>5 DEF Wheel!Registered, Wheel!Loops
    <3>4. OnePlace(t)'
      BY <1>2, <1>3, <1>6, <3>1, <3>2, <3>3 DEF OnePlace, WithThread
    <3>5. Slack' = Slack /\ Slack \in Nat
      BY WheelAssumption DEF Slack
    <3>6. TicksLeft(t, curslot) = 0 /\ TicksLeft(t, s)' = TicksFrom(m_currSlot, s)
      BY <1>2 DEF TicksLeft
    <3>7. ASSUME Matters(t)' PROVE Timely(y, TicksFrom(m_currSlot, s), Slack, overdue)
      <4>1. Matters(t)
        BY <1>2, <3>7 DEF Matters
      <4>2. Timely(x, 0, Slack, overdue)
        BY <1>1, <1>3, <3>6, <4>1 DEF TimeOf
      <4>3. overdue \in Nat
        BY OverdueIsNat DEF WheelInv
      <4> QED BY <1>1, <1>2, <1>3, <3>5, <4>2, <4>3, VisitKeepsTimely
    <3>8. t \notin m_timeout' \cup taken'
      BY <1>2, <1>6 DEF WithThread
    <3>9. TimeOf(t)'
      BY <1>2, <1>5, <3>1, <3>5, <3>6, <3>7, <3>8 DEF TimeOf
    <3> QED BY <2>2, <3>4, <3>9
  <2> QED BY <2>1, <2>2
<1>12. early' = {}
  BY <1>2 DEF WheelInv, WheelTimes
<1> QED BY <1>8, <1>9, <1>11, <1>12, TimersTogether

\* The visit of SingleTimerManager, all at once.
LEMMA SingleVisitKeeps == ASSUME WheelInv, Wheel!SingleVisit, Single' = Single PROVE WheelInv'
<1>1. PICK all, expired, stay :
        /\ all = {t \in m_slots[curslot] : Wheel!Armed(t)}
        /\ expired = {t \in all : Wheel!Expires(timer[t])} /\ stay = all \ expired
        /\ timer' = [t \in Timers |-> IF t \in stay THEN Wheel!Visited(timer[t]) ELSE timer[t]]
        /\ m_slots' = [s \in Wheel!Slots |->
             (IF s = curslot THEN {} ELSE m_slots[s])
               \cup {t \in stay : Wheel!SlotOf(timer[t], curslot) = s}]
        /\ m_timeout' = m_timeout \cup expired
  BY DEF Wheel!SingleVisit
<1>2. /\ stage = "visit" /\ Single /\ stage' = "sleep"
      /\ UNCHANGED <<m_currSlot, curslot, timeoutAll, toErase, reset, taken, fired, raced, early, overdue>>
  BY DEF Wheel!SingleVisit, Wheel!history, Single
<1>3. /\ timeoutAll = {} /\ toErase = {} /\ curslot \in Wheel!Slots
      /\ m_currSlot = (curslot + 1) % SLOT_COUNT
      /\ m_slots[curslot] \subseteq Timers
  BY <1>2 DEF WheelInv, WheelStages, WheelTypes
<1>4. \A u \in m_slots[curslot] : InSlot(u, curslot)
  BY <1>3 DEF InSlot
<1>5. ASSUME NEW u \in Timers
      PROVE  /\ timer[u] \in TimerObjects /\ OnePlace(u) /\ TimeOf(u)
             /\ Wheel!SlotOf(timer[u], curslot) \in Wheel!Slots
             /\ timer'[u] = IF u \in stay THEN Wheel!Visited(timer[u]) ELSE timer[u]
             /\ timer'[u] \in TimerObjects /\ timer'[u].type = timer[u].type
             /\ timer'[u].m_delflag = timer[u].m_delflag
  <2>1. timer[u] \in TimerObjects /\ OnePlace(u) /\ TimeOf(u)
    BY TimesOfTimers DEF WheelInv, WheelTypes
  <2>2. timer'[u] = IF u \in stay THEN Wheel!Visited(timer[u]) ELSE timer[u]
    BY <1>1
  <2> QED BY <1>3, <2>1, <2>2, VisitIs
<1>6. WheelTypes'
  <2>1. timer' \in [Timers -> TimerObjects]
    BY <1>1, <1>5
  <2>2. m_slots' \in [Wheel!Slots -> SUBSET Timers]
    BY <1>1, <1>3 DEF WheelInv, WheelTypes
  <2>3. m_timeout' \subseteq Timers
    BY <1>1, <1>3 DEF WheelInv, WheelTypes
  <2> QED BY <1>2, <2>1, <2>2, <2>3 DEF WheelInv, WheelTypes
<1>7. WheelStages'
  BY <1>2, <1>3 DEF WheelInv, WheelStages
<1>8. ASSUME NEW u \in Timers, NEW r \in Wheel!Slots
      PROVE  InSlot(u, r)' <=> IF u \in stay THEN r = Wheel!SlotOf(timer[u], curslot)
                               ELSE InSlot(u, r) /\ r # curslot
  <2>1. InSlot(u, r)' <=> u \in m_slots'[r]
    BY <1>2, <1>3 DEF InSlot
  <2>2. InSlot(u, r) <=> u \in m_slots[r]
    BY <1>3 DEF InSlot
  <2>3. u \in m_slots'[r] <=> \/ r # curslot /\ u \in m_slots[r]
                              \/ u \in stay /\ Wheel!SlotOf(timer[u], curslot) = r
    BY <1>1
  <2>4. u \in stay => InSlot(u, curslot)
    BY <1>1, <1>4
  <2>5. OnePlace(u)
    BY <1>5
  <2> QED BY <1>3, <2>1, <2>2, <2>3, <2>4, <2>5 DEF OnePlace
<1>9. Slack' = Slack /\ Slack \in Nat \ {0}
  <2>1. SLOT_CHANGE_TIME \in Nat \ {0}
    BY WheelAssumption
  <2>2. Slack' = Slack
    BY DEF Slack
  <2> QED BY <1>2, <2>1, <2>2 DEF Slack
<1>10. \A u \in Timers, s \in Wheel!Slots : /\ s = curslot => TicksLeft(u, s) = 0
                                            /\ s # curslot => TicksLeft(u, s)' = TicksLeft(u, s)
                                            /\ TicksLeft(u, s)' = TicksFrom(m_currSlot, s)
  BY <1>2, <1>3 DEF TicksLeft
<1>11. ASSUME NEW u \in Timers
       PROVE  /\ Wheel!Registered(u)' <=> Wheel!Registered(u)
              /\ Wheel!Loops(u)' <=> Wheel!Loops(u)
              /\ Wheel!Due(u)' <=> Wheel!Due(u)
              /\ Matters(u)' <=> Matters(u)
              /\ Wheel!Due(u) => Wheel!Armed(u)
  BY <1>2, <1>3, <1>5 DEF Wheel!Registered, Wheel!Loops, Wheel!Due, Wheel!Armed, Matters
<1>12. ASSUME NEW u \in Timers PROVE OnePlace(u)' /\ TimeOf(u)'
  <2>0. OnePlace(u) /\ TimeOf(u) /\ timer[u] \in TimerObjects
    BY <1>5
  <2>1. CASE u \in stay
    <3>1. InSlot(u, curslot) /\ u \notin expired /\ ~Wheel!Expires(timer[u])
      BY <1>1, <1>4, <2>1
    <3>2. PICK s \in Wheel!Slots : s = Wheel!SlotOf(timer[u], curslot)
      BY <1>5
    <3>3. \A r \in Wheel!Slots : InSlot(u, r)' <=> r = s
      BY <1>8, <2>1, <3>2
    <3>4. Placed(u) /\ ~WithThread(u) /\ ~WithThread(u)' /\ Placed(u)'
      BY <1>1, <1>2, <1>3, <2>0, <3>1, <3>3 DEF OnePlace, WithThread, Placed
    <3>5. OnePlace(u)'
      BY <1>2, <1>11, <2>0, <3>3, <3>4 DEF OnePlace, WithThread
    <3>6. ASSUME Matters(u)' PROVE Timely(timer'[u], TicksLeft(u, s)', Slack', overdue')
      <4>1. Timely(timer[u], 0, Slack, overdue)
        BY <1>3, <1>10, <1>11, <2>0, <3>1, <3>6 DEF TimeOf
      <4>2. Slack \in Nat
        BY <1>9
      <4>3. Timely(Wheel!Visited(timer[u]), TicksFrom(m_currSlot, s), Slack, overdue)
        <5>1. overdue \in Nat
          BY OverdueIsNat DEF WheelInv
        <5> QED BY <1>3, <2>0, <3>1, <3>2, <4>1, <4>2, <5>1, VisitKeepsTimely
      <4> QED BY <1>2, <1>5, <1>9, <1>10, <2>1, <4>3
    <3>7. TimeOf(u)'
      BY <3>3, <3>4, <3>6 DEF TimeOf, WithThread
    <3> QED BY <3>5, <3>7
  <2>2. CASE u \in expired
    <3>1. InSlot(u, curslot) /\ u \notin stay /\ Wheel!Expires(timer[u])
      BY <1>1, <1>4, <2>2
    <3>2. \A r \in Wheel!Slots : ~InSlot(u, r)'
      BY <1>3, <1>8, <2>0, <3>1 DEF OnePlace
    <3>3. Placed(u) /\ ~WithThread(u) /\ u \in m_timeout' /\ WithThread(u)' /\ Placed(u)'
      BY <1>1, <1>3, <2>0, <2>2, <3>1 DEF OnePlace, WithThread, Placed
    <3>4. OnePlace(u)'
      BY <1>2, <1>11, <2>0, <3>2, <3>3 DEF OnePlace, WithThread
    <3>5. ASSUME Matters(u)' PROVE timer'[u].due < Slack'
      <4>1. Timely(timer[u], 0, Slack, overdue)
        BY <1>3, <1>10, <1>11, <2>0, <3>1, <3>5 DEF TimeOf
      <4>2. overdue \in Nat
        BY OverdueIsNat DEF WheelInv
      <4> QED BY <1>5, <1>9, <2>0, <3>1, <4>1, <4>2, ExpiresInTime
    <3>6. TimeOf(u)'
      BY <3>2, <3>5 DEF TimeOf
    <3> QED BY <3>4, <3>6
  <2>3. CASE u \notin all /\ InSlot(u, curslot)
    <3>1. ~Wheel!Armed(u) /\ u \notin stay /\ u \notin expired
      BY <1>1, <2>3 DEF InSlot
    <3>2. \A r \in Wheel!Slots : ~InSlot(u, r)'
      BY <1>3, <1>8, <2>0, <2>3, <3>1 DEF OnePlace
    <3>3. Placed(u) /\ ~WithThread(u) /\ ~WithThread(u)' /\ ~Placed(u)'
      BY <1>1, <1>2, <1>3, <2>0, <2>3, <3>1, <3>2 DEF OnePlace, WithThread, Placed
    <3>4. OnePlace(u)'
      BY <1>2, <1>11, <2>0, <3>1, <3>2, <3>3 DEF OnePlace, WithThread
    <3>5. TimeOf(u)'
      BY <3>2, <3>3 DEF TimeOf, WithThread
    <3> QED BY <3>4, <3>5
  <2>4. CASE u \notin all /\ ~InSlot(u, curslot)
    <3>1. u \notin stay /\ u \notin expired
      BY <1>1, <2>4
    <3>2. Untouched(u)
      BY <1>1, <1>2, <1>5, <1>8, <2>4, <3>1 DEF Untouched, SamePlace
    <3>3. \A r \in Wheel!Slots : InSlot(u, r) => TicksLeft(u, r)' = TicksLeft(u, r)
      BY <1>10, <2>4
    <3> QED BY <1>2, <1>9, <1>11, <3>2, <3>3, Undisturbed
  <2> QED BY <1>1, <2>1, <2>2, <2>3, <2>4
<1>13. early' = {}
  BY <1>2 DEF WheelInv, WheelTimes
<1> QED BY <1>6, <1>7, <1>12, <1>13, TimersTogether

LEMMA WheelRests ==
  ASSUME WheelInv, UNCHANGED Wheel!timerVars PROVE WheelInv'
<1>1. /\ Single' = Single
      /\ UNCHANGED <<m_slots, m_currSlot, timer, stage, curslot, timeoutAll, toErase, reset,
                     m_timeout, taken, fired, raced, early, overdue>>
  BY DEF Wheel!timerVars, Wheel!history, Single
<1>2. WheelTypes' /\ WheelStages'
  BY <1>1 DEF WheelInv, WheelTypes, WheelStages
<1>3. ASSUME NEW u \in Timers PROVE OnePlace(u)' /\ TimeOf(u)'
  <2>1. Untouched(u) /\ (Matters(u)' => Matters(u)) /\ Slack' = Slack
    BY <1>1 DEF Untouched, SamePlace, InSlot, Matters, Slack
  <2>2. \A s \in Wheel!Slots : TicksLeft(u, s)' = TicksLeft(u, s)
    BY <1>1 DEF TicksLeft
  <2> QED BY <1>1, <2>1, <2>2, Undisturbed
<1>4. early' = {}
  BY <1>1 DEF WheelInv, WheelTimes
<1> QED BY <1>2, <1>3, <1>4, TimersTogether

LEMMA WheelTurns == ASSUME WheelInv, Wheel!TimerNext PROVE WheelInv'
<1>1. Single' = Single
  BY DEF Wheel!TimerNext, Single
<1>2. CASE \E t \in Timers : Wheel!Register(t) \/ Wheel!Cancel(t)
  BY <1>1, <1>2, RegisterKeeps, CancelKeeps
<1>3. CASE Wheel!TimerThread
  BY <1>1, <1>3, OnTickKeeps, FireNextKeeps, PassNextKeeps, AttachNextKeeps, ListTimersKeeps,
     EraseAllKeeps, AttachDoneKeeps, SingleVisitKeeps DEF Wheel!TimerThread
<1>4. CASE Wheel!MainLoop
  BY <1>1, <1>4, TickKeeps, TickNextKeeps, TickAttachKeeps DEF Wheel!MainLoop
<1> QED BY <1>2, <1>3, <1>4 DEF Wheel!TimerNext

\* Places counts the places.
LEMMA WheelInvInPlace == ASSUME WheelInv PROVE Wheel!TimerInPlace /\ Wheel!NeverEarly
<1>1. Wheel!NeverEarly
  BY DEF WheelInv, WheelTimes, Wheel!NeverEarly
<1>2. SUFFICES ASSUME NEW t \in Timers
               PROVE  /\ \A p, q \in Wheel!Places(t) : p = q
                      /\ Wheel!Due(t) => Wheel!Places(t) # {}
  BY <1>1 DEF Wheel!TimerInPlace
<1>3. OnePlace(t)
  BY DEF WheelInv
<1>4. ASSUME NEW p
      PROVE  p \in Wheel!Places(t) <=>
               \/ \E s \in Wheel!Slots : InSlot(t, s) /\ p = <<"slot", s>>
               \/ t \in reset /\ p = <<"reset">>
               \/ t \in m_timeout /\ p = <<"m_timeout">>
               \/ t \in taken /\ p = <<"taken">>
  BY DEF Wheel!Places, InSlot
<1>5. ASSUME NEW p \in Wheel!Places(t), NEW q \in Wheel!Places(t) PROVE p = q
  BY <1>3, <1>4 DEF OnePlace, WithThread
<1>6. Wheel!Due(t) => Wheel!Places(t) # {}
  BY <1>3, <1>4 DEF OnePlace, Placed, WithThread
<1> QED BY <1>5, <1>6

LEMMA WheelInvTypes == ASSUME WheelInv PROVE Wheel!TimerTypeOK
<1>1. ASSUME NEW t \in Timers
      PROVE  /\ timer[t].type \in Wheel!Types \cup {"none"} /\ timer[t].m_delflag \in BOOLEAN
             /\ timer[t].due \in Int /\ timer[t].seen \in Int
             /\ timer[t].m_elapseRound \in Int /\ timer[t].m_round \in Int
  BY DEF WheelInv, WheelTypes, TimerObjects
<1>2. early \subseteq Timers
  BY DEF WheelInv, WheelTimes
<1> QED BY <1>1, <1>2 DEF WheelInv, WheelTypes, Wheel!TimerTypeOK

-----------------------------------------------------------------------------
(***************************************************************************)
(* The timers of antlib.                                                   *)
(***************************************************************************)
HTimerTypes ==
  /\ _times \in Int /\ _times \in 0 .. MaxTimes /\ _expire \in [HTimer!AllTimers -> Int]
  /\ where \in [HTimer!AllTimers -> {"none", "stamped", "queue", "near", "far", "sent"}]
  /\ ticksLeft \in -1 .. 4 /\ logfile \in 0 .. 1 /\ lapsed \in BOOLEAN
  /\ DOMAIN sentAt = HTimer!AllTimers
  /\ sentAt = [t \in HTimer!AllTimers |-> sentAt[t]]
  /\ _near \in [0 .. PERIOD - 1 -> SUBSET HTimer!AllTimers]
  /\ _far \in [0 .. PERIOD - 1 -> SUBSET HTimer!AllTimers]
  /\ inQueue \subseteq HTimer!AllTimers

\* Timer t is where it should be; in a list of this period it is due in it.
OnItsTick(t) ==
  /\ t \in inQueue <=> where[t] = "queue"
  /\ \A i \in 0 .. PERIOD - 1 : t \in _near[i] <=> where[t] = "near" /\ i = _expire[t] % PERIOD
  /\ \A i \in 0 .. PERIOD - 1 :
       t \in _far[i] <=> where[t] = "far" /\ i = (_expire[t] \div PERIOD) % PERIOD
  /\ where[t] = "near" => _times <= _expire[t] /\ _expire[t] \div PERIOD = _times \div PERIOD
  /\ where[t] = "far" => _times \div PERIOD <= _expire[t] \div PERIOD
  /\ where[t] = "sent" => \/ sentAt[t].from = "near" /\ sentAt[t].tick = _expire[t]
                          \/ sentAt[t].from # "near" /\ sentAt[t].tick >= _expire[t]

HTimerInv == HTimerTypes /\ (~lapsed => \A t \in HTimer!AllTimers : OnItsTick(t))

LEMMA HTimerStarts == ASSUME HTimer!HTimerInit PROVE HTimerInv
<1>1. HTimerTypes
  <2>1. 0 \in 0 .. MaxTimes /\ HTimer!Idle \in -1 .. 4 /\ 0 \in 0 .. 1
    BY HTimerAssumption DEF HTimer!Idle
  <2>2. _near \in [0 .. PERIOD - 1 -> SUBSET HTimer!AllTimers]
        /\ _far \in [0 .. PERIOD - 1 -> SUBSET HTimer!AllTimers]
    BY DEF HTimer!HTimerInit
  <2>3. /\ DOMAIN sentAt = HTimer!AllTimers /\ sentAt = [t \in HTimer!AllTimers |-> sentAt[t]]
        /\ where \in [HTimer!AllTimers -> {"none", "stamped", "queue", "near", "far", "sent"}]
        /\ _expire \in [HTimer!AllTimers -> Int]
    BY DEF HTimer!HTimerInit
  <2>4. /\ _times = 0 /\ inQueue = {} /\ ticksLeft = HTimer!Idle /\ logfile = 0
        /\ lapsed \in BOOLEAN
    BY DEF HTimer!HTimerInit
  <2> QED BY <2>1, <2>2, <2>3, <2>4 DEF HTimerTypes
<1>2. ASSUME NEW t \in HTimer!AllTimers PROVE OnItsTick(t)
  BY DEF HTimer!HTimerInit, OnItsTick
<1> QED BY <1>1, <1>2 DEF HTimerInv

\* A timer that a step does not concern.
Rests(t) ==
  /\ t \in inQueue' <=> t \in inQueue
  /\ \A i \in 0 .. PERIOD - 1 : (t \in _near'[i] <=> t \in _near[i])
                                /\ (t \in _far'[i] <=> t \in _far[i])
  /\ where'[t] = where[t] /\ _expire'[t] = _expire[t] /\ sentAt'[t] = sentAt[t]

LEMMA TimerRests == ASSUME NEW t, OnItsTick(t), Rests(t), _times' = _times PROVE OnItsTick(t)'
BY DEF OnItsTick, Rests

\* A timer in no list.
LEMMA NotListed ==
  ASSUME NEW t, OnItsTick(t), where[t] \notin {"near", "far", "queue"},
         UNCHANGED <<_near, _far>>, t \in inQueue' <=> where'[t] = "queue",
         where'[t] \notin {"near", "far"},
         where'[t] = "sent" => sentAt'[t].from # "near" /\ sentAt'[t].tick >= _expire'[t]
  PROVE  OnItsTick(t)'
BY DEF OnItsTick

LEMMA StampKeeps ==
  ASSUME HTimerInv, NEW t \in HTimer!AllTimers, NEW sec \in Seconds, HTimer!Stamp(t, sec)
  PROVE  HTimerInv'
<1>1. /\ ~lapsed /\ where[t] = "none" /\ sec \in Int /\ _times \in Int
      /\ _expire' = [_expire EXCEPT ![t] = _times + sec]
      /\ UNCHANGED <<_times, _near, _far, inQueue, ticksLeft, logfile, lapsed>>
      /\ \/ /\ sec <= 0
            /\ where' = [where EXCEPT ![t] = "sent"]
            /\ sentAt' = [sentAt EXCEPT ![t] = [tick |-> _times, from |-> "add"]]
         \/ where' = [where EXCEPT ![t] = "stamped"] /\ sentAt' = sentAt
  BY HTimerAssumption DEF HTimer!Stamp, HTimerInv, HTimerTypes
<1>2. HTimerTypes'
  <2>1. _expire' \in [HTimer!AllTimers -> Int]
    BY <1>1 DEF HTimerInv, HTimerTypes
  <2>2. where' \in [HTimer!AllTimers -> {"none", "stamped", "queue", "near", "far", "sent"}]
    BY <1>1 DEF HTimerInv, HTimerTypes
  <2>3. DOMAIN sentAt' = HTimer!AllTimers /\ sentAt' = [u \in HTimer!AllTimers |-> sentAt'[u]]
    BY <1>1 DEF HTimerInv, HTimerTypes
  <2> QED BY <1>1, <2>1, <2>2, <2>3 DEF HTimerInv, HTimerTypes
<1>3. ASSUME NEW u \in HTimer!AllTimers PROVE OnItsTick(u)'
  <2>1. OnItsTick(u)
    BY <1>1 DEF HTimerInv
  <2>2. CASE u # t
    <3>1. where'[u] = where[u] /\ _expire'[u] = _expire[u] /\ sentAt'[u] = sentAt[u]
      BY <1>1, <2>2 DEF HTimerInv, HTimerTypes
    <3> QED BY <1>1, <2>1, <3>1, TimerRests DEF Rests
  <2>3. CASE u = t
    <3>1. _expire'[t] = _times + sec
      BY <1>1 DEF HTimerInv, HTimerTypes
    <3>2. t \notin inQueue
      BY <1>1, <2>1, <2>3 DEF OnItsTick
    <3>3. CASE /\ sec <= 0 /\ where' = [where EXCEPT ![t] = "sent"]
               /\ sentAt' = [sentAt EXCEPT ![t] = [tick |-> _times, from |-> "add"]]
      <4>1. where'[t] = "sent" /\ sentAt'[t].from = "add" /\ sentAt'[t].tick = _times
        BY <3>3 DEF HTimerInv, HTimerTypes
      <4>2. _times >= _times + sec
        BY <1>1, <3>3
      <4> QED BY <1>1, <2>1, <2>3, <3>1, <3>2, <4>1, <4>2, NotListed
    <3>4. CASE where' = [where EXCEPT ![t] = "stamped"]
      <4>1. where'[t] = "stamped"
        BY <3>4 DEF HTimerInv, HTimerTypes
      <4> QED BY <1>1, <2>1, <2>3, <3>2, <4>1, NotListed
    <3> QED BY <1>1, <3>3, <3>4
  <2> QED BY <2>2, <2>3
<1> QED BY <1>2, <1>3 DEF HTimerInv

LEMMA EnqueueKeeps ==
  ASSUME HTimerInv, NEW t \in HTimer!AllTimers, HTimer!Enqueue(t) PROVE HTimerInv'
<1>1. /\ ~lapsed /\ where[t] = "stamped" /\ inQueue' = inQueue \cup {t}
      /\ where' = [where EXCEPT ![t] = "queue"]
      /\ UNCHANGED <<_times, _near, _far, _expire, ticksLeft, sentAt, logfile, lapsed>>
  BY DEF HTimer!Enqueue
<1>2. HTimerTypes'
  BY <1>1 DEF HTimerInv, HTimerTypes
<1>3. ASSUME NEW u \in HTimer!AllTimers PROVE OnItsTick(u)'
  <2>1. OnItsTick(u)
    BY <1>1 DEF HTimerInv
  <2>2. CASE u # t
    <3>1. where'[u] = where[u] /\ (u \in inQueue' <=> u \in inQueue)
      BY <1>1, <2>2 DEF HTimerInv, HTimerTypes
    <3> QED BY <1>1, <2>1, <3>1, TimerRests DEF Rests
  <2>3. CASE u = t
    <3>1. where'[t] = "queue" /\ t \in inQueue'
      BY <1>1 DEF HTimerInv, HTimerTypes
    <3> QED BY <1>1, <2>1, <2>3, <3>1, NotListed
  <2> QED BY <2>2, <2>3
<1> QED BY <1>2, <1>3 DEF HTimerInv

LEMMA ChangeLogFileKeeps ==
  ASSUME HTimerInv, NEW t \in HTimer!AllTimers, HTimer!ChangeLogFile(t) PROVE HTimerInv'
<1>1. /\ ~lapsed /\ where[t] = "sent" /\ _times \in Int /\ LOGDAY \in Int
      /\ _expire' = [_expire EXCEPT ![t] = _times + LOGDAY]
      /\ where' = [where EXCEPT ![t] = "stamped"]
      /\ logfile' \in 0 .. 1
      /\ UNCHANGED <<_times, _near, _far, inQueue, ticksLeft, sentAt, lapsed>>
  BY HTimerAssumption DEF HTimer!ChangeLogFile, HTimerInv, HTimerTypes
<1>2. HTimerTypes'
  <2>1. _expire' \in [HTimer!AllTimers -> Int]
    BY <1>1 DEF HTimerInv, HTimerTypes
  <2> QED BY <1>1, <2>1 DEF HTimerInv, HTimerTypes
<1>3. ASSUME NEW u \in HTimer!AllTimers PROVE OnItsTick(u)'
  <2>1. OnItsTick(u)
    BY <1>1 DEF HTimerInv
  <2>2. CASE u # t
    <3>1. where'[u] = where[u] /\ _expire'[u] = _expire[u]
      BY <1>1, <2>2 DEF HTimerInv, HTimerTypes
    <3> QED BY <1>1, <2>1, <3>1, TimerRests DEF Rests
  <2>3. CASE u = t
    <3>1. where'[t] = "stamped" /\ t \notin inQueue
      BY <1>1, <2>1, <2>3 DEF HTimerInv, HTimerTypes, OnItsTick
    <3> QED BY <1>1, <2>1, <2>3, <3>1, NotListed
  <2> QED BY <2>2, <2>3
<1> QED BY <1>2, <1>3 DEF HTimerInv

LEMMA NoTimerMoves ==
  ASSUME HTimerInv, ticksLeft' \in -1 .. 4,
         UNCHANGED <<_times, _near, _far, inQueue, where, _expire, sentAt, logfile, lapsed>>
  PROVE  HTimerInv'
<1>1. HTimerTypes'
  BY DEF HTimerInv, HTimerTypes
<1>2. ASSUME ~lapsed, NEW t \in HTimer!AllTimers PROVE OnItsTick(t)'
  BY <1>2, TimerRests DEF HTimerInv, Rests
<1> QED BY <1>1, <1>2 DEF HTimerInv

\* A second: the list of this tick is sent.
LEMMA HTimerTickKeeps == ASSUME HTimerInv, HTimer!Tick PROVE HTimerInv'
<1>1. PICK s, p : s = _times % PERIOD /\ p = _times \div PERIOD
  OBVIOUS
<1>2. /\ ~lapsed /\ _times' = _times + 1 /\ _near' = [_near EXCEPT ![s] = {}]
      /\ lapsed' = TRUE \/ ~(s = PERIOD - 1 /\ _far[p % PERIOD] # {})
      /\ where' = [t \in HTimer!AllTimers |-> IF t \in _near[s] THEN "sent" ELSE where[t]]
      /\ sentAt' = [t \in HTimer!AllTimers |->
                     IF t \in _near[s] THEN [tick |-> _times, from |-> "near"] ELSE sentAt[t]]
      /\ ticksLeft > 0 /\ ticksLeft' = ticksLeft - 1 /\ _times < MaxTimes /\ lapsed' \in BOOLEAN
      /\ UNCHANGED <<_far, inQueue, _expire, logfile>>
  BY <1>1 DEF HTimer!Tick, HTimer!Slot, HTimer!Send
<1>3. PERIOD \in Nat \ {0} /\ _times \in Int /\ _expire \in [HTimer!AllTimers -> Int]
  BY HTimerAssumption DEF HTimerInv, HTimerTypes
<1>4. s \in 0 .. PERIOD - 1 /\ p \in Int /\ p % PERIOD \in 0 .. PERIOD - 1
      /\ _times = PERIOD * p + s
  <2>1. s \in 0 .. PERIOD - 1 /\ p \in Int /\ _times = PERIOD * p + s
    BY ONLY <1>1, <1>3, DivMod
  <2> QED BY ONLY <1>3, <2>1, DivMod
<1>5. (_times + 1) \div PERIOD = IF s = PERIOD - 1 THEN p + 1 ELSE p
  BY <1>1, <1>3, NextPeriod
<1>6. /\ \A i \in 0 .. PERIOD - 1 : _near'[i] = IF i = s THEN {} ELSE _near[i]
      /\ HTimerTypes'
  <2>1. _near' \in [0 .. PERIOD - 1 -> SUBSET HTimer!AllTimers]
        /\ \A i \in 0 .. PERIOD - 1 : _near'[i] = IF i = s THEN {} ELSE _near[i]
    BY <1>2, <1>4 DEF HTimerInv, HTimerTypes
  <2>2. _times' \in Int /\ _times' \in 0 .. MaxTimes /\ ticksLeft' \in -1 .. 4
    <3>1. MaxTimes \in Nat /\ _times \in 0 .. MaxTimes /\ ticksLeft \in -1 .. 4
      BY HTimerAssumption DEF HTimerInv, HTimerTypes
    <3> QED BY ONLY <1>2, <3>1
  <2>3. where' \in [HTimer!AllTimers -> {"none", "stamped", "queue", "near", "far", "sent"}]
    BY <1>2 DEF HTimerInv, HTimerTypes
  <2> QED BY <1>2, <2>1, <2>2, <2>3 DEF HTimerInv, HTimerTypes
<1>7. ASSUME ~lapsed', NEW t \in HTimer!AllTimers PROVE OnItsTick(t)'
  <2>1. OnItsTick(t)
    BY <1>2 DEF HTimerInv
  <2>2. PICK e : e = _expire[t]
    OBVIOUS
  <2>3. e \in Int /\ e \div PERIOD \in Int /\ e % PERIOD \in 0 .. PERIOD - 1
        /\ e = PERIOD * (e \div PERIOD) + (e % PERIOD)
    <3>1. e \in Int
      BY <1>3, <2>2
    <3> QED BY ONLY <1>3, <3>1, DivMod
  <2>4. CASE t \in _near[s]
    <3>1. where[t] = "near" /\ s = e % PERIOD /\ e \div PERIOD = p
      BY <1>1, <1>4, <2>1, <2>2, <2>4 DEF OnItsTick
    <3>2. e = _times
      BY <1>4, <2>3, <3>1
    <3>3. where'[t] = "sent" /\ sentAt'[t] = [tick |-> _times, from |-> "near"]
          /\ _expire'[t] = e
      BY <1>2, <2>2, <2>4
    <3>4. t \notin inQueue /\ \A i \in 0 .. PERIOD - 1 : t \notin _far[i]
      BY <2>1, <3>1 DEF OnItsTick
    <3>5. \A i \in 0 .. PERIOD - 1 : t \notin _near'[i]
      BY <1>6, <2>1, <3>1, <2>2 DEF OnItsTick
    <3> QED BY <1>2, <3>2, <3>3, <3>4, <3>5 DEF OnItsTick
  <2>5. CASE t \notin _near[s]
    <3>1. where'[t] = where[t] /\ sentAt'[t] = sentAt[t] /\ _expire'[t] = e
      BY <1>2, <2>2, <2>5
    <3>2. \A i \in 0 .. PERIOD - 1 : t \in _near'[i] <=> t \in _near[i]
      BY <1>6, <2>5
    <3>3. ASSUME where[t] = "near"
          PROVE  _times' <= e /\ e \div PERIOD = _times' \div PERIOD
      <4>1. _times <= e /\ e \div PERIOD = p /\ s # e % PERIOD
        BY <1>1, <1>4, <2>1, <2>2, <2>5, <3>3 DEF OnItsTick
      <4>2. _times + 1 <= e /\ s # PERIOD - 1
        <5>1. _times # e
          BY <1>1, <4>1
        <5>2. PICK f : f = PERIOD * p
          OBVIOUS
        <5>3. f \in Int /\ _times = f + s /\ e = f + (e % PERIOD)
          BY <1>3, <1>4, <2>3, <4>1, <5>2
        <5> QED BY ONLY <1>3, <1>4, <2>3, <4>1, <5>1, <5>3
      <4> QED BY <1>2, <1>5, <4>1, <4>2
    <3>4. ASSUME where[t] = "far" PROVE _times' \div PERIOD <= e \div PERIOD
      <4>1. p <= e \div PERIOD
        BY <1>1, <2>1, <2>2, <3>4 DEF OnItsTick
      <4>2. ASSUME s = PERIOD - 1 PROVE e \div PERIOD # p
        <5>1. _far[p % PERIOD] = {}
          BY <1>2, <1>7, <4>2
        <5> QED BY <1>4, <2>1, <2>2, <3>4, <5>1 DEF OnItsTick
      <4> QED BY <1>2, <1>4, <1>5, <2>3, <4>1, <4>2
    <3> QED BY <1>2, <2>1, <2>2, <3>1, <3>2, <3>3, <3>4 DEF OnItsTick
  <2> QED BY <2>4, <2>5
<1> QED BY <1>6, <1>7 DEF HTimerInv

\* The queue: each timer is sent, or goes into the list of its tick or period.
LEMMA DoTimerEventKeeps == ASSUME HTimerInv, HTimer!DoTimerEvent PROVE HTimerInv'
<1>0. PICK now : now = {t \in inQueue : _expire[t] <= _times}
  OBVIOUS
<1>a. PICK soon : soon = {t \in inQueue \ now : _expire[t] \div PERIOD = _times \div PERIOD}
  OBVIOUS
<1>b. PICK late : late = inQueue \ (now \cup soon)
  OBVIOUS
<1>1. /\ now = {t \in inQueue : _expire[t] <= _times}
      /\ soon = {t \in inQueue \ now : _expire[t] \div PERIOD = _times \div PERIOD}
      /\ late = inQueue \ (now \cup soon)
      /\ where' = [t \in HTimer!AllTimers |->
                    CASE t \in now -> "sent" [] t \in soon -> "near"
                      [] t \in late -> "far" [] OTHER -> where[t]]
      /\ sentAt' = [t \in HTimer!AllTimers |->
                     IF t \in now THEN [tick |-> _times, from |-> "queue"] ELSE sentAt[t]]
      /\ _near' = [i \in DOMAIN _near |-> _near[i] \cup {t \in soon : HTimer!NearSlot(t) = i}]
      /\ _far' = [i \in DOMAIN _far |->
                   _far[i] \cup {t \in late : (_expire[t] \div PERIOD) % PERIOD = i}]
  BY <1>0, <1>a, <1>b DEF HTimer!DoTimerEvent
<1>2. ~lapsed /\ inQueue' = {} /\ ticksLeft' = -1 /\ UNCHANGED <<_times, _expire, logfile, lapsed>>
  BY DEF HTimer!DoTimerEvent, HTimer!Idle
<1>3. /\ PERIOD \in Nat \ {0} /\ _times \in Int /\ _expire \in [HTimer!AllTimers -> Int]
      /\ inQueue \subseteq HTimer!AllTimers
      /\ DOMAIN _near = 0 .. PERIOD - 1 /\ DOMAIN _far = 0 .. PERIOD - 1
  BY HTimerAssumption DEF HTimerInv, HTimerTypes
<1>4. HTimerTypes'
  <2>1. _near' \in [0 .. PERIOD - 1 -> SUBSET HTimer!AllTimers]
        /\ _far' \in [0 .. PERIOD - 1 -> SUBSET HTimer!AllTimers]
    BY <1>1, <1>3 DEF HTimerInv, HTimerTypes
  <2>2. /\ DOMAIN sentAt' = HTimer!AllTimers
        /\ sentAt' = [t \in HTimer!AllTimers |-> sentAt'[t]]
    BY <1>1
  <2>3. where' \in [HTimer!AllTimers -> {"none", "stamped", "queue", "near", "far", "sent"}]
    BY <1>1 DEF HTimerInv, HTimerTypes
  <2> QED BY <1>2, <1>3, <2>1, <2>2, <2>3 DEF HTimerInv, HTimerTypes
<1>5. ASSUME NEW t \in HTimer!AllTimers PROVE OnItsTick(t)'
  <2>1. OnItsTick(t)
    BY <1>2 DEF HTimerInv
  <2>2. /\ \A i \in 0 .. PERIOD - 1 :
             t \in _near'[i] <=> t \in _near[i] \/ (t \in soon /\ _expire[t] % PERIOD = i)
        /\ \A i \in 0 .. PERIOD - 1 :
             t \in _far'[i] <=> t \in _far[i] \/ (t \in late /\ (_expire[t] \div PERIOD) % PERIOD = i)
    BY <1>1, <1>3 DEF HTimer!NearSlot
  <2>3. CASE t \notin inQueue
    <3>1. t \notin now /\ t \notin soon /\ t \notin late
      BY <1>1, <2>3
    <3>2. where'[t] = where[t] /\ sentAt'[t] = sentAt[t]
      BY <1>1, <3>1
    <3> QED BY <1>2, <2>1, <2>2, <2>3, <3>1, <3>2, TimerRests DEF Rests
  <2>4. CASE t \in inQueue
    <3>1. where[t] = "queue"
      BY <2>1, <2>4 DEF OnItsTick
    <3>2. \A i \in 0 .. PERIOD - 1 : t \notin _near[i] /\ t \notin _far[i]
      BY <2>1, <3>1 DEF OnItsTick
    <3>3. _expire[t] \in Int
      BY <1>3
    <3>4. CASE t \in now
      <4>1. t \notin soon /\ t \notin late /\ _expire[t] <= _times
        BY <1>1, <3>4
      <4>2. where'[t] = "sent" /\ sentAt'[t].from = "queue" /\ sentAt'[t].tick = _times
        BY <1>1, <3>4
      <4> QED BY <1>2, <1>3, <2>2, <3>2, <3>3, <4>1, <4>2 DEF OnItsTick
    <3>5. CASE t \in soon
      <4>1. /\ t \notin now /\ t \notin late /\ _times <= _expire[t]
            /\ _expire[t] \div PERIOD = _times \div PERIOD
        BY <1>1, <1>3, <2>4, <3>3, <3>5
      <4>2. where'[t] = "near"
        BY <1>1, <3>5, <4>1
      <4> QED BY <1>2, <2>2, <3>2, <3>5, <4>1, <4>2 DEF OnItsTick
    <3>6. CASE t \in late
      <4>1. t \notin now /\ t \notin soon /\ _times <= _expire[t]
        BY <1>1, <1>3, <2>4, <3>3, <3>6
      <4>2. _times \div PERIOD <= _expire[t] \div PERIOD
        BY <1>3, <3>3, <4>1, LaterPeriod
      <4>3. where'[t] = "far"
        BY <1>1, <3>6, <4>1
      <4> QED BY <1>2, <2>2, <3>2, <3>6, <4>1, <4>2, <4>3 DEF OnItsTick
    <3> QED BY <1>1, <2>4, <3>4, <3>5, <3>6
  <2> QED BY <2>3, <2>4
<1> QED BY <1>4, <1>5 DEF HTimerInv

LEMMA HTimerMoves == ASSUME HTimerInv, HTimer!HTimerNext PROVE HTimerInv'
<1>1. ASSUME NEW d \in Steps, HTimer!DoTimer(d) PROVE HTimerInv'
  <2>1. (d % 4) + 1 \in 1 .. 4
    <3>1. d \in Int
      BY HTimerAssumption
    <3>2. d % 4 \in 0 .. 3
      BY <3>1
    <3> QED BY ONLY <3>2
  <2>2. ticksLeft' \in -1 .. 4
    BY <1>1, <2>1 DEF HTimer!DoTimer
  <2> QED BY <1>1, <2>2, NoTimerMoves DEF HTimer!DoTimer
<1> QED BY <1>1, StampKeeps, EnqueueKeeps, ChangeLogFileKeeps, HTimerTickKeeps, DoTimerEventKeeps
    DEF HTimer!HTimerNext

LEMMA HTimerRests == ASSUME HTimerInv, UNCHANGED HTimer!htimerVars PROVE HTimerInv'
BY NoTimerMoves DEF HTimer!htimerVars, HTimerInv, HTimerTypes

LEMMA HTimerInvOnTick == ASSUME HTimerInv PROVE HTimer!TimersOnTheirTick
<1>1. DOMAIN _near = 0 .. PERIOD - 1 /\ DOMAIN _far = 0 .. PERIOD - 1
  BY DEF HTimerInv, HTimerTypes
<1> QED BY <1>1 DEF HTimerInv, OnItsTick, HTimer!TimersOnTheirTick

LEMMA HTimerInvTypes == ASSUME HTimerInv PROVE HTimer!HTimerTypeOK
BY DEF HTimerInv, HTimerTypes, HTimer!HTimerTypeOK, HTimer!Idle

-----------------------------------------------------------------------------
(***************************************************************************)
(* The parts together.  The invariants of the two pools of connections are *)
(* those of their part; the others hold whichever part runs.               *)
(***************************************************************************)
SharedInv ==
  /\ PoolInv /\ PoolGrowth
  /\ part = "sql" => SqlInv
  /\ part = "redis" => RedisInv
  /\ LuaInv /\ MemInv /\ PtrInv /\ EventInv /\ WatchInv
  /\ WheelInv /\ HTimerInv

\* It holds at the start.
LEMMA SharedStarts == SharedInit => SharedInv
<1> SUFFICES ASSUME SharedInit PROVE SharedInv
  OBVIOUS
<1>1. Sql!SqlInit /\ Sql!PoolInit /\ Redis!RedisInit /\ Lua!LuaInit /\ Memory!MemoryInit
      /\ Ptr!PtrInit /\ Events!EventInit /\ Watch!WatchInit
      /\ Wheel!TimerInit /\ HTimer!HTimerInit
  BY DEF SharedInit, Sql!SqlInit
<1>2. PoolInv /\ PoolGrowth
  BY <1>1, PoolStarts, PoolGrowthStarts
<1>3. SqlInv /\ RedisInv
  BY <1>1, SqlStarts, RedisStarts
<1>4. LuaInv /\ MemInv /\ PtrInv /\ EventInv /\ WatchInv
  BY <1>1, LuaStarts, MemoryStarts, PtrStarts, EventStarts, WatchStarts
<1>5. WheelInv /\ HTimerInv
  BY <1>1, WheelStarts, HTimerStarts
<1> QED BY <1>2, <1>3, <1>4, <1>5 DEF SharedInv

\* What holds of the pool of connections survives a user's step on it, and of
\* course a step that leaves it alone.
LEMMA PoolKept ==
  ASSUME PoolInv, PoolGrowth,
         (\E u \in Users : PoolStep(u)) \/ UNCHANGED poolVars
  PROVE  PoolInv' /\ PoolGrowth'
<1>1. CASE \E u \in Users : PoolStep(u)
  <2>1. PICK u \in Users : PoolStep(u)
    BY <1>1
  <2>2. PoolInv'
    BY <2>1, PoolStepKeepsInv
  <2> QED BY <2>1, <2>2, PoolGrowthKept
<1>2. CASE UNCHANGED poolVars
  <2>1. UNCHANGED <<m_idleConn, m_usedConn, m_poolSize, hand, toAdd, leaked>>
    BY <1>2 DEF poolVars
  <2>2. PoolInv'
    BY <2>1 DEF PoolInv, PoolTypes, PoolPlaces, InHand
  <2>3. ToCome' = ToCome
    BY <2>1 DEF ToCome
  <2> QED BY <2>1, <2>2, <2>3 DEF PoolGrowth, PoolBound
<1> QED BY <1>1, <1>2

\* The steps of the two pools are steps on the pool or leave it alone.
LEMMA SqlOnPool ==
  ASSUME Sql!SqlNext
  PROVE  (\E u \in Users : PoolStep(u)) \/ UNCHANGED poolVars
<1>1. PICK u \in Users :
        \/ Sql!TakeConnection(u) \/ Sql!AddConnection(u) \/ Sql!AddFails(u)
        \/ Sql!Select(u) \/ Sql!ExecuteRet(u) \/ Sql!Execute(u) \/ Sql!SqlRelease(u)
  BY DEF Sql!SqlNext
<1>2. CASE Sql!Select(u) \/ Sql!ExecuteRet(u) \/ Sql!Execute(u)
  <2>1. UNCHANGED Sql!poolVars
    BY <1>2 DEF Sql!Select, Sql!ExecuteRet, Sql!Execute
  <2> QED BY <2>1 DEF Sql!poolVars, poolVars
<1>3. CASE Sql!SqlRelease(u)
  <2>1. Sql!ReleaseConn(u)
    BY <1>3 DEF Sql!SqlRelease
  <2> QED BY <2>1, SqlStepsOnPool
<1> QED BY <1>1, <1>2, <1>3, SqlStepsOnPool

\* The same of the Redis pool.
LEMMA RedisOnPool ==
  ASSUME Redis!RedisNext
  PROVE  (\E u \in Users : PoolStep(u)) \/ UNCHANGED poolVars
<1>1. PICK u \in Users :
        \/ Redis!RedisTake(u) \/ Redis!RedisAdd(u) \/ Redis!RedisAddFails(u)
        \/ Redis!RedisRelease(u) \/ Redis!ExecuteCommand(u)
        \/ Redis!ExecuteCommandInPipeline(u) \/ Redis!GetReplyInPipeline(u)
  BY DEF Redis!RedisNext
<1>2. CASE \/ Redis!ExecuteCommand(u) \/ Redis!ExecuteCommandInPipeline(u)
           \/ Redis!GetReplyInPipeline(u)
  <2>1. UNCHANGED Redis!poolVars
    BY <1>2 DEF Redis!ExecuteCommand, Redis!ExecuteCommandInPipeline, Redis!GetReplyInPipeline
  <2> QED BY <2>1 DEF Redis!poolVars, poolVars
<1>3. CASE \/ Redis!RedisTake(u) \/ Redis!RedisAdd(u) \/ Redis!RedisAddFails(u)
           \/ Redis!RedisRelease(u)
  <2>1. \/ Redis!TakeConnection(u) \/ Redis!AddConnection(u) \/ Redis!AddFails(u)
        \/ Redis!ReleaseConn(u)
    BY <1>3 DEF Redis!RedisTake, Redis!RedisAdd, Redis!RedisAddFails, Redis!RedisRelease
  <2>2. PoolStep(u)
    BY <2>1, RedisStepsOnPool DEF PoolStep
  <2> QED BY <2>2
<1> QED BY <1>1, <1>2, <1>3

\* A part that does not run stays as it is.
LEMMA SqlRests ==
  ASSUME SqlInv, UNCHANGED poolVars, UNCHANGED conn
  PROVE  SqlInv'
<1>1. m_poolSize' = m_poolSize /\ m_idleConn' = m_idleConn /\ conn' = conn
  BY DEF poolVars
<1> QED BY <1>1 DEF SqlInv, LeavesInSync

\* The same of the Redis pool.
LEMMA RedisRests ==
  ASSUME RedisInv, UNCHANGED poolVars, UNCHANGED redisVars
  PROVE  RedisInv'
<1>1. m_poolSize' = m_poolSize /\ hand' = hand /\ redis' = redis /\ inherits' = inherits
  BY DEF poolVars, redisVars
<1> QED BY <1>1 DEF RedisInv, Counts

\* The same of the interpreters.
LEMMA LuaRests ==
  ASSUME LuaInv, UNCHANGED luaVars
  PROVE  LuaInv'
<1>1. UNCHANGED <<m_pool, created, m_lua, leaving, refs, stack, height, short, miscounted>>
  BY DEF luaVars
<1> QED BY <1>1 DEF LuaInv, LuaTypes, LuaPlaces, RefsInv, Exact, Dropped, Drops, StacksInv,
                    UsedLuas

\* Every step keeps the invariant: that of the part that runs by what the part
\* does, the others because their variables stay.
LEMMA SharedStepKeepsInv == SharedInv /\ [SharedNext]_sharedVars => SharedInv'
<1> SUFFICES ASSUME SharedInv, [SharedNext]_sharedVars PROVE SharedInv'
  OBVIOUS
<1>1. /\ part' = part
      /\ Sql!SqlNext \/ Redis!RedisNext \/ UNCHANGED poolVars
      /\ Lua!LuaNext \/ UNCHANGED luaVars
      /\ Memory!MemoryNext \/ UNCHANGED memoryVars
      /\ Ptr!PtrNext \/ UNCHANGED ptrVars
      /\ Events!EventNext \/ UNCHANGED eventVars
      /\ Watch!WatchNext \/ UNCHANGED watchVars
      /\ Wheel!TimerNext \/ UNCHANGED timerVars
      /\ HTimer!HTimerNext \/ UNCHANGED htimerVars
      /\ part = "sql" => Sql!SqlNext \/ (UNCHANGED poolVars /\ UNCHANGED conn)
      /\ part = "redis" => Redis!RedisNext \/ (UNCHANGED poolVars /\ UNCHANGED redisVars)
  <2>1. CASE SharedNext
    BY <2>1 DEF SharedNext, SharedRuns
  <2>2. CASE UNCHANGED sharedVars
    BY <2>2 DEF sharedVars
  <2> QED BY <2>1, <2>2
<1>2. PoolInv /\ PoolGrowth /\ PoolInv' /\ PoolGrowth'
  <2>1. PoolInv /\ PoolGrowth
    BY DEF SharedInv
  <2> QED BY <1>1, <2>1, SqlOnPool, RedisOnPool, PoolKept
<1>3. part' = "sql" => SqlInv'
  <2>1. SUFFICES ASSUME part = "sql" PROVE SqlInv'
    BY <1>1
  <2>2. SqlInv
    BY <2>1 DEF SharedInv
  <2> QED BY <1>1, <1>2, <2>1, <2>2, SqlStepKeepsInv, SqlRests
<1>4. part' = "redis" => RedisInv'
  <2>1. SUFFICES ASSUME part = "redis" PROVE RedisInv'
    BY <1>1
  <2>2. RedisInv
    BY <2>1 DEF SharedInv
  <2> QED BY <1>1, <1>2, <2>1, <2>2, RedisStepKeepsInv, RedisRests
<1>5. LuaInv' /\ MemInv' /\ PtrInv' /\ EventInv' /\ WatchInv'
  <2>1. LuaInv /\ MemInv /\ PtrInv /\ EventInv /\ WatchInv
    BY DEF SharedInv
  <2>2. LuaInv'
    BY <1>1, <2>1, LuaStepKeepsInv, LuaRests
  <2>3. MemInv' /\ PtrInv'
    BY <1>1, <2>1, MemoryStepKeepsInv, PtrStepKeepsInv
  <2>4. EventInv' /\ WatchInv'
    BY <1>1, <2>1, EventStepKeepsInv, WatchStepKeepsInv
  <2> QED BY <2>2, <2>3, <2>4
<1>6. WheelInv' /\ HTimerInv'
  <2>1. WheelInv /\ HTimerInv
    BY DEF SharedInv
  <2>2. UNCHANGED timerVars => UNCHANGED Wheel!timerVars
    BY <1>1 DEF timerVars, Wheel!timerVars, Wheel!history
  <2>3. UNCHANGED htimerVars => UNCHANGED HTimer!htimerVars
    BY DEF htimerVars, HTimer!htimerVars
  <2> QED BY <1>1, <2>1, <2>2, <2>3, WheelTurns, WheelRests, HTimerMoves, HTimerRests
<1> QED BY <1>2, <1>3, <1>4, <1>5, <1>6 DEF SharedInv

\* What the invariant says of each part.
LEMMA SharedInvSays ==
  SharedInv => /\ ResourcesAccounted /\ SubscribersAreCalled /\ TimersInPlace
               /\ part \in SharedPartNames => SharedTypeOK
<1> SUFFICES ASSUME SharedInv
             PROVE  /\ ResourcesAccounted /\ SubscribersAreCalled /\ TimersInPlace
                    /\ part \in SharedPartNames => SharedTypeOK
  OBVIOUS
<1>1. part = "sql" =>
        Sql!SqlTypeOK /\ Sql!ConnAccounted /\ Sql!PoolIsBounded /\ Sql!SqlInSync
  BY SqlAccounted DEF SharedInv
<1>2. part = "redis" =>
        Redis!RedisTypeOK /\ Redis!ConnAccounted /\ Redis!PoolIsBounded /\ Redis!RepliesCounted
  BY RedisAccounted DEF SharedInv
<1>3. Lua!LuaTypeOK /\ Lua!LuaAccounted /\ Memory!MemoryTypeOK /\ Memory!BlocksAccounted
  BY LuaIsAccounted, MemoryIsAccounted DEF SharedInv
<1>4. Ptr!PtrTypeOK /\ Ptr!ObjectsCounted /\ Events!EventTypeOK /\ Events!SlotsAndEvents
  BY PtrIsAccounted, EventsInOrder DEF SharedInv
<1>5. Watch!WatchTypeOK /\ Watch!WatchersWanted
  BY DEF SharedInv, WatchInv
<1>6. ResourcesAccounted
  BY <1>1, <1>2, <1>3, <1>4 DEF ResourcesAccounted
<1>7. SubscribersAreCalled
  BY <1>4, <1>5 DEF SubscribersAreCalled
<1>8. Wheel!TimerTypeOK /\ Wheel!TimerInPlace /\ Wheel!NeverEarly
  BY WheelInvTypes, WheelInvInPlace DEF SharedInv
<1>9. HTimer!HTimerTypeOK /\ HTimer!TimersOnTheirTick
  BY HTimerInvTypes, HTimerInvOnTick DEF SharedInv
<1>10. TimersInPlace
  BY <1>8, <1>9 DEF TimersInPlace
<1>11. part \in SharedPartNames => SharedTypeOK
  BY <1>1, <1>2, <1>3, <1>4, <1>5, <1>8, <1>9 DEF SharedTypeOK, SharedPartNames
<1> QED BY <1>6, <1>7, <1>10, <1>11

\* The invariant of the parts holds in every behaviour.
THEOREM SharedPartsInv == SharedSpec => []SharedInv
BY SharedStarts, SharedStepKeepsInv, PTL DEF SharedSpec

\* Connections, interpreters, blocks of memory and counted objects are free
\* once or have one owner, through ReleaseConnection, AddConnecton,
\* ReleaseLuaInterface, BlockMalloc and BlockFree, AddRef and ReleaseRef of any
\* number of threads, and each is left as the next one expects it.
THEOREM ResourcesAreAccounted == SharedSpec => []ResourcesAccounted
<1>1. SharedInv => ResourcesAccounted
  BY SharedInvSays
<1> QED BY <1>1, SharedPartsInv, PTL

\* FireEvent calls the slots that are still connected, once each and in the
\* order of their groups, and DispatchEvent tells those who watch a friend,
\* whatever Subscribe, Disconnect, RemoveEvent and offline do in between.
THEOREM SubscribersAlwaysCalled == SharedSpec => []SubscribersAreCalled
<1>1. SharedInv => SubscribersAreCalled
  BY SharedInvSays
<1> QED BY <1>1, SharedPartsInv, PTL

\* A timer of TimerManager or SingleTimerManager is in one slot or with one
\* thread until it is cancelled or was called back, and never called back more
\* than a slot (two) before its time, however late OnTick is and whoever
\* registers and cancels meanwhile; one of do_timers is in the list of its tick.
THEOREM TimersStayInPlace == SharedSpec => []TimersInPlace
<1>1. SharedInv => TimersInPlace
  BY SharedInvSays
<1> QED BY <1>1, SharedPartsInv, PTL

\* The variables of the shared part that runs keep their types.
THEOREM SharedTypesCorrect == SharedSpec => [](part \in SharedPartNames => SharedTypeOK)
<1>1. SharedInv => (part \in SharedPartNames => SharedTypeOK)
  BY SharedInvSays
<1> QED BY <1>1, SharedPartsInv, PTL
=============================================================================
