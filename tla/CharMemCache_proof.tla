-------------------------- MODULE CharMemCache_proof --------------------------
(***************************************************************************)
(* Proofs about CharMemCache, for any set of players, threads and values.  *)
(***************************************************************************)
EXTENDS CharMemCache, TLAPS

\* An entry is never taken for the absence of one.
LEMMA EntryIsCached ==
  ASSUME NEW e \in Entries PROVE e # Absent /\ e \in Entries \cup {Absent}
BY ValuesAssumption DEF Entries, Absent, Contents

\* CStructTemplate::Save leaves an entry an entry, with the content it had,
\* and a row a row.
LEMMA SaveKeepsTypes ==
  ASSUME NEW e \in Entries, NEW row \in Values \cup {NoRow}, NEW ok \in BOOLEAN
  PROVE  /\ EntryAfterSave(e, ok) \in Entries
         /\ EntryAfterSave(e, ok).content = e.content
         /\ RowAfterSave(row, e, ok) \in Values \cup {NoRow}
BY DEF Entries, EntryAfterSave, RowAfterSave, RowAfterUpdate

\* What SaveToCache leaves in the map is an entry.
LEMMA SavedEntryTypes ==
  ASSUME NEW e \in Entries, NEW hasBase \in BOOLEAN,
         NEW v \in Values \cup {Blank}
  PROVE  /\ EntryWith(e, hasBase, v) \in Entries
         /\ [EntryWith(e, hasBase, v) EXCEPT !.flag = TRUE] \in Entries
BY DEF Entries, EntryWith, Contents

\* SaveToCache, player by player: it disturbs only its own player, whose copy
\* keeps or takes the content of the message; a copy it leaves clean was clean
\* before and not touched, or is in the row.
LEMMA SaveEffect ==
  ASSUME TypeOK, NEW t \in Threads, NEW c \in Chars, NEW hasBase \in BOOLEAN,
         NEW isdel \in BOOLEAN, NEW ok \in BOOLEAN,
         NEW v \in Values \cup {Blank},
         SaveToCache(t, c, hasBase, v, isdel, ok)
  PROVE  /\ \A d \in Chars \ {c} :
              m_allPlayer'[d] = m_allPlayer[d] /\ db'[d] = db[d]
         /\ m_allPlayer[c] \in Entries /\ m_allPlayer'[c] \in Entries
         /\ m_allPlayer'[c].content =
              IF hasBase THEN v ELSE m_allPlayer[c].content
         /\ hasBase => m_allPlayer[c].content # Null
         /\ \/ db'[c] = db[c]
            \/ /\ m_allPlayer'[c].content # Null
               /\ db'[c] = RowAfterUpdate(db[c], m_allPlayer'[c].content)
         /\ ~m_allPlayer'[c].flag =>
              \/ ~hasBase /\ ~m_allPlayer[c].flag /\ db'[c] = db[c]
              \/ /\ m_allPlayer'[c].content # Null
                 /\ db'[c] = RowAfterUpdate(db[c], m_allPlayer'[c].content)
<1> DEFINE e1 == EntryWith(m_allPlayer[c], hasBase, v)
           e2 == [e1 EXCEPT !.flag = TRUE]
<1>1. m_allPlayer[c] \in Entries
  BY DEF SaveToCache, Cached, TypeOK
<1>2. e1 \in Entries /\ e2 \in Entries
  BY <1>1, SavedEntryTypes
<1>3. /\ e1.content = (IF hasBase THEN v ELSE m_allPlayer[c].content)
      /\ e2.content = e1.content /\ e2.flag
      /\ ~e1.flag => ~hasBase /\ ~m_allPlayer[c].flag
  BY <1>1 DEF EntryWith, Entries
<1>4. /\ m_allPlayer' = [m_allPlayer EXCEPT
                          ![c] = IF isdel THEN EntryAfterSave(e2, ok) ELSE e1]
      /\ db' = IF isdel THEN [db EXCEPT ![c] = RowAfterSave(db[c], e2, ok)]
                        ELSE db
      /\ hasBase => m_allPlayer[c].content # Null
  BY DEF SaveToCache
<1> HIDE DEF e1, e2
<1>5. CASE ~isdel
  BY <1>1, <1>2, <1>3, <1>4, <1>5 DEF TypeOK
<1>6. CASE isdel
  <2>1. /\ EntryAfterSave(e2, ok) \in Entries
        /\ EntryAfterSave(e2, ok).content = e2.content
    BY <1>2 DEF EntryAfterSave, Entries
  <2>2. \/ RowAfterSave(db[c], e2, ok) = db[c]
        \/ /\ e2.content # Null
           /\ RowAfterSave(db[c], e2, ok) = RowAfterUpdate(db[c], e2.content)
    BY DEF RowAfterSave
  <2>3. ~EntryAfterSave(e2, ok).flag =>
           /\ e2.content # Null
           /\ RowAfterSave(db[c], e2, ok) = RowAfterUpdate(db[c], e2.content)
    BY <1>3 DEF EntryAfterSave, RowAfterSave
  <2>4. /\ m_allPlayer' = [m_allPlayer EXCEPT ![c] = EntryAfterSave(e2, ok)]
        /\ db' = [db EXCEPT ![c] = RowAfterSave(db[c], e2, ok)]
    BY <1>4, <1>6
  <2>5. m_allPlayer'[c] = EntryAfterSave(e2, ok)
    BY <2>4 DEF TypeOK
  <2>6. db'[c] = RowAfterSave(db[c], e2, ok)
    BY <2>4 DEF TypeOK
  <2> QED BY <1>1, <1>3, <1>4, <2>1, <2>2, <2>3, <2>4, <2>5, <2>6 DEF TypeOK
<1> QED BY <1>5, <1>6

\* SaveCacheToDB, player by player: nothing happens to him, or his dirty copy
\* is written and marked clean.
LEMMA WriteBackEffect ==
  ASSUME TypeOK, SaveCacheToDB, NEW c \in Chars
  PROVE  \/ m_allPlayer'[c] = m_allPlayer[c] /\ db'[c] = db[c]
         \/ /\ m_allPlayer[c] \in Entries /\ m_allPlayer'[c] \in Entries
            /\ Dirty(c)
            /\ m_allPlayer'[c] = [m_allPlayer[c] EXCEPT !.flag = FALSE]
            /\ m_allPlayer'[c].content = m_allPlayer[c].content
            /\ ~m_allPlayer'[c].flag
            /\ db'[c] = RowAfterUpdate(db[c], m_allPlayer[c].content)
<1> PICK ok \in SUBSET timeout :
      LET saved == {d \in timeout : Cached(d) /\ m_allPlayer[d].flag} IN
      /\ db' = [d \in Chars |-> IF d \in saved
                   THEN RowAfterSave(db[d], m_allPlayer[d], d \in ok) ELSE db[d]]
      /\ m_allPlayer' = [d \in Chars |-> IF d \in saved
                   THEN EntryAfterSave(m_allPlayer[d], d \in ok)
                   ELSE m_allPlayer[d]]
  BY DEF SaveCacheToDB
<1>1. CASE c \in timeout /\ Cached(c) /\ m_allPlayer[c].flag
  <2>1. m_allPlayer[c] \in Entries
    BY <1>1 DEF Cached, TypeOK
  <2>2. /\ m_allPlayer'[c] = EntryAfterSave(m_allPlayer[c], c \in ok)
        /\ db'[c] = RowAfterSave(db[c], m_allPlayer[c], c \in ok)
    BY <1>1 DEF TypeOK
  <2>3. CASE c \in ok /\ m_allPlayer[c].content # Null
    <3>1. m_allPlayer'[c] = [m_allPlayer[c] EXCEPT !.flag = FALSE]
      BY <2>2, <2>3 DEF EntryAfterSave
    <3>2. db'[c] = RowAfterUpdate(db[c], m_allPlayer[c].content)
      BY <1>1, <2>2, <2>3 DEF RowAfterSave
    <3> QED BY <1>1, <2>1, <2>3, <3>1, <3>2 DEF Dirty, Entries
  <2>4. CASE ~(c \in ok /\ m_allPlayer[c].content # Null)
    BY <2>2, <2>4 DEF EntryAfterSave, RowAfterSave
  <2> QED BY <2>3, <2>4
<1>2. CASE ~(c \in timeout /\ Cached(c) /\ m_allPlayer[c].flag)
  BY <1>2
<1> QED BY <1>1, <1>2

\* SaveCacheAndDelete, player by player: nothing happens to him, or his entry
\* goes and his dirty copy is written or else counted as lost.
LEMMA EvictionEffect ==
  ASSUME TypeOK, SaveCacheAndDelete, NEW c \in Chars
  PROVE  \/ /\ m_allPlayer'[c] = m_allPlayer[c] /\ db'[c] = db[c]
            /\ ~Cached(c) \/ c \notin deltimeout
         \/ /\ Cached(c) /\ c \in deltimeout
            /\ m_allPlayer'[c] = Absent
            /\ \A t \in Threads : pc[t] # "idle" /\ cid[t] = c => t \in evicted'
            /\ \/ db'[c] = db[c] /\ (Dirty(c) => c \in lost')
               \/ Dirty(c) /\ db'[c] = RowAfterUpdate(db[c], m_allPlayer[c].content)
<1> PICK ok \in SUBSET deltimeout :
      LET gone == {d \in deltimeout : Cached(d)} IN
      /\ db' = [d \in Chars |-> IF d \in gone
                   THEN RowAfterSave(db[d], m_allPlayer[d], d \in ok) ELSE db[d]]
      /\ lost' = lost \cup {d \in gone : Dirty(d) /\ d \notin ok}
      /\ m_allPlayer' = [d \in Chars |->
                           IF d \in gone THEN Absent ELSE m_allPlayer[d]]
      /\ evicted' = evicted \cup
                      {t \in Threads : pc[t] # "idle" /\ cid[t] \in gone}
  BY DEF SaveCacheAndDelete
<1>1. CASE c \in deltimeout /\ Cached(c)
  <2>1. /\ m_allPlayer'[c] = Absent
        /\ db'[c] = RowAfterSave(db[c], m_allPlayer[c], c \in ok)
        /\ \A t \in Threads : pc[t] # "idle" /\ cid[t] = c => t \in evicted'
    BY <1>1
  <2>2. CASE c \in ok /\ Dirty(c)
    BY <1>1, <2>1, <2>2 DEF RowAfterSave, Dirty
  <2>3. CASE ~(c \in ok /\ Dirty(c))
    <3>1. db'[c] = db[c]
      BY <1>1, <2>1, <2>3 DEF RowAfterSave, Dirty
    <3> QED BY <1>1, <2>1, <2>3, <3>1
  <2> QED BY <2>2, <2>3
<1>2. CASE ~(c \in deltimeout /\ Cached(c))
  BY <1>2
<1> QED BY <1>1, <1>2

(***************************************************************************)
(* Every variable keeps its type: no NoRow reaches the cache, no Null or   *)
(* NoRow an answer, and a thread at work serves a player.                  *)
(***************************************************************************)
THEOREM TypeInvariant == Spec => []TypeOK
<1>1. Init => TypeOK
  BY ValuesAssumption DEF Init, TypeOK
<1>2. TypeOK /\ [Next]_vars => TypeOK'
  <2> SUFFICES ASSUME TypeOK, [Next]_vars PROVE TypeOK'
    OBVIOUS
  <2> USE DEF TypeOK
  <2>1. ASSUME NEW t \in Threads, Login(t) PROVE TypeOK'
    <3>1. ASSUME NEW c \in Chars, IsPlayerInCache(t, c) PROVE TypeOK'
      BY <3>1, CharsAssumption DEF IsPlayerInCache, cacheVars, svrVars
    <3>2. CASE NoConnection(t)
      BY <3>2 DEF NoConnection, cacheVars, svrVars, history
    <3>3. CASE GetRoleInfo(t)
      BY <3>3 DEF GetRoleInfo, cacheVars, svrVars, history
    <3>4. CASE AddNewPlayer(t)
      <4>1. [content |-> loaded[t], flag |-> FALSE] \in Entries
        BY DEF Entries, Contents
      <4>2. cid[t] \in Chars
        BY <3>4 DEF AddNewPlayer
      <4> QED BY <3>4, <4>1, <4>2 DEF AddNewPlayer, svrVars
    <3>5. CASE AddCacheTimeout(t)
      BY <3>5 DEF AddCacheTimeout, svrVars, history
    <3>6. CASE GetPlayerInfo(t)
      <4>1. Cached(cid[t]) /\ cid[t] \in Chars =>
              m_allPlayer[cid[t]].content \in Values \cup {Blank, Null}
        BY DEF Cached, Entries, Contents
      <4> QED BY <3>6, <4>1 DEF GetPlayerInfo, cacheVars, svrVars, history
    <3>7. CASE DelCacheTime(t)
      BY <3>7 DEF DelCacheTime, svrVars
    <3>8. CASE SendReply(t)
      BY <3>8 DEF SendReply, cacheVars, svrVars, history
    <3> QED BY <2>1, <3>1, <3>2, <3>3, <3>4, <3>5, <3>6, <3>7, <3>8 DEF Login
  <2>2. ASSUME NEW t \in Threads, Save(t) PROVE TypeOK'
    <3>1. PICK c \in Chars, hasBase \in BOOLEAN, isdel \in BOOLEAN,
               ok \in BOOLEAN, v \in Values \cup {Blank} :
            SaveDropped(t, c) \/ SaveToCache(t, c, hasBase, v, isdel, ok)
      BY <2>2 DEF Save
    <3>2. CASE SaveDropped(t, c)
      BY <3>2 DEF SaveDropped, vars, cacheVars, svrVars, thrVars, history
    <3>3. CASE SaveToCache(t, c, hasBase, v, isdel, ok)
      <4> DEFINE e1 == EntryWith(m_allPlayer[c], hasBase, v)
                 e2 == [e1 EXCEPT !.flag = TRUE]
      <4>1. m_allPlayer[c] \in Entries
        BY <3>3 DEF SaveToCache, Cached
      <4>2. e1 \in Entries /\ e2 \in Entries
        BY <4>1, SavedEntryTypes
      <4>3. /\ EntryAfterSave(e2, ok) \in Entries
            /\ RowAfterSave(db[c], e2, ok) \in Values \cup {NoRow}
        BY <4>2, SaveKeepsTypes
      <4> HIDE DEF e1, e2
      <4>4. /\ m_allPlayer' = [m_allPlayer EXCEPT
                   ![c] = IF isdel THEN EntryAfterSave(e2, ok) ELSE e1]
            /\ db' = IF isdel THEN [db EXCEPT ![c] = RowAfterSave(db[c], e2, ok)]
                              ELSE db
        BY <3>3 DEF SaveToCache, e1, e2
      <4>5. m_allPlayer' \in [Chars -> Entries \cup {Absent}]
        BY <4>2, <4>3, <4>4
      <4>6. db' \in [Chars -> Values \cup {NoRow}]
        BY <4>3, <4>4
      <4> QED BY <3>3, <4>5, <4>6 DEF SaveToCache, svrVars, thrVars
    <3> QED BY <3>1, <3>2, <3>3
  <2>3. CASE Scan
    BY <2>3 DEF Scan, thrVars, history
  <2>4. CASE SaveCacheToDB
    <3>1. \A c \in Chars : /\ db'[c] \in Values \cup {NoRow}
                         /\ m_allPlayer'[c] \in Entries \cup {Absent}
      BY <2>4, WriteBackEffect DEF RowAfterUpdate
    <3>2. /\ db' = [c \in Chars |-> db'[c]]
          /\ m_allPlayer' = [c \in Chars |-> m_allPlayer'[c]]
      BY <2>4 DEF SaveCacheToDB
    <3> QED BY <2>4, <3>1, <3>2 DEF SaveCacheToDB, thrVars, history
  <2>5. CASE SaveCacheAndDelete
    <3>1. \A c \in Chars : /\ db'[c] \in Values \cup {NoRow}
                         /\ m_allPlayer'[c] \in Entries \cup {Absent}
      BY <2>5, EvictionEffect DEF RowAfterUpdate
    <3>2. /\ db' = [c \in Chars |-> db'[c]]
          /\ m_allPlayer' = [c \in Chars |-> m_allPlayer'[c]]
          /\ lost' \subseteq Chars /\ evicted' \subseteq Threads
      BY <2>5 DEF SaveCacheAndDelete
    <3> QED BY <2>5, <3>1, <3>2 DEF SaveCacheAndDelete, thrVars
  <2>6. CASE Restart
    BY <2>6, CharsAssumption DEF Restart
  <2>7. CASE UNCHANGED vars
    BY <2>7 DEF vars, cacheVars, svrVars, thrVars, history
  <2> QED BY <2>1, <2>2, <2>3, <2>4, <2>5, <2>6, <2>7
          DEF Next, Svr, NullContent, Crash
<1> QED BY <1>1, <1>2, PTL DEF Spec

(***************************************************************************)
(* A cached player never falls out of the timer's sight.  With it goes     *)
(* what the lists of CacheTimeOut::svr may hold between its steps.         *)
(***************************************************************************)
Lists ==
  /\ svrPC = "scan" => deltimeout = {}
  /\ svrPC # "save" => timeout = {}

THEOREM WriteBackIsScheduled == Spec => []WriteBackScheduled
<1>1. Init => Lists /\ WriteBackScheduled
  BY DEF Init, Lists, WriteBackScheduled, Cached
<1>2. TypeOK /\ Lists /\ WriteBackScheduled /\ [Next]_vars
        => Lists' /\ WriteBackScheduled'
  <2> SUFFICES ASSUME TypeOK, Lists, WriteBackScheduled, [Next]_vars
               PROVE  Lists' /\ WriteBackScheduled'
    OBVIOUS
  <2> USE DEF Lists, WriteBackScheduled
  <2>1. ASSUME NEW t \in Threads, Login(t) PROVE Lists' /\ WriteBackScheduled'
    <3>1. ASSUME NEW c \in Chars, IsPlayerInCache(t, c)
          PROVE  Lists' /\ WriteBackScheduled'
      BY <3>1 DEF IsPlayerInCache, Cached, cacheVars, svrVars, TypeOK
    <3>2. CASE NoConnection(t)
      BY <3>2 DEF NoConnection, Cached, cacheVars, svrVars, history, TypeOK
    <3>3. CASE GetRoleInfo(t)
      BY <3>3 DEF GetRoleInfo, Cached, cacheVars, svrVars, history, TypeOK
    <3>4. CASE AddNewPlayer(t)
      BY <3>4 DEF AddNewPlayer, Cached, svrVars, TypeOK
    <3>5. CASE AddCacheTimeout(t)
      BY <3>5 DEF AddCacheTimeout, Cached, svrVars, history, TypeOK
    <3>6. CASE GetPlayerInfo(t)
      BY <3>6 DEF GetPlayerInfo, Cached, cacheVars, svrVars, history, TypeOK
    <3>7. CASE DelCacheTime(t)
      BY <3>7 DEF DelCacheTime, Cached, svrVars, TypeOK
    <3>8. CASE SendReply(t)
      BY <3>8 DEF SendReply, Cached, cacheVars, svrVars, history, TypeOK
    <3> QED BY <2>1, <3>1, <3>2, <3>3, <3>4, <3>5, <3>6, <3>7, <3>8 DEF Login
  <2>2. ASSUME NEW t \in Threads, Save(t) PROVE Lists' /\ WriteBackScheduled'
    <3>1. PICK c \in Chars, hasBase \in BOOLEAN, isdel \in BOOLEAN,
               ok \in BOOLEAN, v \in Values \cup {Blank} :
            SaveDropped(t, c) \/ SaveToCache(t, c, hasBase, v, isdel, ok)
      BY <2>2 DEF Save
    <3>2. CASE SaveDropped(t, c)
      BY <3>2 DEF SaveDropped, Cached, vars, cacheVars, svrVars, thrVars
    <3>3. CASE SaveToCache(t, c, hasBase, v, isdel, ok)
      <4>1. \A d \in Chars : Cached(d)' => Cached(d)
        BY <3>3 DEF SaveToCache, Cached, TypeOK
      <4> QED BY <3>3, <4>1 DEF SaveToCache, svrVars, thrVars
    <3> QED BY <3>1, <3>2, <3>3
  <2>3. CASE Scan
    BY <2>3 DEF Scan, Cached, thrVars, history
  <2>4. CASE SaveCacheToDB
    <3>1. \A d \in Chars : Cached(d)' => Cached(d)
      BY <2>4 DEF SaveCacheToDB, Cached, TypeOK
    <3> QED BY <2>4, <3>1 DEF SaveCacheToDB, thrVars
  <2>5. CASE SaveCacheAndDelete
    <3>1. \A d \in Chars : Cached(d)' => Cached(d) /\ d \notin deltimeout
      BY <2>5 DEF SaveCacheAndDelete, Cached, TypeOK
    <3>2. timeout' = {} /\ svrPC' = "scan" /\ deltimeout' = {}
      BY <2>5 DEF SaveCacheAndDelete
    <3> QED BY <2>5, <3>1, <3>2 DEF SaveCacheAndDelete, thrVars
  <2>6. CASE Restart
    BY <2>6 DEF Restart, Cached
  <2>7. CASE UNCHANGED vars
    BY <2>7 DEF vars, Cached, cacheVars, svrVars, thrVars
  <2> QED BY <2>1, <2>2, <2>3, <2>4, <2>5, <2>6, <2>7
          DEF Next, Svr, NullContent, Crash
<1> QED BY <1>1, <1>2, TypeInvariant, PTL DEF Spec

(***************************************************************************)
(* A player who came back in time stays cached until he logs out again.    *)
(***************************************************************************)
THEOREM RetainedPlayersStay == Spec => []RetainedStaysCached
<1>1. Init => RetainedStaysCached
  BY DEF Init, RetainedStaysCached
<1>2. TypeOK /\ RetainedStaysCached /\ [Next]_vars => RetainedStaysCached'
  <2> SUFFICES ASSUME TypeOK, RetainedStaysCached, [Next]_vars
               PROVE  RetainedStaysCached'
    OBVIOUS
  <2> USE DEF RetainedStaysCached
  <2>1. ASSUME NEW t \in Threads, Login(t) PROVE RetainedStaysCached'
    <3>1. ASSUME NEW c \in Chars, IsPlayerInCache(t, c)
          PROVE  RetainedStaysCached'
      BY <3>1 DEF IsPlayerInCache, Cached, cacheVars, svrVars
    <3>2. CASE NoConnection(t)
      BY <3>2 DEF NoConnection, Cached, cacheVars, svrVars, history
    <3>3. CASE GetRoleInfo(t)
      BY <3>3 DEF GetRoleInfo, Cached, cacheVars, svrVars, history
    <3>4. CASE AddNewPlayer(t)
      <4>1. [content |-> loaded[t], flag |-> FALSE] \in Entries
        BY DEF Entries, Contents, TypeOK
      <4>2. \A d \in Chars : Cached(d) => Cached(d)'
        BY <3>4, <4>1, EntryIsCached DEF AddNewPlayer, Cached, TypeOK
      <4> QED BY <3>4, <4>2 DEF AddNewPlayer, svrVars, TypeOK
    <3>5. CASE AddCacheTimeout(t)
      BY <3>5 DEF AddCacheTimeout, Cached, svrVars, history
    <3>6. CASE GetPlayerInfo(t)
      BY <3>6 DEF GetPlayerInfo, Cached, cacheVars, svrVars, history
    <3>7. CASE DelCacheTime(t)
      BY <3>7 DEF DelCacheTime, Cached, svrVars
    <3>8. CASE SendReply(t)
      BY <3>8 DEF SendReply, Cached, cacheVars, svrVars, history
    <3> QED BY <2>1, <3>1, <3>2, <3>3, <3>4, <3>5, <3>6, <3>7, <3>8 DEF Login
  <2>2. ASSUME NEW t \in Threads, Save(t) PROVE RetainedStaysCached'
    <3>1. PICK c \in Chars, hasBase \in BOOLEAN, isdel \in BOOLEAN,
               ok \in BOOLEAN, v \in Values \cup {Blank} :
            SaveDropped(t, c) \/ SaveToCache(t, c, hasBase, v, isdel, ok)
      BY <2>2 DEF Save
    <3>2. CASE SaveDropped(t, c)
      BY <3>2 DEF SaveDropped, Cached, vars, cacheVars, svrVars, history
    <3>3. CASE SaveToCache(t, c, hasBase, v, isdel, ok)
      <4>1. \A d \in Chars : Cached(d) => Cached(d)'
        BY <3>3, SaveEffect, EntryIsCached DEF Cached
      <4> QED BY <3>3, <4>1 DEF SaveToCache, svrVars, TypeOK
    <3> QED BY <3>1, <3>2, <3>3
  <2>3. CASE Scan
    BY <2>3 DEF Scan, Cached, history
  <2>4. CASE SaveCacheToDB
    <3>1. \A d \in Chars : Cached(d) => Cached(d)'
      BY <2>4, WriteBackEffect, EntryIsCached DEF Cached
    <3> QED BY <2>4, <3>1 DEF SaveCacheToDB, history, TypeOK
  <2>5. CASE SaveCacheAndDelete
    <3>1. \A d \in Chars \ deltimeout : Cached(d) => Cached(d)'
      BY <2>5, EvictionEffect DEF Cached
    <3> QED BY <2>5, <3>1 DEF SaveCacheAndDelete, TypeOK
  <2>6. CASE Restart
    BY <2>6 DEF Restart
  <2>7. CASE UNCHANGED vars
    BY <2>7 DEF vars, Cached, cacheVars, svrVars, history
  <2> QED BY <2>1, <2>2, <2>3, <2>4, <2>5, <2>6, <2>7
          DEF Next, Svr, NullContent, Crash
<1> QED BY <1>1, <1>2, TypeInvariant, PTL DEF Spec
(***************************************************************************)
(* The last save of a player is never forgotten.  Durable alone is not     *)
(* inductive: what AddNewPlayer puts in the map was read from the row some *)
(* steps before.  Unless another login overtook it the row has not changed *)
(* since, because only a cached player's row is ever written (Loads); and  *)
(* an UPDATE carries the copy to the row only if the row exists and the    *)
(* copy is not blank (Rows).                                               *)
(***************************************************************************)
Loads ==
  \A t \in Threads :
    /\ pc[t] \in {"load", "add"} /\ t \notin overlap =>
         /\ ~Cached(cid[t])
         /\ pc[t] = "add" => loaded[t] \in {Null, db[cid[t]]}
    /\ pc[t] = "add" /\ loaded[t] # Null => db[cid[t]] # NoRow

Rows ==
  \A c \in Chars :
    /\ c \notin lost => latest[c] # Blank
    /\ Cached(c) /\ m_allPlayer[c].content # Null => db[c] # NoRow

DurableInv == Loads /\ Rows /\ Durable

\* The strengthening of Durable is inductive: a row that a login has read but
\* not yet cached is the last save, or another login overtook it.
THEOREM DurableInvHolds == Spec => []DurableInv
<1>1. Init => DurableInv
  BY ValuesAssumption
     DEF Init, DurableInv, Loads, Rows, Durable, Cached, Absent
<1>2. TypeOK /\ DurableInv /\ [Next]_vars => DurableInv'
  <2> SUFFICES ASSUME TypeOK, DurableInv, [Next]_vars PROVE DurableInv'
    OBVIOUS
  <2> USE DEF DurableInv
  <2>1. ASSUME NEW t \in Threads, Login(t) PROVE DurableInv'
    <3>1. ASSUME NEW c \in Chars, IsPlayerInCache(t, c) PROVE DurableInv'
      BY <3>1 DEF IsPlayerInCache, Cached, cacheVars, svrVars, TypeOK,
                  Loads, Rows, Durable
    <3>2. CASE NoConnection(t)
      BY <3>2 DEF NoConnection, Cached, cacheVars, svrVars, history, TypeOK,
                  Loads, Rows, Durable
    <3>3. CASE GetRoleInfo(t)
      <4>1. PICK v \in {Null} \cup ({db[cid[t]]} \cap Values) :
              loaded' = [loaded EXCEPT ![t] = v]
        BY <3>3 DEF GetRoleInfo
      <4>2. v \in {Null, db[cid[t]]} /\ (v # Null => v \in Values)
        OBVIOUS
      <4>3. Loads'
        BY <3>3, <4>1, <4>2, ValuesAssumption
           DEF GetRoleInfo, Cached, cacheVars, svrVars, history, TypeOK, Loads
      <4>4. Rows' /\ Durable'
        BY <3>3 DEF GetRoleInfo, Cached, cacheVars, history, Rows, Durable
      <4> QED BY <4>3, <4>4
    <3>4. CASE AddNewPlayer(t)
      <4> DEFINE c == cid[t]
                 e == [content |-> loaded[t], flag |-> FALSE]
      <4>1. c \in Chars /\ e \in Entries /\ e # Absent
        BY <3>4, EntryIsCached DEF AddNewPlayer, TypeOK, Entries, Contents
      <4>2. /\ m_allPlayer' = [m_allPlayer EXCEPT ![c] = e]
            /\ UNCHANGED <<db, latest>>
        BY <3>4 DEF AddNewPlayer
      <4>3. /\ m_allPlayer'[c] = e
            /\ \A d \in Chars \ {c} : m_allPlayer'[d] = m_allPlayer[d]
        BY <4>1, <4>2 DEF TypeOK
      <4>4. Loads'
        <5> SUFFICES ASSUME NEW u \in Threads PROVE Loads!(u)'
          BY DEF Loads
        <5>1. CASE u = t
          BY <3>4, <5>1 DEF AddNewPlayer, TypeOK
        <5>2. CASE u # t
          <6>1. /\ pc'[u] = pc[u] /\ cid' = cid /\ db' = db
                /\ loaded'[u] = loaded[u]
                /\ u \in overlap => u \in overlap'
                /\ pc[u] \in {"load", "add"} /\ cid[u] = c => u \in overlap'
            BY <3>4, <5>2 DEF AddNewPlayer, TypeOK
          <6>2. pc[u] # "idle" => cid[u] \in Chars
            BY DEF TypeOK
          <6> QED BY <4>3, <6>1, <6>2 DEF Loads, Cached
        <5> QED BY <5>1, <5>2
      <4>5. Rows' /\ Durable'
        <5> SUFFICES ASSUME NEW d \in Chars PROVE Rows!(d)' /\
              (d \notin lost' => Durable!(d)')
          BY DEF Rows, Durable
        <5>1. CASE d # c
          BY <3>4, <4>2, <4>3, <5>1 DEF AddNewPlayer, Rows, Durable, Cached
        <5>2. CASE d = c
          <6>1. e.content = loaded[t] /\ e.flag = FALSE
            OBVIOUS
          <6>2. d \notin lost' => d \notin lost /\ t \notin overlap
            BY <3>4, <5>2 DEF AddNewPlayer
          <6>3. /\ loaded[t] # Null => db[c] # NoRow
                /\ t \notin overlap => ~Cached(c) /\ loaded[t] \in {Null, db[c]}
            BY <3>4 DEF AddNewPlayer, Loads
          <6>4. /\ d \notin lost => latest[d] # Blank
                /\ d \notin lost /\ ~Cached(d) => db[d] = latest[d]
            BY DEF Rows, Durable
          <6> QED BY <4>1, <4>2, <4>3, <5>2, <6>1, <6>2, <6>3, <6>4
                  DEF Cached
        <5> QED BY <5>1, <5>2
      <4> QED BY <4>4, <4>5
    <3>5. CASE AddCacheTimeout(t)
      BY <3>5 DEF AddCacheTimeout, Cached, svrVars, history, TypeOK,
                  Loads, Rows, Durable
    <3>6. CASE GetPlayerInfo(t)
      BY <3>6 DEF GetPlayerInfo, Cached, cacheVars, svrVars, history, TypeOK,
                  Loads, Rows, Durable
    <3>7. CASE DelCacheTime(t)
      BY <3>7 DEF DelCacheTime, Cached, svrVars, TypeOK, Loads, Rows, Durable
    <3>8. CASE SendReply(t)
      BY <3>8 DEF SendReply, Cached, cacheVars, svrVars, history, TypeOK,
                  Loads, Rows, Durable
    <3> QED BY <2>1, <3>1, <3>2, <3>3, <3>4, <3>5, <3>6, <3>7, <3>8 DEF Login
  <2>2. ASSUME NEW t \in Threads, Save(t) PROVE DurableInv'
    <3>1. PICK c \in Chars, hasBase \in BOOLEAN, isdel \in BOOLEAN,
               ok \in BOOLEAN, v \in Values \cup {Blank} :
            SaveDropped(t, c) \/ SaveToCache(t, c, hasBase, v, isdel, ok)
      BY <2>2 DEF Save
    <3>2. CASE SaveDropped(t, c)
      BY <3>2 DEF SaveDropped, Cached, vars, cacheVars, svrVars, thrVars,
                  history, Loads, Rows, Durable
    <3>3. CASE SaveToCache(t, c, hasBase, v, isdel, ok)
      <4> DEFINE old == m_allPlayer[c]
                 new == m_allPlayer'[c]
      <4>1. /\ \A d \in Chars \ {c} :
                 m_allPlayer'[d] = m_allPlayer[d] /\ db'[d] = db[d]
            /\ old \in Entries /\ new \in Entries
            /\ new.content = IF hasBase THEN v ELSE old.content
            /\ hasBase => old.content # Null
            /\ \/ db'[c] = db[c]
               \/ new.content # Null /\ db'[c] = RowAfterUpdate(db[c], new.content)
            /\ ~new.flag =>
                 \/ ~hasBase /\ ~old.flag /\ db'[c] = db[c]
                 \/ new.content # Null /\ db'[c] = RowAfterUpdate(db[c], new.content)
        BY <3>3, SaveEffect
      <4>2. /\ old # Absent /\ new # Absent
            /\ new.content \in Values \cup {Blank, Null}
        BY <4>1, EntryIsCached DEF Entries, Contents
      <4>3. /\ latest'[c] = IF hasBase THEN v ELSE latest[c]
            /\ c \notin lost' => (hasBase /\ v # Blank) \/ (~hasBase /\ c \notin lost)
            /\ \A d \in Chars \ {c} : latest'[d] = latest[d]
            /\ \A d \in Chars \ {c} : d \in lost => d \in lost'
            /\ UNCHANGED <<pc, cid, loaded, overlap>>
        BY <3>3 DEF SaveToCache, thrVars, TypeOK
      <4> HIDE DEF old, new
      <4>4. Loads'
        <5> SUFFICES ASSUME NEW u \in Threads PROVE Loads!(u)'
          BY DEF Loads
        <5>1. pc[u] \in {"load", "add"} => cid[u] \in Chars
          BY DEF TypeOK
        <5>2. pc[u] \in {"load", "add"} /\ u \notin overlap => cid[u] # c
          BY <4>2 DEF Loads, Cached, old
        <5>3. \A d \in Chars : db[d] # NoRow => db'[d] # NoRow
          BY <4>1, <4>2, ValuesAssumption DEF RowAfterUpdate
        <5> QED BY <4>1, <4>3, <5>1, <5>2, <5>3 DEF Loads, Cached
      <4>5. Rows' /\ Durable'
        <5> SUFFICES ASSUME NEW d \in Chars PROVE Rows!(d)' /\
              (d \notin lost' => Durable!(d)')
          BY DEF Rows, Durable
        <5>1. CASE d # c
          <6>1. /\ m_allPlayer'[d] = m_allPlayer[d] /\ db'[d] = db[d]
                /\ latest'[d] = latest[d] /\ (d \in lost => d \in lost')
            <7>1. d \in Chars \ {c}
              BY <5>1
            <7>2. m_allPlayer'[d] = m_allPlayer[d] /\ db'[d] = db[d]
              BY <4>1, <7>1
            <7>3. latest'[d] = latest[d] /\ (d \in lost => d \in lost')
              BY <4>3, <7>1
            <7> QED BY <7>2, <7>3
          <6>2. Rows!(d) /\ (d \notin lost => Durable!(d))
            BY DEF Rows, Durable
          <6> QED BY <6>1, <6>2 DEF Cached
        <5>2. CASE d = c
          <6>1. Rows!(c) /\ (c \notin lost => Durable!(c))
            BY DEF Rows, Durable
          <6>2. new.content # Null => db[c] # NoRow /\ db'[c] # NoRow
            BY <4>1, <4>2, <6>1, ValuesAssumption
               DEF Cached, old, RowAfterUpdate
          <6>3. c \notin lost' =>
                  /\ latest'[c] # Blank
                  /\ new.content # Null => new.content = latest'[c]
            BY <4>1, <4>2, <4>3, <6>1 DEF Cached, old
          <6>4. c \notin lost' /\ (new.content = Null \/ ~new.flag)
                  => db'[c] = latest'[c]
            <7>1. CASE new.content # Null /\ db'[c] = RowAfterUpdate(db[c], new.content)
              BY <4>2, <6>2, <6>3, <7>1 DEF RowAfterUpdate
            <7>2. CASE /\ ~hasBase /\ db'[c] = db[c]
                       /\ new.content = Null \/ ~old.flag
              BY <4>1, <4>2, <4>3, <6>1, <7>2 DEF Cached, old
            <7>3. new.content = Null => ~hasBase /\ db'[c] = db[c]
              BY <4>1, ValuesAssumption
            <7> QED BY <4>1, <7>1, <7>2, <7>3
          <6> QED BY <4>2, <5>2, <6>2, <6>3, <6>4 DEF Cached, new
        <5> QED BY <5>1, <5>2
      <4> QED BY <4>4, <4>5
    <3> QED BY <3>1, <3>2, <3>3
  <2>3. CASE Scan
    BY <2>3 DEF Scan, Cached, thrVars, history, Loads, Rows, Durable
  <2>4. CASE SaveCacheToDB
    <3>1. UNCHANGED <<pc, cid, loaded, overlap, latest, lost>>
      BY <2>4 DEF SaveCacheToDB, thrVars, history
    <3>2. \A c \in Chars : db[c] # NoRow => db'[c] # NoRow
      BY <2>4, WriteBackEffect, ValuesAssumption DEF RowAfterUpdate
    <3>3. \A c \in Chars : ~Cached(c) => m_allPlayer'[c] = m_allPlayer[c]
                                         /\ db'[c] = db[c]
      BY <2>4, WriteBackEffect DEF Dirty
    <3>4. \A t \in Threads : pc[t] # "idle" => cid[t] \in Chars
      BY DEF TypeOK
    <3>5. Loads'
      BY <3>1, <3>2, <3>3, <3>4 DEF Loads, Cached
    <3>6. Rows' /\ Durable'
      <4> SUFFICES ASSUME NEW c \in Chars PROVE Rows!(c)' /\
            (c \notin lost' => Durable!(c)')
        BY DEF Rows, Durable
      <4>1. Rows!(c) /\ (c \notin lost => Durable!(c))
        BY DEF Rows, Durable
      <4>2. CASE m_allPlayer'[c] = m_allPlayer[c] /\ db'[c] = db[c]
        BY <3>1, <4>1, <4>2 DEF Cached
      <4>3. CASE /\ m_allPlayer[c] \in Entries /\ m_allPlayer'[c] \in Entries
                 /\ Dirty(c)
                 /\ m_allPlayer'[c].content = m_allPlayer[c].content
                 /\ db'[c] = RowAfterUpdate(db[c], m_allPlayer[c].content)
        <5>1. /\ m_allPlayer[c].content \in Values \cup {Blank}
              /\ m_allPlayer'[c] # Absent
          BY <4>3, EntryIsCached DEF Entries, Contents, Dirty
        <5>2. c \notin lost => /\ m_allPlayer[c].content = latest[c]
                              /\ db'[c] = latest[c]
          BY <4>1, <4>3, <5>1 DEF Dirty, RowAfterUpdate
        <5> QED BY <3>1, <3>2, <4>1, <4>3, <5>1, <5>2 DEF Cached, Dirty
      <4> QED BY <2>4, <4>2, <4>3, WriteBackEffect
    <3> QED BY <3>5, <3>6
  <2>5. CASE SaveCacheAndDelete
    <3>1. /\ UNCHANGED <<pc, cid, loaded, overlap, latest>>
          /\ lost \subseteq lost'
      BY <2>5 DEF SaveCacheAndDelete, thrVars
    <3>2. \A c \in Chars : db[c] # NoRow => db'[c] # NoRow
      BY <2>5, EvictionEffect, ValuesAssumption DEF RowAfterUpdate
    <3>3. \A c \in Chars : ~Cached(c) => m_allPlayer'[c] = m_allPlayer[c]
                                         /\ db'[c] = db[c]
      BY <2>5, EvictionEffect
    <3>4. \A t \in Threads : pc[t] # "idle" => cid[t] \in Chars
      BY DEF TypeOK
    <3>5. Loads'
      BY <3>1, <3>2, <3>3, <3>4 DEF Loads, Cached
    <3>6. Rows' /\ Durable'
      <4> SUFFICES ASSUME NEW c \in Chars PROVE Rows!(c)' /\
            (c \notin lost' => Durable!(c)')
        BY DEF Rows, Durable
      <4>1. Rows!(c) /\ (c \notin lost => Durable!(c))
        BY DEF Rows, Durable
      <4>2. CASE m_allPlayer'[c] = m_allPlayer[c] /\ db'[c] = db[c]
        BY <3>1, <4>1, <4>2 DEF Cached
      <4>3. CASE /\ Cached(c) /\ m_allPlayer'[c] = Absent
                 /\ db'[c] = db[c] /\ (Dirty(c) => c \in lost')
        BY <3>1, <4>1, <4>3 DEF Cached, Dirty
      <4>4. CASE /\ Dirty(c) /\ m_allPlayer'[c] = Absent
                 /\ db'[c] = RowAfterUpdate(db[c], m_allPlayer[c].content)
        <5>1. m_allPlayer[c].content \in Values \cup {Blank}
          BY <4>4 DEF Entries, Contents, Dirty, Cached, TypeOK
        <5>2. c \notin lost => db'[c] = latest[c]
          BY <4>1, <4>4, <5>1 DEF Dirty, RowAfterUpdate
        <5> QED BY <3>1, <4>1, <4>4, <5>2 DEF Cached
      <4> QED BY <2>5, <4>2, <4>3, <4>4, EvictionEffect
    <3> QED BY <3>5, <3>6
  <2>6. CASE Restart
    <3>1. Loads' /\ (\A c \in Chars : ~Cached(c)')
      BY <2>6 DEF Restart, Loads, Cached
    <3>2. \A c \in Chars \ lost' : c \notin lost /\ ~Dirty(c)
      BY <2>6 DEF Restart
    <3>3. \A c \in Chars \ lost' : db[c] = latest[c] /\ latest[c] # Blank
      BY <3>2 DEF Durable, Rows, Dirty
    <3> QED BY <2>6, <3>1, <3>3 DEF Restart, Rows, Durable
  <2>7. CASE UNCHANGED vars
    BY <2>7 DEF vars, Cached, cacheVars, svrVars, thrVars, history,
                Loads, Rows, Durable
  <2> QED BY <2>1, <2>2, <2>3, <2>4, <2>5, <2>6, <2>7
          DEF Next, Svr, NullContent, Crash
<1> QED BY <1>1, <1>2, TypeInvariant, PTL DEF Spec

(***************************************************************************)
(* The last save of every player is in the table or in a copy that is      *)
(* marked for writing, but for the accidents that lost names.              *)
(***************************************************************************)
THEOREM SavesAreDurable == Spec => []Durable
<1>1. DurableInv => Durable
  BY DEF DurableInv
<1> QED BY <1>1, DurableInvHolds, PTL

(***************************************************************************)
(* What a login is answered is what the player's last save said.           *)
(***************************************************************************)
THEOREM LoginsReadLastSave == Spec => LoginReadsLastSave
<1>1. TypeOK /\ DurableInv /\ [Next]_vars => [ReadsLastSave]_vars
  <2> SUFFICES ASSUME TypeOK, DurableInv, [Next]_vars, NEW u \in Threads,
                      reply'[u] \notin {None, Empty, reply[u]},
                      cid[u] \notin lost
               PROVE  reply'[u] = latest[cid[u]]
    BY DEF ReadsLastSave
  <2>1. ASSUME NEW t \in Threads, Login(t) PROVE GetPlayerInfo(t)
    <3>1. ASSUME reply' = reply PROVE FALSE
      BY <3>1
    <3>2. ~SendReply(t)
      BY DEF SendReply, TypeOK
    <3> QED BY <2>1, <3>1, <3>2 DEF Login, IsPlayerInCache, NoConnection,
              GetRoleInfo, AddNewPlayer, AddCacheTimeout, DelCacheTime
  <2>2. ASSUME NEW t \in Threads, Save(t) PROVE FALSE
    BY <2>2 DEF Save, SaveDropped, SaveToCache, vars, thrVars
  <2>3. ~Svr
    BY DEF Svr, Scan, SaveCacheToDB, SaveCacheAndDelete, thrVars
  <2>4. ~Restart
    BY DEF Restart
  <2>5. ~UNCHANGED vars
    BY DEF vars, thrVars
  <2>6. PICK t \in Threads : GetPlayerInfo(t)
    BY <2>1, <2>2, <2>3, <2>4, <2>5 DEF Next, NullContent, Crash
  <2>7. u = t /\ cid[t] \in Chars
    BY <2>6 DEF GetPlayerInfo, TypeOK
  <2>8. Cached(cid[t]) /\ m_allPlayer[cid[t]].content # Null
          /\ reply'[t] = m_allPlayer[cid[t]].content
    BY <2>6, <2>7 DEF GetPlayerInfo, TypeOK
  <2> QED BY <2>7, <2>8 DEF DurableInv, Durable
<1> QED BY <1>1, TypeInvariant, DurableInvHolds, PTL DEF LoginReadsLastSave, Spec

(***************************************************************************)
(* A login is answered with an empty PlayerInfo only if the player was     *)
(* evicted while it ran: up to its GetPlayerInfo it has seen him cached or *)
(* has cached him itself.                                                  *)
(***************************************************************************)
SeenCached ==
  \A t \in Threads :
    pc[t] \in {"addtime", "get"} /\ ~Cached(cid[t]) => t \in evicted

THEOREM EmptyRepliesExplained == Spec => []EmptyReplyOnlyAfterEviction
<1> DEFINE Inv == SeenCached /\ EmptyReplyOnlyAfterEviction
                  /\ (\A t \in Threads :
                       pc[t] \notin {"deltime", "reply"} => reply[t] = None)
<1>1. Init => Inv
  BY ValuesAssumption DEF Init, SeenCached, EmptyReplyOnlyAfterEviction
<1>2. TypeOK /\ Inv /\ [Next]_vars => Inv'
  <2> SUFFICES ASSUME TypeOK, Inv, [Next]_vars PROVE Inv'
    OBVIOUS
  <2> USE DEF SeenCached, EmptyReplyOnlyAfterEviction
  <2>1. ASSUME NEW t \in Threads, Login(t) PROVE Inv'
    <3>1. ASSUME NEW c \in Chars, IsPlayerInCache(t, c) PROVE Inv'
      BY <3>1, ValuesAssumption
         DEF IsPlayerInCache, Cached, cacheVars, svrVars, TypeOK
    <3>2. CASE NoConnection(t)
      BY <3>2 DEF NoConnection, Cached, cacheVars, svrVars, history, TypeOK
    <3>3. CASE GetRoleInfo(t)
      BY <3>3 DEF GetRoleInfo, Cached, cacheVars, svrVars, history, TypeOK
    <3>4. CASE AddNewPlayer(t)
      <4>1. [content |-> loaded[t], flag |-> FALSE] \in Entries
        BY DEF Entries, Contents, TypeOK
      <4>2. cid[t] \in Chars
        BY <3>4 DEF AddNewPlayer, TypeOK
      <4>3. Cached(cid[t])' /\ \A d \in Chars : Cached(d) => Cached(d)'
        BY <3>4, <4>1, <4>2, EntryIsCached DEF AddNewPlayer, Cached, TypeOK
      <4> QED BY <3>4, <4>3 DEF AddNewPlayer, svrVars, TypeOK
    <3>5. CASE AddCacheTimeout(t)
      BY <3>5 DEF AddCacheTimeout, Cached, svrVars, history, TypeOK
    <3>6. CASE GetPlayerInfo(t)
      <4>1. Cached(cid[t]) => m_allPlayer[cid[t]].content \in Values \cup {Blank, Null}
        BY <3>6 DEF GetPlayerInfo, Cached, Entries, Contents, TypeOK
      <4> QED BY <3>6, <4>1, ValuesAssumption
              DEF GetPlayerInfo, Cached, cacheVars, svrVars, history, TypeOK
    <3>7. CASE DelCacheTime(t)
      BY <3>7 DEF DelCacheTime, Cached, svrVars, TypeOK
    <3>8. CASE SendReply(t)
      BY <3>8, ValuesAssumption
         DEF SendReply, Cached, cacheVars, svrVars, history, TypeOK
    <3> QED BY <2>1, <3>1, <3>2, <3>3, <3>4, <3>5, <3>6, <3>7, <3>8 DEF Login
  <2>2. ASSUME NEW t \in Threads, Save(t) PROVE Inv'
    <3>1. PICK c \in Chars, hasBase \in BOOLEAN, isdel \in BOOLEAN,
               ok \in BOOLEAN, v \in Values \cup {Blank} :
            SaveDropped(t, c) \/ SaveToCache(t, c, hasBase, v, isdel, ok)
      BY <2>2 DEF Save
    <3>2. CASE SaveDropped(t, c)
      BY <3>2 DEF SaveDropped, Cached, vars, cacheVars, svrVars, thrVars, history
    <3>3. CASE SaveToCache(t, c, hasBase, v, isdel, ok)
      <4>1. \A d \in Chars : Cached(d) => Cached(d)'
        BY <3>3, SaveEffect, EntryIsCached DEF Cached
      <4> QED BY <3>3, <4>1 DEF SaveToCache, thrVars, TypeOK
    <3> QED BY <3>1, <3>2, <3>3
  <2>3. CASE Scan
    BY <2>3 DEF Scan, Cached, thrVars, history
  <2>4. CASE SaveCacheToDB
    <3>1. \A d \in Chars : Cached(d) => Cached(d)'
      BY <2>4, WriteBackEffect, EntryIsCached DEF Cached
    <3> QED BY <2>4, <3>1 DEF SaveCacheToDB, thrVars, history, TypeOK
  <2>5. CASE SaveCacheAndDelete
    <3>1. \A u \in Threads : pc[u] # "idle" /\ u \notin evicted' =>
             (Cached(cid[u]) => Cached(cid[u])')
      BY <2>5, EvictionEffect DEF Cached, SaveCacheAndDelete, thrVars, TypeOK
    <3>2. evicted \subseteq evicted' /\ UNCHANGED thrVars
      BY <2>5 DEF SaveCacheAndDelete
    <3> QED BY <3>1, <3>2 DEF thrVars
  <2>6. CASE Restart
    BY <2>6, ValuesAssumption DEF Restart
  <2>7. CASE UNCHANGED vars
    BY <2>7 DEF vars, Cached, cacheVars, svrVars, thrVars, history
  <2> QED BY <2>1, <2>2, <2>3, <2>4, <2>5, <2>6, <2>7
          DEF Next, Svr, NullContent, Crash
<1>3. Inv => EmptyReplyOnlyAfterEviction
  OBVIOUS
<1> QED BY <1>1, <1>2, <1>3, TypeInvariant, PTL DEF Spec
=============================================================================
