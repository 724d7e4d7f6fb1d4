----------------------------- MODULE CharMemCache -----------------------------
(***************************************************************************)
(* The write-back cache of DBServer (DBServer/src/CharMemCache and the     *)
(* handlers of DBServer/src/CharactorLogin that drive it).                 *)
(*                                                                         *)
(* Several dispatch threads serve the messages of the game servers: a     *)
(* login (MSG_REQ_GM2DB_PLAYERINFO) reads a player through the cache, a    *)
(* save (MSG_REQ_GS2DB_SAVE_PLAYERDATA, MSG_SIM_GT2GM_SAVE_PLAYERINFO)     *)
(* changes the cached copy.  One more thread, CacheTimeOut::svr, writes    *)
(* cached copies back to the table RoleInfo and evicts the players that    *)
(* logged out.  A step is what the code does under one acquisition of     *)
(* m_playerLock or m_timeLock, or one SQL statement.                       *)
(*                                                                         *)
(* Deadlines are abstracted: an entry of m_cacheTime or m_delCacheTime may *)
(* be found expired by any pass of the timer thread.                       *)
(***************************************************************************)
CONSTANTS
  Chars,     \* player ids (GET_PLAYER_CHARID of the id in the messages)
  Threads,   \* the DispatchMessage threads of DBServer
  Values,    \* what a BaseInfo that names its player may hold
  Blank,     \* a default-constructed BaseInfo: its charid is 0
  Null,      \* m_content is a null pointer: nothing was loaded
  NoRow,     \* RoleInfo has no row for the player
  Empty,     \* the reply of a login that found no cache entry
  None       \* no value

ASSUME CharsAssumption == Chars # {} /\ None \notin Chars
ASSUME ValuesAssumption ==
  /\ Values # {}
  /\ Blank \notin {Null, NoRow, Empty, None}
  /\ Null \notin {NoRow, Empty, None}
  /\ NoRow \notin {Empty, None}
  /\ Empty # None
  /\ {Blank, Null, NoRow, Empty, None} \cap Values = {}

Contents == Values \cup {Blank, Null}

\* m_allPlayer[c] of a player that is not in the map.
Absent == [content |-> None, flag |-> FALSE]

Entries == [content : Contents, flag : BOOLEAN]

VARIABLES
  db,              \* table RoleInfo
  m_allPlayer,     \* the cache: content and dirty flag of CStructTemplate
  m_cacheTime,     \* players with a write-back deadline
  m_delCacheTime,  \* players with an eviction deadline
  svrPC,           \* where CacheTimeOut::svr is
  timeout,         \* its local vector of players to write back
  deltimeout,      \* its local vector of players to evict
  pc,              \* where each dispatch thread is
  cid,             \* the player of the login it serves
  loaded,          \* tempPlayer's content in that login
  reply,           \* content of the Ack being built
  \* History variables: they record what happened and guide no step.
  latest,          \* the content of the last save that found its entry
  lost,            \* players hit by an accident since that save
  overlap,         \* threads whose login another login of the player overtook
  evicted,         \* threads whose player was evicted during the login
  retained         \* players whose eviction a login cancelled in time

cacheVars == <<m_allPlayer, m_cacheTime, m_delCacheTime>>
svrVars   == <<svrPC, timeout, deltimeout>>
thrVars   == <<pc, cid, loaded, reply>>
history   == <<latest, lost, overlap, evicted, retained>>
vars      == <<db, cacheVars, svrVars, thrVars, history>>

Cached(c) == m_allPlayer[c] # Absent
Dirty(c)  == Cached(c) /\ m_allPlayer[c].flag /\ m_allPlayer[c].content # Null

(***************************************************************************)
(* UPDATE RoleInfo ... WHERE CharID = info->charid(): a blank BaseInfo     *)
(* names player 0, so its UPDATE succeeds and changes no row.              *)
(***************************************************************************)
RowAfterUpdate(row, content) ==
  IF content \in Values /\ row # NoRow THEN content ELSE row

\* Broken variant: the flag is cleared before the result is known.
EntryAfterSave_IgnoresResult(e, ok) ==
  IF e.content # Null THEN [e EXCEPT !.flag = FALSE] ELSE e

\* The entry after CStructTemplate::Save, whose UPDATE succeeds when ok.
EntryAfterSave(e, ok) ==
  IF e.content # Null /\ ok THEN [e EXCEPT !.flag = FALSE] ELSE e

\* The row after CStructTemplate::Save: a clean or null struct writes nothing.
RowAfterSave(row, e, ok) ==
  IF e.flag /\ e.content # Null /\ ok THEN RowAfterUpdate(row, e.content)
                                      ELSE row

Init ==
  /\ db \in [Chars -> Values \cup {NoRow}]
  /\ m_allPlayer = [c \in Chars |-> Absent]
  /\ m_cacheTime = {} /\ m_delCacheTime = {}
  /\ svrPC = "scan" /\ timeout = {} /\ deltimeout = {}
  /\ pc = [t \in Threads |-> "idle"]
  /\ cid = [t \in Threads |-> None]
  /\ loaded = [t \in Threads |-> Null]
  /\ reply = [t \in Threads |-> None]
  /\ latest = db
  /\ lost = {} /\ overlap = {} /\ evicted = {} /\ retained = {}

-----------------------------------------------------------------------------
(***************************************************************************)
(* Login: the handler of MSG_REQ_GM2DB_PLAYERINFO.                         *)
(***************************************************************************)

\* The handler starts and calls IsPlayerInCache.
IsPlayerInCache(t, c) ==
  /\ pc[t] = "idle"
  /\ pc' = [pc EXCEPT ![t] = IF Cached(c) THEN "get" ELSE "load"]
  /\ cid' = [cid EXCEPT ![t] = c]
  /\ overlap' = overlap \ {t}
  /\ evicted' = evicted \ {t}
  /\ UNCHANGED <<db, cacheVars, svrVars, loaded, reply, latest, lost, retained>>

\* CMysqlInterface's constructor throws (GetConnection found no connection):
\* the outer catch returns and nobody is answered.
NoConnection(t) ==
  /\ pc[t] = "load"
  /\ pc' = [pc EXCEPT ![t] = "idle"]
  /\ cid' = [cid EXCEPT ![t] = None]
  /\ UNCHANGED <<db, cacheVars, svrVars, loaded, reply, history>>

\* Broken variant: IsHaveRecord is not asked.
GetRoleInfo_NoRecordCheck(t) ==
  /\ pc[t] = "load"
  /\ loaded' = [loaded EXCEPT ![t] = db[cid[t]]]
  /\ pc' = [pc EXCEPT ![t] = "add"]
  /\ UNCHANGED <<db, cacheVars, svrVars, cid, reply, history>>

\* getRoleInfo: a row, no row, or an exception it swallows; the last two
\* leave tempPlayer's m_content null.
GetRoleInfo(t) ==
  /\ pc[t] = "load"
  /\ \E v \in {Null} \cup ({db[cid[t]]} \cap Values) :
       loaded' = [loaded EXCEPT ![t] = v]
  /\ pc' = [pc EXCEPT ![t] = "add"]
  /\ UNCHANGED <<db, cacheVars, svrVars, cid, reply, history>>

\* AddNewPlayer, first half, under the write lock: whatever was in the map
\* is replaced by the clean copy just loaded.
AddNewPlayer(t) ==
  LET c == cid[t] IN
  /\ pc[t] = "add"
  /\ m_allPlayer' = [m_allPlayer EXCEPT
                       ![c] = [content |-> loaded[t], flag |-> FALSE]]
  /\ loaded' = [loaded EXCEPT ![t] = Null]
  /\ pc' = [pc EXCEPT ![t] = "addtime"]
  /\ lost' = IF t \in overlap THEN lost \cup {c} ELSE lost
  /\ overlap' = overlap \cup
                  {u \in Threads \ {t} : pc[u] \in {"load", "add"} /\ cid[u] = c}
  /\ UNCHANGED <<db, m_cacheTime, m_delCacheTime, svrVars, cid, reply,
                 latest, evicted, retained>>

\* Broken variant: no write-back deadline is set.
AddCacheTimeout_Forgotten(t) ==
  /\ pc[t] = "addtime"
  /\ pc' = [pc EXCEPT ![t] = "get"]
  /\ UNCHANGED <<db, cacheVars, svrVars, cid, loaded, reply, history>>

\* AddNewPlayer, second half: AddCacheTimeout.
AddCacheTimeout(t) ==
  /\ pc[t] = "addtime"
  /\ m_cacheTime' = m_cacheTime \cup {cid[t]}
  /\ pc' = [pc EXCEPT ![t] = "get"]
  /\ UNCHANGED <<db, m_allPlayer, m_delCacheTime, svrVars, cid, loaded, reply,
                 history>>

\* GetPlayerInfo, first half, under the read lock.  Its result is ignored by
\* the handler: without an entry the Ack carries an empty PlayerInfo.
GetPlayerInfo(t) ==
  LET c == cid[t] IN
  /\ pc[t] = "get"
  /\ \/ /\ Cached(c) /\ m_allPlayer[c].content # Null
        /\ reply' = [reply EXCEPT ![t] = m_allPlayer[c].content]
        /\ pc' = [pc EXCEPT ![t] = "deltime"]
     \/ /\ ~Cached(c)
        /\ reply' = [reply EXCEPT ![t] = Empty]
        /\ pc' = [pc EXCEPT ![t] = "reply"]
  /\ UNCHANGED <<db, cacheVars, svrVars, cid, loaded, history>>

\* Broken variant: erases from m_cacheTime, the map of the other deadline.
DelCacheTime_WrongMap(t) ==
  LET c == cid[t] IN
  /\ pc[t] = "deltime"
  /\ m_cacheTime' = m_cacheTime \ {c}
  /\ pc' = [pc EXCEPT ![t] = "reply"]
  /\ retained' = IF Cached(c) /\ c \notin deltimeout
                   THEN retained \cup {c} ELSE retained
  /\ UNCHANGED <<db, m_allPlayer, m_delCacheTime, svrVars, cid, loaded, reply,
                 latest, lost, overlap, evicted>>

\* GetPlayerInfo, second half: DelCacheTime cancels a pending eviction.
DelCacheTime(t) ==
  LET c == cid[t] IN
  /\ pc[t] = "deltime"
  /\ m_delCacheTime' = m_delCacheTime \ {c}
  /\ pc' = [pc EXCEPT ![t] = "reply"]
  /\ retained' = IF Cached(c) /\ c \notin deltimeout
                   THEN retained \cup {c} ELSE retained
  /\ UNCHANGED <<db, m_allPlayer, m_cacheTime, svrVars, cid, loaded, reply,
                 latest, lost, overlap, evicted>>

\* build_message and Message_Facade::Send: the handler returns.
SendReply(t) ==
  /\ pc[t] = "reply"
  /\ pc' = [pc EXCEPT ![t] = "idle"]
  /\ cid' = [cid EXCEPT ![t] = None]
  /\ reply' = [reply EXCEPT ![t] = None]
  /\ UNCHANGED <<db, cacheVars, svrVars, loaded, history>>

-----------------------------------------------------------------------------
(***************************************************************************)
(* Save: the two save handlers, which call SaveToCache.  The write lock is *)
(* held to the end, so one step is the whole of it.                        *)
(***************************************************************************)

\* A save of a player that is not cached is dropped (and still acknowledged).
SaveDropped(t, c) ==
  /\ pc[t] = "idle"
  /\ ~Cached(c)
  /\ UNCHANGED vars

\* The entry after AddStruct, for a message with the eBaseInfo bit.
EntryWith(e, hasBase, v) ==
  IF hasBase THEN [content |-> v, flag |-> TRUE] ELSE e

\* AddStruct, for an isdel message also AddDelCacheTimeout, SetFlag and
\* SavePlayerStruct, whose UPDATE succeeds when ok.
SaveToCache(t, c, hasBase, v, isdel, ok) ==
  LET e1 == EntryWith(m_allPlayer[c], hasBase, v)
      e2 == [e1 EXCEPT !.flag = TRUE] IN
  /\ pc[t] = "idle"
  /\ Cached(c)
  /\ hasBase => m_allPlayer[c].content # Null
  /\ m_allPlayer' = [m_allPlayer EXCEPT
                       ![c] = IF isdel THEN EntryAfterSave(e2, ok) ELSE e1]
  /\ m_delCacheTime' = IF isdel THEN m_delCacheTime \cup {c} ELSE m_delCacheTime
  /\ db' = IF isdel THEN [db EXCEPT ![c] = RowAfterSave(db[c], e2, ok)] ELSE db
  /\ latest' = IF hasBase THEN [latest EXCEPT ![c] = v] ELSE latest
  /\ lost' = IF ~hasBase THEN lost
             ELSE IF v = Blank THEN lost \cup {c} ELSE lost \ {c}
  /\ retained' = IF isdel THEN retained \ {c} ELSE retained
  /\ UNCHANGED <<m_cacheTime, svrVars, thrVars, overlap, evicted>>

Save(t) ==
  \E c \in Chars, hasBase, isdel, ok \in BOOLEAN, v \in Values \cup {Blank} :
    \/ SaveDropped(t, c)
    \/ SaveToCache(t, c, hasBase, v, isdel, ok)

-----------------------------------------------------------------------------
(***************************************************************************)
(* CacheTimeOut::svr, one pass: scan, write back, evict.                   *)
(***************************************************************************)

\* Broken variant: an expired write-back deadline is erased, not re-armed.
Scan_DisarmsWriteBack ==
  /\ svrPC = "scan"
  /\ \E del \in SUBSET m_delCacheTime, due \in SUBSET m_cacheTime :
       /\ del \cup due # {}
       /\ del \cap due = {}
       /\ m_delCacheTime' = m_delCacheTime \ del
       /\ m_cacheTime' = m_cacheTime \ (del \cup due)
       /\ deltimeout' = del
       /\ timeout' = due
  /\ svrPC' = "save"
  /\ UNCHANGED <<db, m_allPlayer, thrVars, history>>

\* Under m_timeLock: expired evictions leave both maps, expired write-backs
\* are re-armed.  A pass that finds nothing expired changes nothing.
Scan ==
  /\ svrPC = "scan"
  /\ \E del \in SUBSET m_delCacheTime, due \in SUBSET m_cacheTime :
       /\ del \cup due # {}
       /\ del \cap due = {}
       /\ m_delCacheTime' = m_delCacheTime \ del
       /\ m_cacheTime' = m_cacheTime \ del
       /\ deltimeout' = del
       /\ timeout' = due
  /\ svrPC' = "save"
  /\ UNCHANGED <<db, m_allPlayer, thrVars, history>>

\* SaveCacheToDB(timeout); ok holds the players whose UPDATE succeeds.
SaveCacheToDB ==
  /\ svrPC = "save"
  /\ \E ok \in SUBSET timeout :
       LET saved == {c \in timeout : Cached(c) /\ m_allPlayer[c].flag} IN
       /\ db' = [c \in Chars |->
                   IF c \in saved
                     THEN RowAfterSave(db[c], m_allPlayer[c], c \in ok)
                     ELSE db[c]]
       /\ m_allPlayer' = [c \in Chars |->
                            IF c \in saved
                              THEN EntryAfterSave(m_allPlayer[c], c \in ok)
                              ELSE m_allPlayer[c]]
  /\ timeout' = {}
  /\ svrPC' = "delete"
  /\ UNCHANGED <<m_cacheTime, m_delCacheTime, deltimeout, thrVars, history>>

\* Broken variant: the entry is erased without being saved.
SaveCacheAndDelete_NoSave ==
  /\ svrPC = "delete"
  /\ LET gone == {c \in deltimeout : Cached(c)} IN
       /\ m_allPlayer' = [c \in Chars |->
                            IF c \in gone THEN Absent ELSE m_allPlayer[c]]
       /\ evicted' = evicted \cup
                       {t \in Threads : pc[t] # "idle" /\ cid[t] \in gone}
  /\ deltimeout' = {}
  /\ svrPC' = "scan"
  /\ UNCHANGED <<db, m_cacheTime, m_delCacheTime, timeout, thrVars, latest, lost,
                 overlap, retained>>

\* SaveCacheAndDelete(deltimeout): the entry goes even if its UPDATE fails.
SaveCacheAndDelete ==
  /\ svrPC = "delete"
  /\ \E ok \in SUBSET deltimeout :
       LET gone == {c \in deltimeout : Cached(c)} IN
       /\ db' = [c \in Chars |->
                   IF c \in gone
                     THEN RowAfterSave(db[c], m_allPlayer[c], c \in ok)
                     ELSE db[c]]
       /\ lost' = lost \cup {c \in gone : Dirty(c) /\ c \notin ok}
       /\ m_allPlayer' = [c \in Chars |->
                            IF c \in gone THEN Absent ELSE m_allPlayer[c]]
       /\ evicted' = evicted \cup
                       {t \in Threads : pc[t] # "idle" /\ cid[t] \in gone}
  /\ deltimeout' = {}
  /\ svrPC' = "scan"
  /\ UNCHANGED <<m_cacheTime, m_delCacheTime, timeout, thrVars, latest,
                 overlap, retained>>

-----------------------------------------------------------------------------
(***************************************************************************)
(* The process dies and is started again: only the table survives.  The    *)
(* code brings this about itself when it reads or writes the content of an *)
(* entry whose load failed.                                                *)
(***************************************************************************)
Restart ==
  /\ m_allPlayer' = [c \in Chars |-> Absent]
  /\ m_cacheTime' = {} /\ m_delCacheTime' = {}
  /\ svrPC' = "scan" /\ timeout' = {} /\ deltimeout' = {}
  /\ pc' = [t \in Threads |-> "idle"]
  /\ cid' = [t \in Threads |-> None]
  /\ loaded' = [t \in Threads |-> Null]
  /\ reply' = [t \in Threads |-> None]
  /\ lost' = lost \cup {c \in Chars : Dirty(c)}
  /\ overlap' = {} /\ evicted' = {} /\ retained' = {}
  /\ UNCHANGED <<db, latest>>

\* GetContent or AddContent(google::protobuf::Message *) dereferences null.
NullContent(t) ==
  \/ /\ pc[t] = "get"
     /\ Cached(cid[t]) /\ m_allPlayer[cid[t]].content = Null
     /\ Restart
  \/ /\ pc[t] = "idle"
     /\ \E c \in Chars : Cached(c) /\ m_allPlayer[c].content = Null
     /\ Restart

Crash == Restart

-----------------------------------------------------------------------------
Login(t) ==
  \/ \E c \in Chars : IsPlayerInCache(t, c)
  \/ NoConnection(t)
  \/ GetRoleInfo(t)
  \/ AddNewPlayer(t)
  \/ AddCacheTimeout(t)
  \/ GetPlayerInfo(t)
  \/ DelCacheTime(t)
  \/ SendReply(t)

Svr == Scan \/ SaveCacheToDB \/ SaveCacheAndDelete

Next ==
  \/ \E t \in Threads : Login(t) \/ Save(t) \/ NullContent(t)
  \/ Svr
  \/ Crash

Spec == Init /\ [][Next]_vars

-----------------------------------------------------------------------------
(***************************************************************************)
(* What the cache promises.                                                *)
(***************************************************************************)

TypeOK ==
  /\ db \in [Chars -> Values \cup {NoRow}]
  /\ m_allPlayer \in [Chars -> Entries \cup {Absent}]
  /\ m_cacheTime \subseteq Chars /\ m_delCacheTime \subseteq Chars
  /\ svrPC \in {"scan", "save", "delete"}
  /\ timeout \subseteq Chars /\ deltimeout \subseteq Chars
  /\ pc \in [Threads -> {"idle", "load", "add", "addtime", "get", "deltime",
                         "reply"}]
  /\ cid \in [Threads -> Chars \cup {None}]
  /\ \A t \in Threads : cid[t] = None <=> pc[t] = "idle"
  /\ loaded \in [Threads -> Values \cup {Null}]
  /\ reply \in [Threads -> Values \cup {Blank, Empty, None}]
  /\ latest \in [Chars -> Values \cup {Blank, NoRow}]
  /\ lost \subseteq Chars /\ retained \subseteq Chars
  /\ overlap \subseteq Threads /\ evicted \subseteq Threads

(***************************************************************************)
(* A cached player never falls out of the timer's sight: it has a write-   *)
(* back deadline, or is on the list of the pass that will evict it, or the *)
(* login that cached it (AddNewPlayer, which sets the deadline after it    *)
(* has given up m_playerLock) is about to set one.  Otherwise its changes  *)
(* would stay in memory for ever.                                          *)
(***************************************************************************)
WriteBackScheduled ==
  \A c \in Chars : Cached(c) =>
    \/ c \in m_cacheTime
    \/ c \in deltimeout
    \/ \E t \in Threads : pc[t] = "addtime" /\ cid[t] = c

(***************************************************************************)
(* The last save of a player is never forgotten: it is in the table, or    *)
(* the cached copy holds it; and a copy that is not in the table is marked *)
(* for writing.  Excepted are exactly the players in lost: those whose     *)
(* entry a concurrent login of the same player overwrote, whose eviction's *)
(* UPDATE failed, whose save carried a blank BaseInfo, or that were dirty  *)
(* when the process died; until the next save finds them.                  *)
(***************************************************************************)
Durable ==
  \A c \in Chars \ lost :
    /\ ~Cached(c) => db[c] = latest[c]
    /\ Cached(c) /\ m_allPlayer[c].content # Null =>
         m_allPlayer[c].content = latest[c]
    /\ Cached(c) /\ (m_allPlayer[c].content = Null \/ ~m_allPlayer[c].flag) =>
         db[c] = latest[c]

(***************************************************************************)
(* A player who came back before CacheTimeOut::svr had put him on its list *)
(* (GetPlayerInfo's DelCacheTime) stays cached until he logs out again.    *)
(***************************************************************************)
RetainedStaysCached ==
  \A c \in retained :
    Cached(c) /\ c \notin m_delCacheTime /\ c \notin deltimeout

(***************************************************************************)
(* The handler ignores GetPlayerInfo's result, so it may answer a login    *)
(* with an empty PlayerInfo.  It does so only if the player was evicted    *)
(* between its IsPlayerInCache (or AddNewPlayer) and its GetPlayerInfo.    *)
(***************************************************************************)
EmptyReplyOnlyAfterEviction ==
  \A t \in Threads : reply[t] = Empty => t \in evicted

(***************************************************************************)
(* What a login is answered is what the player's last save said, however   *)
(* often he was written back, evicted and loaded again in between.         *)
(***************************************************************************)
ReadsLastSave ==
  \A t \in Threads :
    reply'[t] \notin {None, Empty, reply[t]} /\ cid[t] \notin lost =>
      reply'[t] = latest[cid[t]]

LoginReadsLastSave == [][ReadsLastSave]_vars

(***************************************************************************)
(* CharMemCache.h:76 says of SaveCacheToDB and SaveCacheAndDelete that     *)
(* they save in a batch and delete.  Read as a promise: an entry that the  *)
(* eviction removes had its changes written.                               *)
(***************************************************************************)
EvictionSaves ==
  [][SaveCacheAndDelete =>
       \A c \in deltimeout :
         Dirty(c) /\ m_allPlayer[c].content # Blank =>
           db'[c] = m_allPlayer[c].content]_vars

(***************************************************************************)
(* Liveness.  Fairness: a dispatch thread that has cached a player goes on *)
(* to set its deadline, and the timer thread goes on with a pass it has    *)
(* begun; a write-back deadline expires (SAVE_CHARCACHE_TODB after it was  *)
(* set; only AddNewPlayer, which replaces the entry by a clean one, sets   *)
(* it anew); and a player's UPDATE does not fail for ever.                 *)
(***************************************************************************)
ScanFinds(c)  == Scan /\ c \in timeout'
WritesBack(c) == SaveCacheToDB /\ c \in timeout /\ ~m_allPlayer'[c].flag

FairSpec ==
  /\ Spec
  /\ \A t \in Threads : WF_vars(AddCacheTimeout(t))
  /\ WF_vars(SaveCacheToDB) /\ WF_vars(SaveCacheAndDelete)
  /\ \A c \in Chars : SF_vars(ScanFinds(c)) /\ SF_vars(WritesBack(c))

\* A cached change is written back, or its entry goes (evicted, overwritten by
\* a second login, or lost with the process): no dirty entry is skipped by
\* every pass of CacheTimeOut::svr.
ChangeIsWrittenBack == \A c \in Chars : Dirty(c) ~> ~Dirty(c)
=============================================================================
