---------------------------- MODULE PlayerMessage ----------------------------
(***************************************************************************)
(* The players of a game server (PlayerMessage and Player of GameServer),  *)
(* with the servers that ServerRegistry keeps.                             *)
(*                                                                         *)
(* A gate asks for a player (PLAYERINFO): the game server asks the DB      *)
(* server and caches the player it is sent in m_PlayerCache.  When the     *)
(* client is in (CLIENTIN) the player moves to m_allPlayer.  When he goes  *)
(* (PLAYEREXIT) he leaves either map, his data is sent to the DB server,   *)
(* and the gate is answered when the DB server has acknowledged it; until  *)
(* then the answer waits in m_saveDataList.  All of it runs on the main    *)
(* thread, one handler at a time.                                          *)
(*                                                                         *)
(* Three things that the code does decide much of this model.  The maps    *)
(* are keyed by the id in the DB server's answer, GET_PLAYER_CHARID, while *)
(* the gate's messages name GET_SERVER_CHARID too.  The DB channel of a    *)
(* player is looked up before InitBaseInfo has set his id, with the id -1, *)
(* that is for the DB server 65535.  And Send drops a message for channel  *)
(* -1 without entering its Request: its Ack never comes, not even as a     *)
(* timeout.  RemoveDelayPlayer and the timed SaveAllPlayer are timers that *)
(* no thread of this server ticks, so they are not here.                   *)
(***************************************************************************)
EXTENDS ServerRegistry, Sequences

CONSTANTS
  Ids,       \* the ids gates name: <<GET_SERVER_CHARID, GET_PLAYER_CHARID>>
  MaxAsked,  \* bound of the model: PLAYERINFO Requests of an id at the DB server
  MaxExits   \* bound of the model: PLAYEREXIT Requests

GET_SERVER_CHARID(id) == id[1]
GET_PLAYER_CHARID(id) == <<0, id[2]>>

\* The short int that GetDBServerBySvrID takes.
Short(s) == IF s < 32768 THEN s ELSE s - 65536

\* The charid of a blank BaseInfo, and GET_SERVER_CHARID of a new player (-1).
NoChar      == <<0, 0>>
UnsetServer == 65535

Keys    == {GET_PLAYER_CHARID(id) : id \in Ids} \cup {NoChar}
Players == [db : Channels \cup {None}, changed : BOOLEAN]
Exits   == 1 .. MaxExits

ASSUME PlayerAssumption ==
  /\ None \notin Players
  /\ MaxAsked \in Nat /\ MaxExits \in Nat

VARIABLES
  m_PlayerCache, m_allPlayer,  \* the player under each key, or None
  m_saveDataList,  \* the exit whose answer waits for a save of the key, or 0
  infoAsked,       \* PLAYERINFO Requests that wait for the DB server
  saving,          \* exits whose save waits for its Ack
  \* History: the keys the exits named, how often each was answered, those
  \* that found another waiting, and those whose save had no channel.
  exits, answers, shadowed, unsent

players    == <<m_PlayerCache, m_allPlayer>>
exitVars   == <<m_saveDataList, saving, exits, answers, shadowed, unsent>>
playerVars == <<players, infoAsked, exitVars>>
vars       == <<registryVars, playerVars>>

Init ==
  /\ RegistryInit
  /\ m_PlayerCache = [k \in Keys |-> None]
  /\ m_allPlayer = [k \in Keys |-> None]
  /\ m_saveDataList = [k \in Keys |-> 0]
  /\ infoAsked = [id \in Ids |-> 0]
  /\ saving = {} /\ exits = <<>>
  /\ answers = [n \in Exits |-> 0]
  /\ shadowed = {} /\ unsent = {}

\* A map holds nothing under an id that carries a server id.
In(map, id) == id \in Keys /\ map[id] # None

IsOnline(id) == In(m_PlayerCache, id) \/ In(m_allPlayer, id)

-----------------------------------------------------------------------------
(***************************************************************************)
(* PLAYERINFO                                                              *)
(***************************************************************************)

\* The gate's Request: no player by this id, and a DB server to ask; else the
\* handler returns and the gate is not answered.
AskPlayerInfo(id) ==
  /\ ~IsOnline(id)
  /\ GetDBServerBySvrID(Short(GET_SERVER_CHARID(id))) # None
  /\ infoAsked[id] < MaxAsked
  /\ infoAsked' = [infoAsked EXCEPT ![id] = @ + 1]
  /\ UNCHANGED <<registryVars, players, exitVars>>

\* Broken variant: without a group the first descriptor is taken.
BindGroupChannel_Zero(g) == IF g = None THEN {0} ELSE {g}

\* BindGroupChannel: a channel of the group, or the group's id itself.
BindGroupChannel(g) ==
  IF g = None THEN {None}
  ELSE {g} \cup {c \in Channels : m_allSvr[c] # None /\ m_allSvr[c].remote = m_allSvr[g].remote}

\* What the DB server answers names the player, or nobody: it has no row of
\* him, has just evicted him, or caches the blank BaseInfo of his last save.
DBAnswers(id) == {GET_PLAYER_CHARID(id), NoChar}

\* Broken variant: the Ack does not ask again whether the player is online.
AckPlayerInfo_NoSecondCheck(id) ==
  /\ infoAsked[id] > 0
  /\ infoAsked' = [infoAsked EXCEPT ![id] = @ - 1]
  /\ \E k \in DBAnswers(id), db \in BindGroupChannel(GetDBChannelBySvrID(UnsetServer)) :
       m_PlayerCache' = [m_PlayerCache EXCEPT ![k] = [db |-> db, changed |-> FALSE]]
  /\ UNCHANGED <<registryVars, m_allPlayer, exitVars>>

\* The DB server's Ack: a new player, unless he is online by now.  The answer
\* to the gate is built only if mesReq is null, which it never is.
AckPlayerInfo(id) ==
  /\ infoAsked[id] > 0
  /\ infoAsked' = [infoAsked EXCEPT ![id] = @ - 1]
  /\ \E k \in DBAnswers(id), db \in BindGroupChannel(GetDBChannelBySvrID(UnsetServer)) :
       m_PlayerCache' =
         IF IsOnline(k) THEN m_PlayerCache
         ELSE [m_PlayerCache EXCEPT ![k] = [db |-> db, changed |-> FALSE]]
  /\ UNCHANGED <<registryVars, m_allPlayer, exitVars>>

PlayerInfoTimesOut(id) ==
  /\ infoAsked[id] > 0
  /\ infoAsked' = [infoAsked EXCEPT ![id] = @ - 1]
  /\ UNCHANGED <<registryVars, players, exitVars>>

-----------------------------------------------------------------------------
(***************************************************************************)
(* CLIENTIN, SYN_ATTR                                                      *)
(***************************************************************************)
ClientIn(id) ==
  /\ ~In(m_allPlayer, id) /\ In(m_PlayerCache, id)
  /\ m_PlayerCache' = [m_PlayerCache EXCEPT ![id] = None]
  /\ m_allPlayer' = [m_allPlayer EXCEPT ![id] = m_PlayerCache[id]]
  /\ UNCHANGED <<registryVars, infoAsked, exitVars>>

\* The attributes a message names are set; no dirty flag is.
SetTypeValue(player) == [player EXCEPT !.changed = TRUE]

\* No Ack is sent.
SynAttr(id) ==
  /\ In(m_allPlayer, id)
  /\ m_allPlayer' = [m_allPlayer EXCEPT ![id] = SetTypeValue(@)]
  /\ UNCHANGED <<registryVars, m_PlayerCache, infoAsked, exitVars>>

-----------------------------------------------------------------------------
(***************************************************************************)
(* PLAYEREXIT and the save that answers it                                 *)
(***************************************************************************)
Number == Len(exits) + 1

\* Broken variant: an answer that already waits is overwritten.
AddSendDataCach_Overwrites(k) ==
  /\ m_saveDataList' = [m_saveDataList EXCEPT ![k] = Number]
  /\ UNCHANGED shadowed

\* addSendDataCach: the answer is kept only if none waits for the player.
AddSendDataCach(k) ==
  IF m_saveDataList[k] = 0
  THEN /\ m_saveDataList' = [m_saveDataList EXCEPT ![k] = Number]
       /\ UNCHANGED shadowed
  ELSE /\ shadowed' = shadowed \cup {Number}
       /\ UNCHANGED m_saveDataList

\* SaveAllPlayer(sendData, true, true): the base data was initialised, so one
\* message is sent, with its type and a BaseInfo that is never filled in.
SaveAllPlayer(k, player) ==
  /\ AddSendDataCach(k)
  /\ IF player.db = None
     THEN unsent' = unsent \cup {Number} /\ UNCHANGED saving
     ELSE saving' = saving \cup {Number} /\ UNCHANGED unsent

ExitCached(id) ==
  /\ In(m_PlayerCache, id)
  /\ SaveAllPlayer(id, m_PlayerCache[id])
  /\ m_PlayerCache' = [m_PlayerCache EXCEPT ![id] = None]
  /\ UNCHANGED <<m_allPlayer, answers>>

ExitOnline(id) ==
  /\ ~In(m_PlayerCache, id) /\ In(m_allPlayer, id)
  /\ SaveAllPlayer(id, m_allPlayer[id])
  /\ m_allPlayer' = [m_allPlayer EXCEPT ![id] = None]
  /\ UNCHANGED <<m_PlayerCache, answers>>

\* No player by that id: the gate is answered at once.
ExitUnknown(id) ==
  /\ ~IsOnline(id)
  /\ answers' = [answers EXCEPT ![Number] = @ + 1]
  /\ UNCHANGED <<players, m_saveDataList, saving, shadowed, unsent>>

PlayerExit(id) ==
  /\ Len(exits) < MaxExits
  /\ exits' = Append(exits, id)
  /\ ExitCached(id) \/ ExitOnline(id) \/ ExitUnknown(id)
  /\ UNCHANGED <<registryVars, infoAsked>>

\* dealWithSaveResult: the count of one save falls to 0, the gate is answered.
DealWithSaveResult(n) == answers' = [answers EXCEPT ![n] = @ + 1]

\* Broken variant: the answer stays in m_saveDataList.
AckSave_KeepsData(n) ==
  LET k == exits[n] IN
  /\ n \in saving
  /\ saving' = saving \ {n}
  /\ IF m_saveDataList[k] = 0
     THEN UNCHANGED answers
     ELSE DealWithSaveResult(m_saveDataList[k])
  /\ UNCHANGED <<registryVars, players, infoAsked, m_saveDataList, exits, shadowed, unsent>>

\* The Ack of the save of exit n, a timeout included: it answers the exit that
\* waits for a save of this player, which need not be n.
AckSave(n) ==
  LET k == exits[n] IN
  /\ n \in saving
  /\ saving' = saving \ {n}
  /\ IF m_saveDataList[k] = 0
     THEN UNCHANGED answers
     ELSE DealWithSaveResult(m_saveDataList[k])
  /\ m_saveDataList' = [m_saveDataList EXCEPT ![k] = 0]
  /\ UNCHANGED <<registryVars, players, infoAsked, exits, shadowed, unsent>>

-----------------------------------------------------------------------------
PlayerNext ==
  \/ \E id \in Ids :
       \/ AskPlayerInfo(id)
       \/ AckPlayerInfo(id)
       \/ PlayerInfoTimesOut(id)
       \/ ClientIn(id)
       \/ SynAttr(id)
       \/ PlayerExit(id)
  \/ \E n \in Exits : AckSave(n)

Next == PlayerNext \/ (RegistryNext /\ UNCHANGED playerVars)

Spec == Init /\ [][Next]_vars

\* Every Request that was entered ends, by its Ack or its timeout (Dispatcher
\* shows it as EveryRequestEnds).
FairSpec == Spec /\ \A n \in Exits : WF_vars(AckSave(n))

-----------------------------------------------------------------------------
TypeOK ==
  /\ RegistryTypeOK
  /\ m_PlayerCache \in [Keys -> Players \cup {None}]
  /\ m_allPlayer \in [Keys -> Players \cup {None}]
  /\ m_saveDataList \in [Keys -> 0 .. MaxExits]
  /\ infoAsked \in [Ids -> 0 .. MaxAsked]
  /\ saving \subseteq Exits
  /\ exits \in Seq(Ids) /\ Len(exits) <= MaxExits
  /\ answers \in [Exits -> Nat]
  /\ shadowed \subseteq Exits /\ unsent \subseteq Exits

\* A player is in one of the two maps at most: two PLAYERINFO of one player may
\* wait for the DB server at once, and the client be in when the second Ack comes.
OnePlayerObject ==
  \A k \in Keys : ~(In(m_PlayerCache, k) /\ In(m_allPlayer, k))

\* The answer to exit n waits for a save of the player under some key.
Waits(n) == \E k \in Keys : m_saveDataList[k] = n

\* Every exit was answered once, or waits, or found another exit of the player
\* waiting and is forgotten: one of the three, whatever the order of the Acks.
\* One that waits has a save under way that will answer it, or one never sent.
ExitAccounted ==
  /\ \A n \in 1 .. Len(exits) :
       /\ answers[n] \in {0, 1}
       /\ answers[n] = 1 \/ Waits(n) \/ n \in shadowed
       /\ answers[n] = 1 => ~Waits(n) /\ n \notin shadowed
       /\ ~(Waits(n) /\ n \in shadowed)
  /\ \A k \in Keys : m_saveDataList[k] # 0 =>
       /\ exits[m_saveDataList[k]] = k
       /\ m_saveDataList[k] \in saving \cup unsent

\* An exit that waits for a save under way is answered in the end.
ExitIsAnswered ==
  \A n \in Exits :
    (n \in saving /\ Waits(n)) ~> (answers[n] = 1)

\* What Player.cpp says of a logout, "something must be sent even if nothing
\* has changed": an exit of a player whose DB server is registered sends a save.
LogoutIsSent ==
  [][Len(exits') > Len(exits) =>
       LET id == exits'[Number] IN
       IsOnline(GET_PLAYER_CHARID(id)) /\ GetDBServerBySvrID(Short(GET_SERVER_CHARID(id))) # None
         => Number \in saving']_vars
=============================================================================
