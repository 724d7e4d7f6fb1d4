---------------------------- MODULE ServerRegistry ----------------------------
(***************************************************************************)
(* ServerConHandler of GameServer: the servers it has channels to.         *)
(*                                                                         *)
(* A new channel enters m_allSvr.  The server at the other end is asked    *)
(* for its id (PUSHSERVERID), and its Ack enters the channel in m_gateSvr  *)
(* or m_dbSvr, where the handlers of the players find it.  The servers     *)
(* open a group of channels each, so one id is registered again and again. *)
(*                                                                         *)
(* One thread, the main loop of CServiceMain::Start, runs all handlers, in *)
(* the order in which the epoll threads queued the events and messages.   *)
(* m_worldSvr and m_managerSvr are never filled: the Acks that would are   *)
(* commented out.                                                          *)
(***************************************************************************)
EXTENDS Integers, FiniteSets

CONSTANTS
  Channels,    \* file descriptors of the channels
  GateIDs,     \* the ids that gate servers answer PUSHSERVERID with
  DBIDs,       \* the ids that DB servers answer with
  OtherTypes,  \* remote types besides eGateServer and eDBServer
  None,        \* no item, no channel (-1)
  Null,        \* m_pathSvr before a path server came
  MaxBuilt     \* bound of the model: channels that are built

eGateServer    == "eGateServer"
eDBServer      == "eDBServer"
ePathServer    == "ePathServer"
eWorldServer   == "eWorldServer"
eManagerServer == "eManagerServer"

\* A remote server: its type, and the m_serverID its own process was given.
RemoteServers == [type : {eGateServer}, id : GateIDs]
                   \cup [type : {eDBServer}, id : DBIDs]
                   \cup [type : OtherTypes, id : {0}]

\* SvrItem, whose serverID is None (-1) until the server has pushed it.
Items == [remote : RemoteServers, serverID : GateIDs \cup DBIDs \cup {None}]

\* Nothing is neither a channel, nor a server or an item of one; and the two
\* types that are asked for their ids are not among the others.
ASSUME RegistryAssumption ==
  /\ None \notin Channels \cup RemoteServers \cup Items
  /\ OtherTypes \cap {eGateServer, eDBServer} = {}
  /\ MaxBuilt \in Nat

VARIABLES
  \* The network: who is at the other end of a channel, which channels have
  \* not been announced yet, and which have an error queued.
  remote, announced, broken,
  \* PUSHSERVERID: channels whose Request waits, and whose Ack is queued.
  asked, acked,
  m_allSvr, m_gateSvr, m_dbSvr,
  m_pathSvr,   \* Null until a path server comes, then its item
  built        \* how many channels were built

network    == <<remote, announced, broken, built>>
pushes     == <<asked, acked>>
registered == <<m_gateSvr, m_dbSvr>>
registryVars == <<network, pushes, registered, m_allSvr, m_pathSvr>>

RegistryInit ==
  /\ remote = [c \in Channels |-> None] /\ announced = {} /\ broken = {}
  /\ asked = {} /\ acked = {}
  /\ m_allSvr = [c \in Channels |-> None]
  /\ m_gateSvr = [s \in GateIDs |-> None]
  /\ m_dbSvr = [s \in DBIDs |-> None]
  /\ m_pathSvr = Null
  /\ built = 0

Open(c) == remote[c] # None /\ c \notin broken

-----------------------------------------------------------------------------
(***************************************************************************)
(* The network: connections are made and break; the event of each is       *)
(* queued, the new channel's before all that is queued for it later.       *)
(***************************************************************************)
ChannelBuilt(c, r) ==
  /\ remote[c] = None /\ built < MaxBuilt
  /\ built' = built + 1
  /\ remote' = [remote EXCEPT ![c] = r]
  /\ announced' = announced \cup {c}
  /\ UNCHANGED <<broken, pushes, registered, m_allSvr, m_pathSvr>>

ChannelBreaks(c) ==
  /\ Open(c)
  /\ broken' = broken \cup {c}
  /\ UNCHANGED <<remote, announced, built, pushes, registered, m_allSvr, m_pathSvr>>

\* Message_Facade::CloseChannel: the descriptor is free at once, and no error
\* is reported for it.
CloseChannel(c) ==
  /\ remote' = [remote EXCEPT ![c] = None]
  /\ broken' = broken \ {c}

-----------------------------------------------------------------------------
(***************************************************************************)
(* on_new_channel_build                                                    *)
(***************************************************************************)

\* The cases eGateServer and eDBServer: the channel is entered and asked.
BuildAsked(c) ==
  /\ remote[c].type \in {eGateServer, eDBServer}
  /\ m_allSvr[c] = None
  /\ m_allSvr' = [m_allSvr EXCEPT ![c] = [remote |-> remote[c], serverID |-> None]]
  /\ asked' = asked \cup {c}
  /\ UNCHANGED <<remote, broken, m_pathSvr>>

\* The cases eWorldServer and eManagerServer: the channel is only entered.
BuildListed(c) ==
  /\ remote[c].type \in {eWorldServer, eManagerServer}
  /\ m_allSvr[c] = None
  /\ m_allSvr' = [m_allSvr EXCEPT ![c] = [remote |-> remote[c], serverID |-> None]]
  /\ UNCHANGED <<remote, broken, asked, m_pathSvr>>

\* The case ePathServer, when no path server has been here before.
BuildPath(c) ==
  /\ remote[c].type = ePathServer
  /\ m_pathSvr = Null
  /\ m_pathSvr' = c
  /\ UNCHANGED <<remote, broken, asked, m_allSvr>>

\* "build again": a channel that m_allSvr already has, a path server after the
\* first (m_pathSvr is never null again), and any other type, are closed.
BuildRefused(c) ==
  /\ CASE remote[c].type = ePathServer -> m_pathSvr # Null
       [] remote[c].type \in {eGateServer, eDBServer, eWorldServer, eManagerServer}
            -> m_allSvr[c] # None
       [] OTHER -> TRUE
  /\ CloseChannel(c)
  /\ UNCHANGED <<asked, m_allSvr, m_pathSvr>>

on_new_channel_build(c) ==
  /\ c \in announced
  /\ announced' = announced \ {c}
  /\ \/ BuildAsked(c)
     \/ BuildListed(c)
     \/ BuildPath(c)
     \/ BuildRefused(c)
  /\ UNCHANGED <<built, acked, registered>>

-----------------------------------------------------------------------------
(***************************************************************************)
(* PUSHSERVERID                                                            *)
(***************************************************************************)

\* The other server's handler answers with its id.
PushServerID(c) ==
  /\ c \in asked /\ Open(c)
  /\ asked' = asked \ {c} /\ acked' = acked \cup {c}
  /\ UNCHANGED <<network, registered, m_allSvr, m_pathSvr>>

\* No Ack within five seconds: the handler returns and asks no more.
PushTimesOut(c) ==
  /\ c \in asked
  /\ asked' = asked \ {c}
  /\ UNCHANGED <<network, acked, registered, m_allSvr, m_pathSvr>>

\* The item that both Ack handlers look up (a null pointer if there is none).
ItemOf(c) == IF m_allSvr[c] = None THEN None ELSE c

WithServerID(c, s) ==
  IF m_allSvr[c] = None THEN m_allSvr
  ELSE [m_allSvr EXCEPT ![c].serverID = s]

AckGatePushServerID(c) ==
  /\ c \in acked /\ remote[c].type = eGateServer
  /\ acked' = acked \ {c}
  /\ m_allSvr' = WithServerID(c, remote[c].id)
  /\ m_gateSvr' = [m_gateSvr EXCEPT ![remote[c].id] = ItemOf(c)]
  /\ UNCHANGED <<network, asked, m_dbSvr, m_pathSvr>>

AckDBPushServerID(c) ==
  /\ c \in acked /\ remote[c].type = eDBServer
  /\ acked' = acked \ {c}
  /\ m_allSvr' = WithServerID(c, remote[c].id)
  /\ m_dbSvr' = [m_dbSvr EXCEPT ![remote[c].id] = ItemOf(c)]
  /\ UNCHANGED <<network, asked, m_gateSvr, m_pathSvr>>

-----------------------------------------------------------------------------
(***************************************************************************)
(* on_channel_error.  It is queued behind the messages of the channel.     *)
(***************************************************************************)

\* Broken variant: the registration is left to the next Ack.
Unregister_Nothing(map, item) == map

\* Erases the registration of the item's id, whichever channel holds it.
Unregister(map, item) ==
  IF item = None THEN map
  ELSE [s \in DOMAIN map |-> IF s = item.serverID THEN None ELSE map[s]]

ErrorOfDB(c) ==
  /\ remote[c].type = eDBServer
  /\ m_dbSvr' = Unregister(m_dbSvr, m_allSvr[c])
  /\ m_allSvr' = [m_allSvr EXCEPT ![c] = None]
  /\ UNCHANGED <<m_gateSvr, m_pathSvr>>

ErrorOfGate(c) ==
  /\ remote[c].type = eGateServer
  /\ m_gateSvr' = Unregister(m_gateSvr, m_allSvr[c])
  /\ m_allSvr' = [m_allSvr EXCEPT ![c] = None]
  /\ UNCHANGED <<m_dbSvr, m_pathSvr>>

\* m_pathSvr->clear(): the item stays, without a channel.
ErrorOfPath(c) ==
  /\ remote[c].type = ePathServer
  /\ m_pathSvr' = None
  /\ UNCHANGED <<m_allSvr, registered>>

ErrorOfManager(c) ==
  /\ remote[c].type = eManagerServer
  /\ m_allSvr' = [m_allSvr EXCEPT ![c] = None]
  /\ UNCHANGED <<registered, m_pathSvr>>

\* The case default, world servers too: m_allSvr keeps its entry.
ErrorOfOther(c) ==
  /\ remote[c].type \notin {eGateServer, eDBServer, ePathServer, eManagerServer}
  /\ UNCHANGED <<m_allSvr, registered, m_pathSvr>>

\* The Request for the id, if it still waits, will time out without effect.
on_channel_error(c) ==
  /\ c \in broken /\ c \notin announced \cup acked
  /\ \/ ErrorOfGate(c)
     \/ ErrorOfDB(c)
     \/ ErrorOfPath(c)
     \/ ErrorOfManager(c)
     \/ ErrorOfOther(c)
  /\ CloseChannel(c)
  /\ asked' = asked \ {c}
  /\ UNCHANGED <<announced, built, acked>>

RegistryNext ==
  \E c \in Channels :
    \/ \E r \in RemoteServers : ChannelBuilt(c, r)
    \/ ChannelBreaks(c)
    \/ on_new_channel_build(c)
    \/ PushServerID(c)
    \/ PushTimesOut(c)
    \/ AckGatePushServerID(c)
    \/ AckDBPushServerID(c)
    \/ on_channel_error(c)

RegistrySpec == RegistryInit /\ [][RegistryNext]_registryVars

-----------------------------------------------------------------------------
(***************************************************************************)
(* The lookups of the other handlers (None is a null item or channel -1).  *)
(***************************************************************************)
GetDBServerBySvrID(s)  == IF s \in DBIDs THEN m_dbSvr[s] ELSE None
GetDBChannelBySvrID(s) == IF s \in DBIDs THEN m_dbSvr[s] ELSE None

-----------------------------------------------------------------------------
RegistryTypeOK ==
  /\ remote \in [Channels -> RemoteServers \cup {None}]
  /\ announced \subseteq Channels /\ broken \subseteq Channels
  /\ asked \subseteq Channels /\ acked \subseteq Channels
  /\ m_allSvr \in [Channels -> Items \cup {None}]
  /\ m_gateSvr \in [GateIDs -> Channels \cup {None}]
  /\ m_dbSvr \in [DBIDs -> Channels \cup {None}]
  /\ m_pathSvr \in Channels \cup {None, Null}
  /\ built \in 0 .. MaxBuilt

\* A registered channel is listed, with the id it is registered under, and
\* leads to a server of that id (its error may be queued): no handler is given
\* a channel that another connection has by now.
IsListed(c, type, s) ==
  /\ m_allSvr[c] # None /\ m_allSvr[c].serverID = s
  /\ remote[c] # None /\ remote[c].type = type /\ remote[c].id = s

RegisteredServerIsListed ==
  /\ \A s \in GateIDs : m_gateSvr[s] # None => IsListed(m_gateSvr[s], eGateServer, s)
  /\ \A s \in DBIDs : m_dbSvr[s] # None => IsListed(m_dbSvr[s], eDBServer, s)

=============================================================================
