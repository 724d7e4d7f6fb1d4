------------------------------ MODULE GateLogin ------------------------------
(***************************************************************************)
(* The gate server's table of logins (ConnTimeout and ServerConHandler of  *)
(* GateServer/src, with the handlers of CharactorLogin that use them).     *)
(*                                                                         *)
(* The login server announces a character (WILLLOGIN), which enters        *)
(* m_timeout with the game server it is given to; the client connects, is  *)
(* kept in m_connectList until it says which character it is               *)
(* (PLAYERINFO), and its channel is then held by the entry of m_timeout.   *)
(* One thread (svr) evicts the connections that say nothing and the        *)
(* entries whose time is up; the handlers run on the dispatcher threads,   *)
(* one per channel here, each in the order its messages came.              *)
(*                                                                         *)
(* A channel is a file descriptor: once CloseChannel has closed it, the    *)
(* next connection may be given it, while messages of the former one are   *)
(* still queued.  A peer's disconnection does not free it, it queues an    *)
(* error and leaves the closing to the handler.                            *)
(*                                                                         *)
(* The Ack of CLIENTIN is not dispatched (CharactorLogin::Handle_Ack), so  *)
(* PlayerLogin is never called: m_idClient and m_client stay empty, no     *)
(* heart beat finds its client, and no entry's time is prolonged.          *)
(***************************************************************************)
EXTENDS Naturals, Sequences

CONSTANTS
  Chars,     \* the characters, and with each the clients that play it
  Servers,   \* the ids of game servers
  Channels,  \* the file descriptors connections are given
  None,      \* no peer, no entry, no channel (-1)
  svr,       \* the thread of ConnTimeout, beside those of the channels
  MaxQueue,  \* bound of the model: messages queued on one channel
  MaxConnect \* bound of the model: connections that are made

ASSUME ConstantsAssumption ==
  /\ MaxQueue \in Nat /\ MaxConnect \in Nat
  /\ Servers \subseteq Nat /\ Channels \subseteq Nat
  /\ Chars \cap Servers = {}
  /\ None \notin Chars \cup Servers \cup Channels /\ svr \notin Channels

Peers    == Chars \cup Servers
Messages == [type : {"build", "PLAYERINFO", "error"}, from : Peers]
Entries  == [gsID : Servers, channeid : Channels \cup {None}, isDel : BOOLEAN]

ASSUME NoneIsNoEntry == None \notin Entries

VARIABLES
  \* The network: who is at the other end of a channel's session, the
  \* sessions whose peer has left, and the queue of each channel's dispatcher.
  peer, gone, queue,
  \* ConnTimeout, and the connections and entries whose time is up.
  m_connectList, m_timeout, dueConnect, dueEntry,
  \* ServerConHandler: the channel of each registered game server.
  m_gsIDSvr,
  \* How far the handler of a channel's first message is, and the channels
  \* that each thread is about to close.
  doing, closing,
  \* The handler of WILLLOGIN, between its two steps.
  login,
  \* ConnTimeout::svr: its place in the loop and its two lists.
  pc, delMap, lineDel,
  \* History: open channels whose character another channel has taken over,
  \* and how many connections were made.
  replaced, connections

network  == <<peer, gone, queue>>
connects == <<m_connectList, dueConnect>>
entries  == <<m_timeout, dueEntry>>
loop     == <<pc, delMap, lineDel>>
vars == <<network, connects, entries, m_gsIDSvr, doing, closing, login, loop,
          replaced, connections>>

Init ==
  /\ peer = [c \in Channels |-> None] /\ gone = {}
  /\ queue = [c \in Channels |-> <<>>]
  /\ m_connectList = {} /\ dueConnect = {}
  /\ m_timeout = [a \in Chars |-> None] /\ dueEntry = {}
  /\ m_gsIDSvr = [g \in Servers |-> None]
  /\ doing = [c \in Channels |-> "idle"]
  /\ closing = [t \in Channels \cup {svr} |-> {}]
  /\ login = None
  /\ pc = "connects" /\ delMap = {} /\ lineDel = {}
  /\ replaced = {} /\ connections = 0

\* The entry of a character holds the channel.
Holds(a, c) == m_timeout[a] # None /\ m_timeout[a].channeid = c
Held(c)     == \E a \in Chars : Holds(a, c)

\* Message_Facade::CloseChannel of each channel of S.
CloseChannel(S) ==
  /\ peer' = [c \in Channels |-> IF c \in S THEN None ELSE peer[c]]
  /\ gone' = gone \ S
  /\ replaced' = replaced \ S

-----------------------------------------------------------------------------
(***************************************************************************)
(* The peers.                                                              *)
(***************************************************************************)

Enqueue(c, m) ==
  /\ Len(queue[c]) < MaxQueue
  /\ queue' = [queue EXCEPT ![c] = Append(@, m)]

\* A peer connects and is given the least free descriptor.
Connect(c, p) ==
  /\ peer[c] = None /\ \A d \in Channels : peer[d] = None => c <= d
  /\ Enqueue(c, [type |-> "build", from |-> p])
  /\ connections < MaxConnect /\ connections' = connections + 1
  /\ peer' = [peer EXCEPT ![c] = p]
  /\ UNCHANGED <<gone, connects, entries, m_gsIDSvr, doing, closing, login,
                 loop, replaced>>

\* A client says which character it plays.
AskPlayerInfo(c) ==
  /\ peer[c] \in Chars /\ c \notin gone
  /\ Enqueue(c, [type |-> "PLAYERINFO", from |-> peer[c]])
  /\ UNCHANGED <<peer, gone, connects, entries, m_gsIDSvr, doing, closing,
                 login, loop, replaced, connections>>

\* The peer leaves: DeleteSessionEx reports it and keeps the session.
Disconnect(c) ==
  /\ peer[c] # None /\ c \notin gone
  /\ Enqueue(c, [type |-> "error", from |-> peer[c]])
  /\ gone' = gone \cup {c}
  /\ UNCHANGED <<peer, connects, entries, m_gsIDSvr, doing, closing, login,
                 loop, replaced, connections>>

-----------------------------------------------------------------------------
(***************************************************************************)
(* The handlers, each on its channel's dispatcher.                         *)
(***************************************************************************)

\* The thread of channel c is to handle a message of type t from p.
Handles(c, t, p) ==
  /\ queue[c] # <<>> /\ closing[c] = {}
  /\ Head(queue[c]) = [type |-> t, from |-> p]

Done(c) == queue' = [queue EXCEPT ![c] = Tail(@)]

\* Broken variant: the connection is not put in the list.
BuildClient_NotListed(c) ==
  /\ doing[c] = "idle"
  /\ \E a \in Chars : Handles(c, "build", a)
  /\ Done(c)
  /\ UNCHANGED <<peer, gone, connects, entries, m_gsIDSvr, doing, closing,
                 login, loop, replaced, connections>>

\* on_new_channel_build of a client: clientConnect.
BuildClient(c) ==
  /\ doing[c] = "idle"
  /\ \E a \in Chars : Handles(c, "build", a)
  /\ m_connectList' = m_connectList \cup {c}
  /\ dueConnect' = dueConnect \ {c}
  /\ Done(c)
  /\ UNCHANGED <<peer, gone, entries, m_gsIDSvr, doing, closing, login, loop,
                 replaced, connections>>

\* on_new_channel_build of a game server: the first one is registered, ...
BuildServer(c) ==
  /\ doing[c] = "idle"
  /\ \E g \in Servers :
       /\ Handles(c, "build", g) /\ m_gsIDSvr[g] = None
       /\ m_gsIDSvr' = [m_gsIDSvr EXCEPT ![g] = c]
  /\ Done(c)
  /\ UNCHANGED <<peer, gone, connects, entries, doing, closing, login, loop,
                 replaced, connections>>

\* ... a second one is closed.
BuildServerAgain(c) ==
  /\ doing[c] = "idle"
  /\ \E g \in Servers : Handles(c, "build", g) /\ m_gsIDSvr[g] # None
  /\ CloseChannel({c})
  /\ Done(c)
  /\ UNCHANGED <<connects, entries, m_gsIDSvr, doing, closing, login, loop,
                 connections>>

\* C2GT_PLAYERINFO: removeConnect, ...
RemoveConnect(c) ==
  /\ doing[c] = "idle"
  /\ \E a \in Chars : Handles(c, "PLAYERINFO", a)
  /\ m_connectList' = m_connectList \ {c}
  /\ dueConnect' = dueConnect \ {c}
  /\ doing' = [doing EXCEPT ![c] = "info"]
  /\ UNCHANGED <<network, entries, m_gsIDSvr, closing, login, loop, replaced,
                 connections>>

\* ... then UpdatePlayerInfo: the entry holds this channel from now on, ...
UpdatePlayerInfo(c) ==
  /\ doing[c] = "info"
  /\ \E a \in Chars :
       /\ Handles(c, "PLAYERINFO", a) /\ m_timeout[a] # None
       /\ m_timeout' = [m_timeout EXCEPT ![a].channeid = c]
       /\ replaced' = (replaced \cup {d \in Channels \ {c} :
                                        Holds(a, d) /\ peer[d] # None}) \ {c}
  /\ doing' = [doing EXCEPT ![c] = "idle"]
  /\ Done(c)
  /\ UNCHANGED <<peer, gone, connects, dueEntry, m_gsIDSvr, closing, login,
                 loop, connections>>

\* ... or there is no entry and the channel is to be closed.
RefusePlayerInfo(c) ==
  /\ doing[c] = "info"
  /\ \E a \in Chars : Handles(c, "PLAYERINFO", a) /\ m_timeout[a] = None
  /\ doing' = [doing EXCEPT ![c] = "idle"]
  /\ closing' = [closing EXCEPT ![c] = {c}]
  /\ Done(c)
  /\ UNCHANGED <<peer, gone, connects, entries, m_gsIDSvr, login, loop,
                 replaced, connections>>

\* on_channel_error of a client, PlayerExit(channel): a channel that an entry
\* holds is left to the entry, another is to be closed.  Neither
\* m_connectList nor the entry is touched.
ClientError(c) ==
  /\ doing[c] = "idle"
  /\ \E a \in Chars : Handles(c, "error", a)
  /\ closing' = [closing EXCEPT ![c] = IF Held(c) THEN {} ELSE {c}]
  /\ Done(c)
  /\ UNCHANGED <<peer, gone, connects, entries, m_gsIDSvr, doing, login,
                 loop, replaced, connections>>

\* on_channel_error of a game server: its id is taken out, whichever channel
\* it is registered with, ...
ServerError(c) ==
  /\ doing[c] = "idle"
  /\ \E g \in Servers :
       /\ Handles(c, "error", g)
       /\ m_gsIDSvr' = [m_gsIDSvr EXCEPT ![g] = None]
  /\ doing' = [doing EXCEPT ![c] = "lost"]
  /\ UNCHANGED <<network, connects, entries, closing, login, loop, replaced,
                 connections>>

\* Broken variant: the channels of the players are forgotten.
RemovePlayerByGsID_ForgetsChannels(c) ==
  /\ doing[c] = "lost"
  /\ \E g \in Servers :
       LET lost == {a \in Chars : m_timeout[a] # None /\ m_timeout[a].gsID = g}
       IN  /\ Handles(c, "error", g)
           /\ m_timeout' = [a \in Chars |-> IF a \in lost THEN None
                                                          ELSE m_timeout[a]]
           /\ dueEntry' = dueEntry \ lost
  /\ closing' = [closing EXCEPT ![c] = {c}]
  /\ doing' = [doing EXCEPT ![c] = "idle"]
  /\ Done(c)
  /\ UNCHANGED <<peer, gone, connects, m_gsIDSvr, login, loop, replaced,
                 connections>>

\* ... then clearPlayerFromServer and removePlayerByGsID: its players' entries
\* are erased; after the unlock their channels, and this one, are closed.
RemovePlayerByGsID(c) ==
  /\ doing[c] = "lost"
  /\ \E g \in Servers :
       LET lost == {a \in Chars : m_timeout[a] # None /\ m_timeout[a].gsID = g}
       IN  /\ Handles(c, "error", g)
           /\ m_timeout' = [a \in Chars |-> IF a \in lost THEN None
                                                          ELSE m_timeout[a]]
           /\ dueEntry' = dueEntry \ lost
           /\ closing' = [closing EXCEPT ![c] =
                {c} \cup {d \in Channels : \E a \in lost : Holds(a, d)}]
  /\ doing' = [doing EXCEPT ![c] = "idle"]
  /\ Done(c)
  /\ UNCHANGED <<peer, gone, connects, m_gsIDSvr, login, loop, replaced,
                 connections>>

\* A thread closes one of the channels it has to.
CloseNext(t) ==
  \E c \in closing[t] :
    /\ CloseChannel({c})
    /\ closing' = [closing EXCEPT ![t] = @ \ {c}]
    /\ UNCHANGED <<queue, connects, entries, m_gsIDSvr, doing, login, loop,
                   connections>>

-----------------------------------------------------------------------------
(***************************************************************************)
(* LS2GT_WILLLOGIN, AddClientTimeOut, on the login server's dispatcher.    *)
(***************************************************************************)

\* GetLeastGameServer.  No mapPlayer ever gets an entry, so every server has
\* no player and the least id is taken.
WillLogin(a) ==
  /\ login = None
  /\ \E g \in Servers :
       /\ m_gsIDSvr[g] # None
       /\ \A h \in Servers : m_gsIDSvr[h] # None => g <= h
       /\ login' = [char |-> a, gsID |-> g]
  /\ UNCHANGED <<network, connects, entries, m_gsIDSvr, doing, closing, loop,
                 replaced, connections>>

\* Broken variant: the entry starts with descriptor 0 in place of -1.
AddTimeout_NoChannelIsZero ==
  /\ login # None
  /\ m_timeout' = [m_timeout EXCEPT ![login.char] =
                     IF @ # None THEN @
                     ELSE [gsID |-> login.gsID, channeid |-> 0,
                           isDel |-> FALSE]]
  /\ login' = None
  /\ UNCHANGED <<network, connects, dueEntry, m_gsIDSvr, doing, closing,
                 loop, replaced, connections>>

\* AddTimeout: a character that has an entry keeps it.
AddTimeout ==
  /\ login # None
  /\ m_timeout' = [m_timeout EXCEPT ![login.char] =
                     IF @ # None THEN @
                     ELSE [gsID |-> login.gsID, channeid |-> None,
                           isDel |-> FALSE]]
  /\ login' = None
  /\ UNCHANGED <<network, connects, dueEntry, m_gsIDSvr, doing, closing,
                 loop, replaced, connections>>

-----------------------------------------------------------------------------
(***************************************************************************)
(* The thread of ConnTimeout.                                              *)
(***************************************************************************)

\* Time passes, for a connection or for an entry.
ExpireConnect(c) ==
  /\ c \in m_connectList \ dueConnect
  /\ dueConnect' = dueConnect \cup {c}
  /\ UNCHANGED <<network, m_connectList, entries, m_gsIDSvr, doing, closing,
                 login, loop, replaced, connections>>

ExpireEntry(a) ==
  /\ m_timeout[a] # None /\ a \notin dueEntry
  /\ dueEntry' = dueEntry \cup {a}
  /\ UNCHANGED <<network, connects, m_timeout, m_gsIDSvr, doing, closing,
                 login, loop, replaced, connections>>

\* checkConnect, under m_connectLock.
CheckConnect ==
  /\ pc = "connects"
  /\ CloseChannel(dueConnect)
  /\ m_connectList' = m_connectList \ dueConnect
  /\ dueConnect' = {}
  /\ pc' = "scan"
  /\ UNCHANGED <<queue, entries, m_gsIDSvr, doing, closing, login, delMap,
                 lineDel, connections>>

\* The entries whose time is up: warned already, or of a named server and not
\* yet warned, these without a client or with one.  An entry whose gsID is not
\* positive is passed over and stays due.
Warned    == {a \in dueEntry : m_timeout[a].isDel}
Unwarned  == {a \in dueEntry \ Warned : m_timeout[a].gsID > 0}
Unclaimed == {a \in Unwarned : m_timeout[a].channeid = None}
Late      == Unwarned \ Unclaimed

\* Broken variant: an entry that was warned is not looked at again.
Scan_WarnsOnly ==
  /\ pc = "scan"
  /\ m_timeout' = [a \in Chars |->
                     CASE a \in Unclaimed -> None
                       [] a \in Late -> [m_timeout[a] EXCEPT !.isDel = TRUE]
                       [] OTHER -> m_timeout[a]]
  /\ dueEntry' = dueEntry \ Unwarned
  /\ delMap' = {c \in Channels : \E a \in Late : Holds(a, c)}
  /\ lineDel' = {}
  /\ pc' = "exits"
  /\ UNCHANGED <<network, connects, m_gsIDSvr, doing, closing, login,
                 replaced, connections>>

\* The scan of m_timeout under m_timeLock.  An entry of the third kind stays
\* until PlayerExitEx, and its time stays passed.
Scan ==
  /\ pc = "scan"
  /\ m_timeout' = [a \in Chars |->
                     CASE a \in Unclaimed -> None
                       [] a \in Late -> [m_timeout[a] EXCEPT !.isDel = TRUE]
                       [] OTHER -> m_timeout[a]]
  /\ dueEntry' = dueEntry \ Unwarned
  /\ delMap' = {c \in Channels : \E a \in Late : Holds(a, c)}
  /\ lineDel' = Warned
  /\ pc' = "exits"
  /\ UNCHANGED <<network, connects, m_gsIDSvr, doing, closing, login,
                 replaced, connections>>

\* PlayerExit(channel) of a late client: closed unless an entry holds it.
PlayerExit(c) ==
  /\ pc = "exits" /\ closing[svr] = {} /\ c \in delMap
  /\ delMap' = delMap \ {c}
  /\ closing' = [closing EXCEPT ![svr] = IF Held(c) THEN {} ELSE {c}]
  /\ UNCHANGED <<network, connects, entries, m_gsIDSvr, doing, login, pc,
                 lineDel, replaced, connections>>

\* Broken variant: the entry is erased, its channel left open.
PlayerExitEx_LeavesChannel(a) ==
  /\ pc = "exits" /\ closing[svr] = {} /\ delMap = {} /\ a \in lineDel
  /\ lineDel' = lineDel \ {a}
  /\ m_timeout' = [m_timeout EXCEPT ![a] = None]
  /\ dueEntry' = dueEntry \ {a}
  /\ UNCHANGED <<network, connects, m_gsIDSvr, doing, closing, login, pc,
                 delMap, replaced, connections>>

\* PlayerExitEx(charid), which here is DelTimeout under m_timeLock: whatever
\* entry the character has by now is erased and its channel closed.
PlayerExitEx(a) ==
  /\ pc = "exits" /\ closing[svr] = {} /\ delMap = {} /\ a \in lineDel
  /\ lineDel' = lineDel \ {a}
  /\ CloseChannel({c \in Channels : Holds(a, c)})
  /\ m_timeout' = [m_timeout EXCEPT ![a] = None]
  /\ dueEntry' = dueEntry \ {a}
  /\ UNCHANGED <<queue, connects, m_gsIDSvr, doing, closing, login, pc,
                 delMap, connections>>

\* The loop starts again.
NextRound ==
  /\ pc = "exits" /\ closing[svr] = {} /\ delMap = {} /\ lineDel = {}
  /\ pc' = "connects"
  /\ UNCHANGED <<network, connects, entries, m_gsIDSvr, doing, closing,
                 login, delMap, lineDel, replaced, connections>>

-----------------------------------------------------------------------------
Peer(c) ==
  \/ \E p \in Peers : Connect(c, p)
  \/ AskPlayerInfo(c)
  \/ Disconnect(c)

Dispatcher(c) ==
  \/ BuildClient(c) \/ BuildServer(c) \/ BuildServerAgain(c)
  \/ RemoveConnect(c) \/ UpdatePlayerInfo(c) \/ RefusePlayerInfo(c)
  \/ ClientError(c) \/ ServerError(c) \/ RemovePlayerByGsID(c)
  \/ CloseNext(c)

Evictor ==
  \/ CheckConnect \/ Scan \/ NextRound \/ CloseNext(svr)
  \/ \E c \in Channels : PlayerExit(c)
  \/ \E a \in Chars : PlayerExitEx(a)

Next ==
  \/ \E c \in Channels : Peer(c) \/ Dispatcher(c) \/ ExpireConnect(c)
  \/ \E a \in Chars : WillLogin(a) \/ ExpireEntry(a)
  \/ AddTimeout
  \/ Evictor

Spec == Init /\ [][Next]_vars

\* Threads are scheduled and time passes; no peer has to do anything.
Fairness ==
  /\ \A c \in Channels : WF_vars(Dispatcher(c)) /\ WF_vars(ExpireConnect(c))
  /\ \A a \in Chars : WF_vars(ExpireEntry(a))
  /\ WF_vars(AddTimeout)
  /\ WF_vars(Evictor)

FairSpec == Spec /\ Fairness

-----------------------------------------------------------------------------
TypeOK ==
  /\ peer \in [Channels -> Peers \cup {None}] /\ gone \subseteq Channels
  /\ queue \in [Channels -> Seq(Messages)]
  /\ m_connectList \subseteq Channels /\ dueConnect \subseteq m_connectList
  /\ m_timeout \in [Chars -> Entries \cup {None}] /\ dueEntry \subseteq Chars
  /\ m_gsIDSvr \in [Servers -> Channels \cup {None}]
  /\ doing \in [Channels -> {"idle", "info", "lost"}]
  /\ closing \in [Channels \cup {svr} -> SUBSET Channels]
  /\ login \in [char : Chars, gsID : Servers] \cup {None}
  /\ pc \in {"connects", "scan", "exits"}
  /\ delMap \subseteq Channels /\ lineDel \subseteq Chars
  /\ replaced \subseteq Channels /\ connections \in 0 .. MaxConnect

\* That a client has come, or has gone, is still to be handled.
Waits(c) ==
  \E i \in DOMAIN queue[c] :
    queue[c][i].type \in {"build", "error"} /\ queue[c][i].from \in Chars

\* No client's connection is lost sight of: it is listed, or held by an entry,
\* or being dealt with, unless its character was taken over by another
\* connection (UpdatePlayerInfo drops the former channel without closing it).
ChannelAccounted ==
  \A c \in Channels : peer[c] \in Chars =>
    \/ c \in m_connectList \/ Held(c) \/ c \in replaced
    \/ Waits(c) \/ doing[c] = "info"
    \/ \E t \in Channels \cup {svr} : c \in closing[t]

\* A channel whose client has gone is closed, though on_channel_error leaves
\* the one that an entry holds to the eviction of the entry.
DeadClientIsClosed ==
  \A c \in Channels :
    (c \in gone /\ peer[c] \in Chars) ~> (c \notin gone \/ c \in replaced)

\* A client that stays connected and says nothing is closed by checkConnect.
IdleClientIsClosed ==
  \A c \in Channels :
    (peer[c] \in Chars) ~> (peer[c] = None \/ Held(c) \/ c \in replaced)

\* An announced login leaves m_timeout, so the next WILLLOGIN of the character
\* is not refused for ever.
LoginEnds == \A a \in Chars : (m_timeout[a] # None) ~> (m_timeout[a] = None)

\* m_connectList is there to check that clients' connections are valid
\* ("用于检测连接的有效性"): a game server that is registered is connected.
RegisteredServerIsConnected ==
  \A g \in Servers : m_gsIDSvr[g] # None => peer[m_gsIDSvr[g]] = g
=============================================================================
