---------------------------- MODULE ServerConnect ----------------------------
(***************************************************************************)
(* A server that connects to others (CConnMgr, eRequestConn of CEpollLoop, *)
(* the connecting half of ConnectSuccess).  Init makes a socket for every  *)
(* connection of the configuration; one thread connects them, each in its  *)
(* turn, and hands them to their epoll thread through a pipe; that thread  *)
(* sends the connection packet and waits for the answer.                   *)
(*                                                                         *)
(* A socket is only ever connected once: AddConn, which would give it back *)
(* to the connecting thread, has no caller.                                *)
(***************************************************************************)
EXTENDS GroupSession, Sequences

CONSTANTS
  ConfigOf,    \* the remote server each socket is to be connected to
  ReConnect    \* the remote servers with re_connect_

VARIABLES
  \* CConnMgr: what waits to be connected, and the iterator of svr.
  m_conn, it,
  \* The kernel: the servers that listen, each socket, and what epoll watches.
  listening, link, watched,
  \* The pipes, and CSessionMgr of all loops.
  m_confd, m_timeOutSe, m_timeout, m_session, m_groupID,
  \* The system messages the dispatchers have still to handle.
  posted,
  \* History: the remote servers whose connection was announced.
  told

connectVars == <<m_conn, it, listening, link, watched, m_confd, m_timeOutSe,
                 m_timeout, m_session, m_groupID, posted, told,
                 m_group, m_groupChannel>>

local    == <<m_conn, it>>
sessions == <<m_timeOutSe, m_timeout, m_session, m_groupID>>

Plain(k)  == GroupCount[k] = 1
Sockets(k) == {c \in Channels : ConfigOf[c] = k}
Waiting   == {c \in Channels : m_conn[c] # "none"}
SysMsgs   == [id : {"eConnBuildSuccess", "eConnErrMessage"}, channel : Channels]

\* The socket waits although its server listens.
Unserved(c) == c \in Waiting /\ ConfigOf[c] \in listening

ConnectTypeOK ==
  /\ GroupTypeOK
  /\ m_conn \in [Channels -> {"none", "eDisconnection", "eReConnection"}]
  /\ it \in Groups /\ listening \subseteq Remotes
  /\ link \in [Channels -> {"idle", "open", "asked", "answered", "refused", "up",
                            "gone", "closed"}]
  /\ watched \subseteq Channels
  /\ m_confd \subseteq Channels
  /\ m_timeOutSe \subseteq Channels /\ m_timeout \subseteq Channels
  /\ m_session \subseteq Channels /\ m_groupID \in [Channels -> Groups]
  /\ posted \subseteq SysMsgs /\ told \subseteq Remotes

\* CConnMgr::Init: group_count sockets (at least one) of each configuration.
ConnectInit ==
  /\ GroupInit
  /\ m_conn = [c \in Channels |-> "eDisconnection"] /\ it = None
  /\ listening \in SUBSET Remotes
  /\ link = [c \in Channels |-> "idle"] /\ watched = {}
  /\ m_confd = {}
  /\ m_timeOutSe = {} /\ m_timeout = {} /\ m_session = {}
  /\ m_groupID = [c \in Channels |-> None]
  /\ posted = {} /\ told = {}

-----------------------------------------------------------------------------
(***************************************************************************)
(* The connecting thread (CConnMgr::svr).  It holds m_connLock all round,  *)
(* connect() and the pauses included; nobody else takes it.                *)
(***************************************************************************)

\* The first entry of the map that comes after c.
After(c) ==
  LET later == {d \in Waiting : d > c} IN
  IF later = {} THEN None ELSE CHOOSE d \in later : \A e \in later : d <= e

\* Broken variant: a round ends with the first server that does not answer.
Following_Stops(c) == None

Following(c) == After(c)

\* The thread has slept and begins a round.
Round ==
  /\ it = None /\ Waiting # {}
  /\ it' = After(None)
  /\ UNCHANGED <<m_conn, listening, link, watched, m_confd, sessions, posted, told,
                 groups>>

\* Broken variant: a socket that failed once is dropped, re_connect_ or not.
Tries_Once(c) == m_conn[c] = "eDisconnection"

Tries(c) == m_conn[c] = "eDisconnection" \/ ConfigOf[c] \in ReConnect

\* connect() fails: again in the next round.
ConnectFails(c) ==
  /\ it = c /\ Tries(c) /\ ConfigOf[c] \notin listening
  /\ m_conn' = [m_conn EXCEPT ![c] = "eReConnection"]
  /\ it' = Following(c)
  /\ UNCHANGED <<listening, link, watched, m_confd, sessions, posted, told, groups>>

\* It succeeds, and SendConnRequest writes the socket into the pipe.
Connects(c) ==
  /\ it = c /\ Tries(c) /\ ConfigOf[c] \in listening
  /\ link' = [link EXCEPT ![c] = "open"]
  /\ m_confd' = m_confd \cup {c}
  /\ m_conn' = [m_conn EXCEPT ![c] = "none"]
  /\ it' = After(c)
  /\ UNCHANGED <<listening, watched, sessions, posted, told, groups>>

\* It failed before and is not to be connected again: its entry is erased,
\* and the socket, which nothing names any more, stays open.
GivesUp(c) ==
  /\ it = c /\ ~Tries(c)
  /\ m_conn' = [m_conn EXCEPT ![c] = "none"]
  /\ it' = After(c)
  /\ UNCHANGED <<listening, link, watched, m_confd, sessions, posted, told, groups>>

-----------------------------------------------------------------------------
(***************************************************************************)
(* The remote servers.                                                     *)
(***************************************************************************)

Starts(k) ==
  /\ k \notin listening
  /\ listening' = listening \cup {k}
  /\ UNCHANGED <<local, link, watched, m_confd, sessions, posted, told, groups>>

\* It stops, and with it its connections.
Stops(k) ==
  /\ k \in listening
  /\ listening' = listening \ {k}
  /\ link' = [c \in Channels |->
       IF ConfigOf[c] = k /\ link[c] \notin {"idle", "closed"} THEN "gone" ELSE link[c]]
  /\ UNCHANGED <<local, watched, m_confd, sessions, posted, told, groups>>

\* One connection breaks.
Breaks(c) ==
  /\ link[c] \in {"open", "asked", "answered", "refused", "up"}
  /\ link' = [link EXCEPT ![c] = "gone"]
  /\ UNCHANGED <<local, listening, watched, m_confd, sessions, posted, told, groups>>

\* S2CMessage or S2CGroupMessage, with a return value that is 0 or is not.
Answers(c) ==
  /\ link[c] = "asked"
  /\ \E answer \in {"answered", "refused"} : link' = [link EXCEPT ![c] = answer]
  /\ UNCHANGED <<local, listening, watched, m_confd, sessions, posted, told, groups>>

-----------------------------------------------------------------------------
(***************************************************************************)
(* The epoll thread of the socket.                                         *)
(***************************************************************************)

\* eRequestConn: the session waits for its answer, with a timeout, and the
\* connection packet is written (into the void, if the server has gone).
RequestConn(c) ==
  /\ c \in m_confd /\ c \notin m_timeOutSe
  /\ m_confd' = m_confd \ {c}
  /\ m_timeOutSe' = m_timeOutSe \cup {c} /\ m_timeout' = m_timeout \cup {c}
  /\ watched' = watched \cup {c}
  /\ link' = [link EXCEPT ![c] = IF @ = "open" THEN "asked" ELSE @]
  /\ UNCHANGED <<local, listening, m_session, m_groupID, posted, told, groups>>

\* AddTimerSessionEx or EPOLL_CTL_ADD fails: the socket is closed.
RequestConnFails(c) ==
  /\ c \in m_confd
  /\ m_confd' = m_confd \ {c}
  /\ link' = [link EXCEPT ![c] = "closed"]
  /\ UNCHANGED <<local, listening, watched, sessions, posted, told, groups>>

\* A session that is not established is closed without a word.
CloseHandshake(c) ==
  /\ c \in m_timeOutSe
  /\ m_timeOutSe' = m_timeOutSe \ {c} /\ m_timeout' = m_timeout \ {c}
  /\ watched' = watched \ {c}
  /\ link' = [link EXCEPT ![c] = "closed"]
  /\ UNCHANGED <<local, listening, m_confd, m_session, m_groupID, posted, told, groups>>

\* channel_keep_time_ is over.
Tick(c) == c \in m_timeout /\ CloseHandshake(c)

\* ConnectSuccess returns eConMessageErr: the answer is not 0, or the group
\* has all its members; Session::AddMessage deletes the session.
Refused(c) ==
  /\ c \in watched
  /\ \/ link[c] = "refused"
     \/ link[c] = "answered" /\ ~Plain(ConfigOf[c]) /\ GroupFull(ConfigOf[c])
  /\ CloseHandshake(c)

\* Context::SystemErr.
SystemErr(id, c) == posted' = posted \cup {[id |-> id, channel |-> c]}

\* Broken variant: every member of a group announces it.
Complete_Each(c) == TRUE

\* AddGroupSession's isSuccess; a plain connection is complete by itself.
Complete(c) == Plain(ConfigOf[c]) \/ Completes(ConfigOf[c])

\* ConnectSuccess: the session is established under the id and type of the
\* configuration, and announced, by its group's id, when the group is whole.
ConnectSuccess(c) ==
  LET k == ConfigOf[c] IN
  /\ c \in watched \cap m_timeOutSe /\ link[c] = "answered"
  /\ IF Plain(k) THEN UNCHANGED <<m_groupID, groups>>
     ELSE AddGroupSession(k, c) /\ m_groupID' = [m_groupID EXCEPT ![c] = GroupOf(k, c)]
  /\ m_timeOutSe' = m_timeOutSe \ {c} /\ m_timeout' = m_timeout \ {c}
  /\ m_session' = m_session \cup {c}
  /\ link' = [link EXCEPT ![c] = "up"]
  /\ IF Complete(c)
     THEN /\ SystemErr("eConnBuildSuccess", IF Plain(k) THEN c ELSE GroupOf(k, c))
          /\ told' = told \cup {k}
     ELSE UNCHANGED <<posted, told>>
  /\ UNCHANGED <<local, listening, watched, m_confd>>

\* EPOLLRDHUP: a handshake is closed, an established session only reported.
HangsUp(c) ==
  /\ c \in watched /\ link[c] = "gone"
  /\ \/ CloseHandshake(c)
     \/ /\ c \notin m_timeOutSe
        /\ SystemErr("eConnErrMessage", c)
        /\ watched' = watched \ {c}
        /\ UNCHANGED <<local, listening, link, m_confd, sessions, told, groups>>

-----------------------------------------------------------------------------
(***************************************************************************)
(* The dispatchers' handlers: what they do with the servers they know is   *)
(* the concern of ServerRegistry; here, they close a session at its error. *)
(***************************************************************************)

HandleBuild(c) ==
  /\ posted' = posted \ {[id |-> "eConnBuildSuccess", channel |-> c]} /\ posted' # posted
  /\ UNCHANGED <<local, listening, link, watched, m_confd, sessions, told, groups>>

HandleErr(c) ==
  /\ posted' = posted \ {[id |-> "eConnErrMessage", channel |-> c]} /\ posted' # posted
  /\ c \in m_session
  /\ IF m_groupID[c] = None THEN UNCHANGED groups
                            ELSE DeleteGroupSession(m_groupID[c], c)
  /\ m_session' = m_session \ {c}
  /\ link' = [link EXCEPT ![c] = "closed"]
  /\ UNCHANGED <<local, listening, watched, m_confd, m_timeOutSe, m_timeout,
                 m_groupID, told>>

ConnectNext ==
  \/ Round
  \/ \E k \in Remotes : Starts(k) \/ Stops(k)
  \/ \E c \in Channels :
       \/ ConnectFails(c) \/ Connects(c) \/ GivesUp(c)
       \/ Breaks(c) \/ Answers(c)
       \/ RequestConn(c) \/ RequestConnFails(c)
       \/ Tick(c) \/ Refused(c) \/ ConnectSuccess(c) \/ HangsUp(c)
       \/ HandleBuild(c) \/ HandleErr(c)

\* The connecting thread runs as long as the context does.
ConnectThread ==
  Round \/ \E c \in Channels : ConnectFails(c) \/ Connects(c) \/ GivesUp(c)

-----------------------------------------------------------------------------
\* A socket is in one place: it waits to be connected, is in the pipe, in its
\* handshake (with a timeout), established, closed, or given up after a first
\* failure; and the members of a group are its established connections.
SocketsInPlace ==
  /\ m_timeout = m_timeOutSe
  /\ \A c \in Channels :
       /\ Cardinality({s \in {Waiting, m_confd, m_timeOutSe, m_session} : c \in s}) <= 1
       /\ c \in Waiting => link[c] = "idle"
       /\ c \in m_confd \cup m_timeOutSe \cup m_session => link[c] \notin {"idle", "closed"}
       /\ c \notin Waiting \cup m_confd \cup m_timeOutSe \cup m_session =>
            link[c] = "closed" \/ (link[c] = "idle" /\ ConfigOf[c] \notin ReConnect)
  /\ \A k \in Remotes :
       ~Plain(k) => LET live == m_session \cap Sockets(k) IN
                    IF m_group[k] = None THEN live = {} ELSE Members(m_group[k]) = live

\* A server is announced when all its connections are there, and not before:
\* while they all are, it has been, and one it has lost was one of them.
AnnouncedWhole ==
  \A k \in Remotes :
    LET whole == Sockets(k) \subseteq m_session IN
    /\ whole => k \in told
    /\ k \in told => \A c \in Sockets(k) : c \in m_session \/ link[c] = "closed"
=============================================================================
