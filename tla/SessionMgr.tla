----------------------------- MODULE SessionMgr -----------------------------
(***************************************************************************)
(* The sessions of a server that accepts the connections of others         *)
(* (CSessionMgr, CEpollLoop, Session::AddMessage), with their groups, the  *)
(* system messages, and the handlers of the DB server for them             *)
(* (DBServer/src/ServerManager.cpp).                                       *)
(*                                                                         *)
(* A connection is a file descriptor in every map.  The accepting thread   *)
(* passes it through a pipe to the epoll thread it belongs to, which keeps *)
(* it in m_timeOutSe until its connection packet comes or its time is up,  *)
(* and in m_session from then on.  When its peer closes, the epoll thread  *)
(* only takes it out of epoll and posts an error; the dispatcher's handler *)
(* closes it.  The descriptor is then free for the next connection, while  *)
(* events and messages that name it may still be waiting.                  *)
(***************************************************************************)
EXTENDS GroupSession, Sequences

CONSTANTS
  Loops, LoopOf,              \* epoll threads, and that of each descriptor
  Dispatchers, DispatcherOf,  \* dispatch threads, and that of each descriptor
  MaxQueue,                   \* bound of the model: nobody connects while a
                              \* dispatcher has this many messages to handle
  MaxConnect                  \* bound of the model: connections that are made

ASSUME ThreadAssumption ==
  /\ LoopOf \in [Channels -> Loops]
  /\ DispatcherOf \in [Channels -> Dispatchers]
  /\ MaxQueue \in Nat /\ MaxConnect \in Nat

VARIABLES
  \* The kernel: open descriptors, who is at the other end, which peers have
  \* closed, what became of the connection packet, what epoll watches.
  open, remote, gone, packet, epoll,
  \* The remote servers: how many connections each process has opened.
  opened,
  \* The epoll threads: descriptors in the pipe, events that epoll_wait has
  \* returned, the descriptor that Session::Recv is reading; of a session that
  \* ConnectSuccess has taken out of m_timeOutSe, whether its group is complete;
  \* and once it is in m_session, what ConnectSuccess is about to return.
  m_accfd, ready, recv, moving, result,
  \* CSessionMgr (those of all loops together) and Session::m_groupID.
  m_timeOutSe, m_timeout, m_session, m_groupID,
  \* The dispatchers: their messages, and the descriptor whose timeout
  \* DeleteSession has still to erase after it closed the session.
  m_deque, erasing,
  \* m_gameSvr and m_loginSvr: the channel of each registered server.
  m_svr,
  \* History: sessions whose timeout was erased by the deletion of an earlier
  \* session of the same descriptor, and sessions that DeleteSession took out
  \* of epoll without finding them; and how many connections were made.
  robbed, orphaned, connections

kernel   == <<open, remote, gone, packet, epoll>>
peers    == <<opened, connections>>
threads  == <<m_accfd, ready, recv, moving, result>>
sessions == <<m_timeOutSe, m_timeout, m_session, m_groupID>>
handlers == <<m_deque, erasing, m_svr>>
history  == <<robbed, orphaned>>
vars == <<kernel, peers, threads, groups, sessions, handlers, history>>

\* A remote server with one connection sends C2SMessage, not C2SGroupMessage.
Plain(k) == GroupCount[k] = 1

\* eConnBuildSuccess, eConnErrMessage, eConnFailMessage.
Messages ==
  [id : {"build", "error", "failed"}, channel : Channels, remote : Remotes]

\* Success, which is to be announced, or eGroupContinue.
Results  == [id : {"build", "continue"}, channel : Channels, remote : Remotes]
NoResult == [id |-> "none", channel |-> None, remote |-> None]

TypeOK ==
  /\ GroupTypeOK
  /\ open \subseteq Channels /\ gone \subseteq Channels
  /\ epoll \subseteq Channels /\ m_accfd \subseteq Channels
  /\ remote \in [Channels -> Remotes \cup {None}]
  /\ packet \in [Channels -> {"unsent", "unread", "read"}]
  /\ opened \in [Remotes -> Nat]
  /\ ready \in [Channels -> {"none", "in", "hup"}]
  /\ recv \in [Loops -> Groups]
  /\ moving \in [Channels -> {"no", "member", "complete"}]
  /\ result \in [Loops -> Results \cup {NoResult}]
  /\ m_timeOutSe \subseteq Channels /\ m_timeout \subseteq Channels
  /\ m_session \subseteq Channels
  /\ m_groupID \in [Channels -> Groups]
  /\ m_deque \in [Dispatchers -> Seq(Messages)]
  /\ erasing \in [Dispatchers -> Groups]
  /\ m_svr \in [Remotes -> Groups]
  /\ robbed \subseteq Channels /\ orphaned \subseteq Channels
  /\ connections \in Nat

Init ==
  /\ GroupInit
  /\ open = {} /\ gone = {} /\ epoll = {}
  /\ remote = [c \in Channels |-> None]
  /\ packet = [c \in Channels |-> "unsent"]
  /\ opened = [k \in Remotes |-> 0]
  /\ m_accfd = {}
  /\ ready = [c \in Channels |-> "none"]
  /\ recv = [l \in Loops |-> None]
  /\ moving = [c \in Channels |-> "no"]
  /\ result = [l \in Loops |-> NoResult]
  /\ m_timeOutSe = {} /\ m_timeout = {} /\ m_session = {}
  /\ m_groupID = [c \in Channels |-> None]
  /\ m_deque = [d \in Dispatchers |-> <<>>]
  /\ erasing = [d \in Dispatchers |-> None]
  /\ m_svr = [k \in Remotes |-> None]
  /\ robbed = {} /\ orphaned = {} /\ connections = 0

Moving == {c \in Channels : moving[c] # "no"}

-----------------------------------------------------------------------------
(***************************************************************************)
(* The remote servers and the accepting thread.                            *)
(***************************************************************************)

\* CConnMgr::svr of the remote server connects one of the sockets that Init
\* made, once; the connection is accepted on the least free descriptor and
\* its eRequestListen written into the pipe of its epoll thread.
Connect(k, c) ==
  /\ opened[k] < GroupCount[k]
  /\ \A d \in Dispatchers : Len(m_deque[d]) < MaxQueue
  /\ c \notin open /\ \A x \in Channels \ open : c <= x
  /\ opened' = [opened EXCEPT ![k] = @ + 1]
  /\ connections < MaxConnect /\ connections' = connections + 1
  /\ open' = open \cup {c}
  /\ remote' = [remote EXCEPT ![c] = k]
  /\ m_accfd' = m_accfd \cup {c}
  /\ UNCHANGED <<gone, packet, epoll, ready, recv, moving, result, groups,
                 sessions, handlers, history>>

\* The remote server sends its connection packet.
SendPacket(c) ==
  /\ c \in open \ gone /\ packet[c] = "unsent"
  /\ packet' = [packet EXCEPT ![c] = "unread"]
  /\ UNCHANGED <<open, remote, gone, epoll, peers, threads, groups, sessions,
                 handlers, history>>

\* One connection breaks; the remote server does not open it again.
PeerCloses(c) ==
  /\ c \in open \ gone
  /\ gone' = gone \cup {c}
  /\ UNCHANGED <<open, remote, packet, epoll, peers, threads, groups,
                 sessions, handlers, history>>

\* The process of a remote server dies, and a new one will connect.
PeerRestarts(k) ==
  /\ opened[k] > 0
  /\ opened' = [opened EXCEPT ![k] = 0]
  /\ gone' = gone \cup {c \in open : remote[c] = k}
  /\ UNCHANGED <<open, remote, packet, epoll, connections, threads, groups,
                 sessions, handlers, history>>

-----------------------------------------------------------------------------
(***************************************************************************)
(* Deleting a session.                                                     *)
(***************************************************************************)

\* closeSocket: the descriptor is free again.
Close(c) ==
  /\ open' = open \ {c}
  /\ gone' = gone \ {c}
  /\ epoll' = epoll \ {c}
  /\ remote' = [remote EXCEPT ![c] = None]
  /\ packet' = [packet EXCEPT ![c] = "unsent"]
  /\ robbed' = robbed \ {c}
  /\ orphaned' = orphaned \ {c}

CloseHandshake(c) ==
  /\ c \in m_timeOutSe
  /\ m_timeOutSe' = m_timeOutSe \ {c}
  /\ Close(c)
  /\ UNCHANGED <<m_session, m_groupID, groups>>

CloseEstablished(c) ==
  /\ c \notin m_timeOutSe /\ c \in m_session
  /\ IF m_groupID[c] # None THEN DeleteGroupSession(m_groupID[c], c)
                            ELSE UNCHANGED groups
  /\ m_session' = m_session \ {c}
  /\ Close(c)
  /\ UNCHANGED <<m_timeOutSe, m_groupID>>

\* Neither map has it: EPOLL_CTL_DEL was all that happened.
CloseNothing(c) ==
  /\ c \notin m_timeOutSe \cup m_session
  /\ epoll' = epoll \ {c}
  /\ orphaned' = orphaned \cup ({c} \cap Moving)
  /\ UNCHANGED <<open, remote, gone, packet, m_timeOutSe, m_session,
                 m_groupID, groups, robbed>>

\* CEpollLoop::DeleteSession, but for its last statement, m_timeout.erase.
DeleteSession(c) ==
  CloseHandshake(c) \/ CloseEstablished(c) \/ CloseNothing(c)

\* Context::SystemErr: the deques with one more message.
Posted(deque, id, c, k) ==
  [deque EXCEPT ![DispatcherOf[c]] =
     Append(@, [id |-> id, channel |-> c, remote |-> k])]

SystemErr(id, c, k) == m_deque' = Posted(m_deque, id, c, k)

\* Broken variant: an error is posted for a session that is closed already.
DeleteSessionEx_AnySession(c) ==
  \/ CloseHandshake(c) /\ m_timeout' = m_timeout \ {c} /\ UNCHANGED m_deque
  \/ /\ c \notin m_timeOutSe
     /\ SystemErr("error", c, remote[c])
     /\ epoll' = epoll \ {c}
     /\ UNCHANGED <<open, remote, gone, packet, m_timeOutSe, m_timeout,
                    m_session, m_groupID, groups, history>>

\* CEpollLoop::DeleteSessionEx, called by the epoll threads only.
DeleteSessionEx(c) ==
  \/ CloseHandshake(c) /\ m_timeout' = m_timeout \ {c} /\ UNCHANGED m_deque
  \/ /\ c \notin m_timeOutSe
     /\ IF c \in m_session THEN SystemErr("error", c, remote[c])
                           ELSE UNCHANGED m_deque
     /\ epoll' = epoll \ {c}
     /\ UNCHANGED <<open, remote, gone, packet, m_timeOutSe, m_timeout,
                    m_session, m_groupID, groups, history>>

-----------------------------------------------------------------------------
(***************************************************************************)
(* An epoll thread (CEpollLoop::svr): a command of the pipe, the timeouts, *)
(* then the events of one epoll_wait, one after the other.                 *)
(***************************************************************************)

\* Recv of this descriptor calls recv, or ConnectSuccess.
Reading(c) == recv[LoopOf[c]] = c /\ result[LoopOf[c]] = NoResult

\* All events of the last epoll_wait have been handled.
BatchDone(l) ==
  /\ recv[l] = None
  /\ \A c \in Channels : LoopOf[c] = l => ready[c] = "none"

\* Broken variant: a descriptor that was closed before gets no new timeout.
Listen_OldTimeout(c) ==
  /\ c \in m_accfd /\ BatchDone(LoopOf[c]) /\ c \notin m_timeOutSe
  /\ m_accfd' = m_accfd \ {c}
  /\ m_timeOutSe' = m_timeOutSe \cup {c}
  /\ m_timeout' = IF m_groupID[c] = None THEN m_timeout \cup {c} ELSE m_timeout
  /\ m_groupID' = [m_groupID EXCEPT ![c] = None]
  /\ epoll' = epoll \cup {c}
  /\ UNCHANGED <<open, remote, gone, packet, peers, ready, recv, moving,
                 result, groups, m_session, handlers, history>>

\* ReadCommd: AddTimerSessionEx and EPOLL_CTL_ADD.
Listen(c) ==
  /\ c \in m_accfd /\ BatchDone(LoopOf[c]) /\ c \notin m_timeOutSe
  /\ m_accfd' = m_accfd \ {c}
  /\ m_timeOutSe' = m_timeOutSe \cup {c}
  /\ m_timeout' = m_timeout \cup {c}
  /\ m_groupID' = [m_groupID EXCEPT ![c] = None]
  /\ epoll' = epoll \cup {c}
  /\ UNCHANGED <<open, remote, gone, packet, peers, ready, recv, moving,
                 result, groups, m_session, handlers, history>>

\* Broken variant: the descriptor of a refused connection is not closed.
ListenFails_Leaks(c) ==
  /\ c \in m_accfd /\ BatchDone(LoopOf[c])
  /\ m_accfd' = m_accfd \ {c}
  /\ UNCHANGED <<kernel, peers, ready, recv, moving, result, groups, sessions,
                 handlers, history>>

\* AddTimerSessionEx returns 0, or EpollCtl fails and the session is deleted:
\* either way the connection is closed and leaves no trace.
ListenFails(c) ==
  /\ c \in m_accfd /\ BatchDone(LoopOf[c])
  /\ m_accfd' = m_accfd \ {c}
  /\ Close(c)
  /\ UNCHANGED <<peers, ready, recv, moving, result, groups, sessions, handlers>>

\* Broken variant: the timeout is forgotten and the session stays.
Tick_ForgetsSession(c) ==
  /\ c \in m_timeout /\ BatchDone(LoopOf[c])
  /\ m_timeout' = m_timeout \ {c}
  /\ UNCHANGED <<kernel, peers, threads, m_timeOutSe, m_session, m_groupID,
                 groups, handlers, history>>

\* CSessionMgr::Tick finds the time of a session over.
Tick(c) ==
  /\ c \in m_timeout /\ BatchDone(LoopOf[c])
  /\ m_timeout' = m_timeout \ {c}
  /\ DeleteSession(c)
  /\ UNCHANGED <<peers, threads, handlers>>

\* epoll_wait returns: every descriptor whose peer has closed or whose packet
\* is there, and any of the established ones, for the messages on them.
EpollWait(l, data) ==
  LET watched == {c \in epoll : LoopOf[c] = l}
      active  == {c \in watched : c \in gone \/ packet[c] = "unread"}
  IN
  /\ BatchDone(l)
  /\ data \subseteq watched \cap m_session
  /\ active \cup data # {}
  /\ ready' = [c \in Channels |->
       IF c \notin active \cup data THEN ready[c]
       ELSE IF c \in gone THEN "hup" ELSE "in"]
  /\ UNCHANGED <<kernel, peers, m_accfd, recv, moving, result, groups, sessions,
                 handlers, history>>

\* EPOLLRDHUP, EPOLLERR or EPOLLHUP.
HandleHup(c) ==
  /\ ready[c] = "hup" /\ recv[LoopOf[c]] = None
  /\ ready' = [ready EXCEPT ![c] = "none"]
  /\ DeleteSessionEx(c)
  /\ UNCHANGED <<peers, m_accfd, recv, moving, result, erasing, m_svr>>

\* EPOLLIN: Session::Recv begins to read.
HandleIn(c) ==
  /\ ready[c] = "in" /\ recv[LoopOf[c]] = None
  /\ ready' = [ready EXCEPT ![c] = "none"]
  /\ recv' = [recv EXCEPT ![LoopOf[c]] = c]
  /\ UNCHANGED <<kernel, peers, m_accfd, moving, result, groups, sessions,
                 handlers, history>>

JoinsGroup(c) == ~Plain(remote[c])

\* Recv reads the connection packet, and ConnectSuccess, holding
\* m_timeSeLock, takes the session out of m_timeOutSe and into its group.
ReadPacket(c) ==
  /\ Reading(c) /\ c \in m_timeOutSe /\ packet[c] = "unread"
  /\ JoinsGroup(c) => ~GroupFull(remote[c])
  /\ packet' = [packet EXCEPT ![c] = "read"]
  /\ m_timeOutSe' = m_timeOutSe \ {c}
  /\ IF JoinsGroup(c)
     THEN /\ AddGroupSession(remote[c], c)
          /\ m_groupID' = [m_groupID EXCEPT ![c] = GroupOf(remote[c], c)]
          /\ moving' = [moving EXCEPT
               ![c] = IF Completes(remote[c]) THEN "complete" ELSE "member"]
     ELSE /\ moving' = [moving EXCEPT ![c] = "complete"]
          /\ UNCHANGED <<groups, m_groupID>>
  /\ UNCHANGED <<open, remote, gone, epoll, peers, m_accfd, ready, recv,
                 result, m_timeout, m_session, handlers, history>>

\* Its group is full: ConnectSuccess returns eConMessageErr, and
\* Session::AddMessage deletes the session.
RefusePacket(c) ==
  /\ Reading(c) /\ c \in m_timeOutSe /\ packet[c] = "unread"
  /\ JoinsGroup(c) /\ GroupFull(remote[c])
  /\ m_timeout' = m_timeout \ {c}
  /\ CloseHandshake(c)
  /\ UNCHANGED <<peers, threads, handlers>>

\* The session that is read has been closed, and its descriptor is that of a
\* connection still in the pipe: Recv takes its packet, ConnectSuccess knows
\* no such session and returns eConnPacketErr, and there is none to delete.
StealPacket(c) ==
  /\ Reading(c) /\ c \in m_accfd /\ packet[c] = "unread"
  /\ packet' = [packet EXCEPT ![c] = "read"]
  /\ UNCHANGED <<open, remote, gone, epoll, peers, threads, groups, sessions,
                 handlers, history>>

\* Session::AddMessage announces a group by its id.
Announced(c) == IF m_groupID[c] # None THEN m_groupID[c] ELSE c

\* The second half of ConnectSuccess: the session enters m_session, where the
\* dispatchers can find it.
ConnectSuccess(c) ==
  /\ Reading(c) /\ c \in Moving
  /\ moving' = [moving EXCEPT ![c] = "no"]
  /\ m_timeout' = m_timeout \ {c}
  /\ m_session' = m_session \cup {c}
  /\ result' = [result EXCEPT ![LoopOf[c]] =
       [id |-> IF moving[c] = "complete" THEN "build" ELSE "continue",
        channel |-> Announced(c), remote |-> remote[c]]]
  /\ UNCHANGED <<kernel, peers, m_accfd, ready, recv, groups, m_timeOutSe,
                 m_groupID, handlers, history>>

\* EPOLL_CTL_MOD finds no such descriptor.  (Write gives up silently if the
\* session has been closed since.)
WriteFails(c) == c \in m_session \ epoll

\* Write of the answer (S2CMessage, S2CGroupMessage), whose failure DeleteSessionEx
\* posts with eCtlEpollErr: SystemErr makes eConnFailMessage of that.  Then
\* Session::AddMessage announces a plain connection, or a complete group.
Answer(c) ==
  LET r     == result[LoopOf[c]]
      deque == IF WriteFails(c) THEN Posted(m_deque, "failed", c, remote[c])
                                ELSE m_deque
  IN
  /\ recv[LoopOf[c]] = c /\ r # NoResult
  /\ result' = [result EXCEPT ![LoopOf[c]] = NoResult]
  /\ m_deque' = IF r.id = "build" THEN Posted(deque, "build", r.channel, r.remote)
                                  ELSE deque
  /\ UNCHANGED <<kernel, peers, m_accfd, ready, recv, moving, groups, sessions,
                 erasing, m_svr, history>>

\* recv returns 0, or fails: with EAGAIN, on a closed descriptor with EBADF.  A
\* descriptor still in the pipe is not yet non-blocking; there EAGAIN comes when
\* the second has passed that CAcceptor::Init sets as SO_RCVTIMEO.
RecvReturns(c) ==
  /\ Reading(c) /\ c \notin Moving /\ packet[c] # "unread"
  /\ recv' = [recv EXCEPT ![LoopOf[c]] = None]
  /\ IF c \in gone THEN DeleteSessionEx(c)
     ELSE UNCHANGED <<kernel, m_timeOutSe, m_timeout, m_session, m_groupID,
                      groups, m_deque, history>>
  /\ UNCHANGED <<peers, m_accfd, ready, moving, result, erasing, m_svr>>

-----------------------------------------------------------------------------
(***************************************************************************)
(* A dispatch thread, with the handlers of the DB server.  Each holds the  *)
(* lock of its map, m_gameLock or m_loginLock, until it ends.              *)
(***************************************************************************)

Handling(d) == Head(m_deque[d])

LockFree(d) ==
  \A e \in Dispatchers \ {d} :
    erasing[e] # None => Plain(Handling(e).remote) # Plain(Handling(d).remote)

\* Message_Facade::CloseChannel: a session in its handshake is closed first,
\* and loses its timeout afterwards.
CloseChannel(d, c) ==
  /\ DeleteSession(c)
  /\ IF c \in m_timeOutSe
     THEN erasing' = [erasing EXCEPT ![d] = c] /\ UNCHANGED m_deque
     ELSE m_deque' = [m_deque EXCEPT ![d] = Tail(@)] /\ UNCHANGED erasing

EraseTimeout(d) ==
  /\ erasing[d] # None
  /\ m_timeout' = m_timeout \ {erasing[d]}
  /\ robbed' = robbed \cup ({erasing[d]} \cap m_timeOutSe)
  /\ erasing' = [erasing EXCEPT ![d] = None]
  /\ m_deque' = [m_deque EXCEPT ![d] = Tail(@)]
  /\ UNCHANGED <<kernel, peers, threads, groups, m_timeOutSe, m_session,
                 m_groupID, m_svr, orphaned>>

Begin(d, id) ==
  /\ m_deque[d] # <<>> /\ erasing[d] = None
  /\ Handling(d).id = id /\ LockFree(d)

\* on_new_channel_build of a server that is not registered.
RegisterServer(d) ==
  /\ Begin(d, "build") /\ m_svr[Handling(d).remote] = None
  /\ m_svr' = [m_svr EXCEPT ![Handling(d).remote] = Handling(d).channel]
  /\ m_deque' = [m_deque EXCEPT ![d] = Tail(@)]
  /\ UNCHANGED <<kernel, peers, threads, groups, sessions, erasing, history>>

\* on_new_channel_build of one that is: "build again and closed".
BuildAgain(d) ==
  /\ Begin(d, "build") /\ m_svr[Handling(d).remote] # None
  /\ CloseChannel(d, Handling(d).channel)
  /\ UNCHANGED <<peers, threads, m_timeout, m_svr>>

\* Broken variant: the channel is not closed.
ChannelError_LeavesOpen(d) ==
  /\ Begin(d, "error")
  /\ m_svr' = [m_svr EXCEPT ![Handling(d).remote] = None]
  /\ m_deque' = [m_deque EXCEPT ![d] = Tail(@)]
  /\ UNCHANGED <<kernel, peers, threads, groups, sessions, erasing, history>>

\* on_connect_failed logs the message and does nothing else.
ConnectFailed(d) ==
  /\ m_deque[d] # <<>> /\ erasing[d] = None /\ Handling(d).id = "failed"
  /\ m_deque' = [m_deque EXCEPT ![d] = Tail(@)]
  /\ UNCHANGED <<kernel, peers, threads, groups, sessions, erasing, m_svr, history>>

\* on_channel_error.
ChannelError(d) ==
  /\ Begin(d, "error")
  /\ m_svr' = [m_svr EXCEPT ![Handling(d).remote] = None]
  /\ CloseChannel(d, Handling(d).channel)
  /\ UNCHANGED <<peers, threads, m_timeout>>

-----------------------------------------------------------------------------
Environment ==
  \/ \E k \in Remotes, c \in Channels : Connect(k, c)
  \/ \E c \in Channels : SendPacket(c) \/ PeerCloses(c)
  \/ \E k \in Remotes : PeerRestarts(k)

Receive(c) ==
  \/ HandleHup(c) \/ HandleIn(c) \/ ReadPacket(c) \/ RefusePacket(c)
  \/ StealPacket(c) \/ ConnectSuccess(c) \/ Answer(c) \/ RecvReturns(c)

Command(c) == Listen(c) \/ ListenFails(c)

Wait(l) == \E data \in SUBSET m_session : EpollWait(l, data)

Handle(d) ==
  \/ RegisterServer(d) \/ BuildAgain(d) \/ ConnectFailed(d)
  \/ ChannelError(d) \/ EraseTimeout(d)

Next ==
  \/ Environment
  \/ \E c \in Channels : Command(c) \/ Tick(c) \/ Receive(c)
  \/ \E l \in Loops : Wait(l)
  \/ \E d \in Dispatchers : Handle(d)

Spec == Init /\ [][Next]_vars

(***************************************************************************)
(* An epoll thread takes a command and looks at the timeouts in each turn  *)
(* of its loop, so each of them is taken although batches of events keep   *)
(* coming: strong fairness where a batch disables them.  The events of a   *)
(* batch, and the messages of a dispatcher, are handled one by one.        *)
(* Nothing is assumed of the remote servers.                               *)
(***************************************************************************)
Fairness ==
  /\ \A c \in Channels : SF_vars(Command(c)) /\ SF_vars(Tick(c))
                         /\ WF_vars(Receive(c))
  /\ \A l \in Loops : WF_vars(\E data \in SUBSET m_session :
                                 EpollWait(l, data))
  /\ \A d \in Dispatchers : WF_vars(Handle(d))

FairSpec == Spec /\ Fairness

-----------------------------------------------------------------------------
(* What the sessions promise. *)

\* CSessionMgr: an open descriptor is in the pipe, in its handshake, between
\* the two, or established, and only one of these; a descriptor that any of
\* them holds is open.  Otherwise it leaks, or a stranger's is closed.
EveryDescriptorHasOneOwner ==
  /\ open = m_accfd \cup m_timeOutSe \cup Moving \cup m_session
  /\ m_accfd \cap (m_timeOutSe \cup Moving \cup m_session) = {}
  /\ m_timeOutSe \cap (Moving \cup m_session) = {}
  /\ Moving \cap m_session = {}

\* AddGroupSession and DeleteGroupSession: the members that BindSession hands
\* out are sessions (or about to be), and know that they are in this group.
GroupMembersAreLive ==
  \A g \in Channels : \A c \in Members(g) :
    c \in Moving \cup m_session /\ m_groupID[c] = g

\* BindGroupChannel: the channel bound to a key of a server's group is a
\* connection with that server.
BoundChannelIsOfServer ==
  \A k \in Remotes :
    m_group[k] # None => \A c \in BindSession(m_group[k]) : remote[c] = k

\* AddTimerSessionEx, Tick: a session in its handshake has a timeout, unless
\* it was robbed of it by a dispatcher that was still deleting its predecessor.
HandshakeHasDeadline == m_timeOutSe \subseteq m_timeout \cup robbed

\* DeleteSessionEx, on_channel_error: a connection whose peer has closed is
\* closed in the end, unless a dispatcher took it out of epoll between the two
\* halves of ConnectSuccess.  No event of such a one is reported any more, and
\* the error that writing the answer to it posts is one that closes nothing.
DeadChannelIsClosed ==
  \A c \in Channels : c \in gone ~> c \notin gone \/ c \in orphaned

\* Tick: a connection leaves the handshake in the end, whatever its peer does,
\* unless it was robbed of its timeout.
HandshakeEnds ==
  \A c \in Channels : c \in m_timeOutSe ~> c \notin m_timeOutSe \/ c \in robbed
=============================================================================
