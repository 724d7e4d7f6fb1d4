-------------------------------- MODULE Parts --------------------------------
(***************************************************************************)
(* The parts of the libraries and servers that are used on their own:      *)
(* those of SharedParts, the tools of ToolParts, and what messages pass on *)
(* their way, the servers' own network (CommBase/Network), what the gate   *)
(* passes on, and antlib's connections and parsers with the login service  *)
(* that uses them.  Which part runs is chosen at the start, and the others *)
(* stay as they are.                                                       *)
(***************************************************************************)
EXTENDS SharedParts, ToolParts

CONSTANTS
  \* NetStream, TcpConn
  Streams, HEAD, FIRST, TcpSlots, TCPQUEUE_NODE, MaxTcpMsgs, MaxIds,
  \* LoginService
  LoginNames, LoginGroup, Clients, DBConnections,
  \* ServerConnect, GateForward, SessionRecv
  SocketIDs, Remotes, GroupCount, ConfigOf, ReConnect,
  Nothing, Chars, ClientChannels, ClientAsks, MaxQueue, MaxAsked, MaxConnect,
  Lengths, HEADER, DIGEST, MAX, MaxFrames

VARIABLES
  stream, arrived, _buf, _begin, _msgoff, _msg, at, up, parsed, lostPlace, cause,
  _list, ids, tcpBox, userBox, made, _used, queuedBy, sentBy, known, astray, tcpCrashed,
  rows, _users, groupQueue, serves, wants_, answer, free, _isuse, _netid, gateUp, toGate,
  fromGate, popping, expired, torn, loginCrashed,
  m_conn, it, listening, link, watched, m_confd, m_timeOutSe, m_sessionTime, m_session,
  m_groupID, posted, told, m_group, m_groupChannel,
  peer, gone, channelQueue, m_connectList, m_loginTime, toClose, forwarding, pending,
  answering, gotAnswers, inherited, connections,
  from, to, m_security, packets, unread, fin, event, m_bufRecv, receiving, vec, heard,
  open, lost, skewed, garbled

streamVars == <<stream, arrived, _buf, _begin, _msgoff, _msg, at, up, parsed, lostPlace,
                cause>>
tcpVars == <<_list, ids, tcpBox, userBox, made, _used, queuedBy, sentBy, known, astray,
             tcpCrashed>>
loginVars == <<rows, _users, groupQueue, serves, wants_, answer, free, _isuse, _netid,
               gateUp, toGate, fromGate, popping, expired, torn, loginCrashed>>
connectVars == <<m_conn, it, listening, link, watched, m_confd, m_timeOutSe, m_sessionTime,
                 m_session, m_groupID, posted, told, m_group, m_groupChannel>>
forwardVars == <<peer, gone, channelQueue, m_connectList, m_loginTime, toClose, forwarding,
                 pending, answering, gotAnswers, inherited, connections>>
recvVars == <<from, to, m_security, packets, unread, fin, event, m_bufRecv, receiving, vec,
              heard, open, lost, skewed, garbled>>

Stream == INSTANCE NetStream WITH skewed <- lostPlace
Tcp == INSTANCE TcpConn WITH
  Slots <- TcpSlots, MaxMsgs <- MaxTcpMsgs, told <- known, crashed <- tcpCrashed
Login == INSTANCE LoginService WITH
  Names <- LoginNames, Group <- LoginGroup, queue <- groupQueue, doing <- serves,
  asked <- wants_, crashed <- loginCrashed
Connect == INSTANCE ServerConnect WITH Channels <- SocketIDs, m_timeout <- m_sessionTime
Forward == INSTANCE GateForward WITH
  Channels <- ClientChannels, None <- Nothing, Asks <- ClientAsks,
  queue <- channelQueue, m_timeout <- m_loginTime, got <- gotAnswers
Receiver == INSTANCE SessionRecv

NetPartNames ==
  {"streams", "tcp", "login", "connect", "forward", "receive"}

NetInit ==
  /\ Stream!StreamInit /\ (part # "streams" => stream = CHOOSE s \in Streams : TRUE)
  /\ Tcp!TcpInit
  /\ Login!LoginInit /\ (part # "login" => rows = {} /\ _isuse = 1 /\ _netid = "zero")
  /\ Connect!ConnectInit /\ (part # "connect" => listening = {})
  /\ Forward!ForwardInit
  /\ Receiver!RecvInit /\ (part # "receive" => from = 0 /\ to = 1 /\ ~m_security)

\* Only the variables of part p change.
NetRuns(p) ==
  /\ part = p /\ part' = part
  /\ IF p = "streams" THEN TRUE ELSE UNCHANGED streamVars
  /\ IF p = "tcp" THEN TRUE ELSE UNCHANGED tcpVars
  /\ IF p = "login" THEN TRUE ELSE UNCHANGED loginVars
  /\ IF p = "connect" THEN TRUE ELSE UNCHANGED connectVars
  /\ IF p = "forward" THEN TRUE ELSE UNCHANGED forwardVars
  /\ IF p = "receive" THEN TRUE ELSE UNCHANGED recvVars

NetNext ==
  \/ NetRuns("streams") /\ Stream!StreamNext
  \/ NetRuns("tcp") /\ Tcp!TcpNext
  \/ NetRuns("login") /\ Login!LoginNext
  \/ NetRuns("connect") /\ Connect!ConnectNext
  \/ NetRuns("forward") /\ Forward!ForwardNext
  \/ NetRuns("receive") /\ Receiver!RecvNext

netVars == <<streamVars, tcpVars, loginVars, connectVars, forwardVars, recvVars>>

PartNames == SharedPartNames \cup NetPartNames \cup {"tools"}

Init ==
  /\ part \in PartNames
  /\ SharedInit
  /\ NetInit
  /\ ToolInit /\ (part # "tools" => tool = "log" /\ \A t \in DOMAIN file : file[t].open)

Tools == part = "tools" /\ UNCHANGED <<sharedVars, netVars>> /\ ToolNext

TimerThread == (SharedRuns("timers") \/ SharedRuns("single timers")) /\ Wheel!TimerThread
MainLoop == SharedRuns("single timers") /\ Wheel!MainLoop
ConnectThread == NetRuns("connect") /\ Connect!ConnectThread
PushThread(t) == ToolRuns("queue") /\ Queue!PushStep(t)
HandlerThread(t) == ToolRuns("queue") /\ Queue!PopStep(t)
MainThread == ToolRuns("handlers") /\ Lib!MainThread
LibThread(k) == ToolRuns("handlers") /\ Lib!HandlerThread(k)

Next ==
  \/ SharedNext /\ UNCHANGED <<netVars, toolVars>>
  \/ NetNext /\ UNCHANGED <<sharedVars, toolVars>>
  \/ Tools

vars == <<sharedVars, netVars, toolVars>>

Spec == Init /\ [][Next]_vars

FairSpec ==
  /\ Spec
  /\ WF_timerVars(TimerThread) /\ WF_timerVars(MainLoop)
  /\ WF_connectVars(ConnectThread)
  /\ \A t \in Pushers : WF_queueVars(PushThread(t))
  /\ \A t \in Poppers : WF_queueVars(HandlerThread(t))
  /\ WF_libVars(MainThread)
  /\ \A k \in UNION {1 .. n : n \in ThreadsNum} : WF_libVars(LibThread(k))

-----------------------------------------------------------------------------
NetTypeOK ==
  CASE part = "streams" -> Stream!StreamTypeOK
    [] part = "tcp" -> Tcp!TcpTypeOK
    [] part = "login" -> Login!LoginTypeOK
    [] part = "connect" -> Connect!ConnectTypeOK
    [] part = "forward" -> Forward!ForwardTypeOK
    [] part = "receive" -> Receiver!RecvTypeOK

\* Between the ends of a connection nothing is lost, doubled, turned round or
\* given to somebody else, but by the accidents the parts name: what streams
\* bring, however they are cut, what a connection has queued, the answers of
\* the login service and of the gate, and who is told of a connection.
NetworkInOrder ==
  /\ part = "streams" => Stream!MessagesAsSent
  /\ part = "receive" => Receiver!MessagesHeard
  /\ part = "tcp" => Tcp!SentInOrder /\ Tcp!QueuedIsArmed /\ Tcp!UsesCounted
  /\ part = "login" => Login!LoginsAccounted
  /\ part = "forward" => Forward!AnswersReachTheirPlayer
  /\ part = "connect" => Connect!SocketsInPlace /\ Connect!AnnouncedWhole

\* Type invariant of the part that runs.
TypeOK ==
  CASE part \in SharedPartNames -> SharedTypeOK
    [] part \in NetPartNames -> NetTypeOK
    [] part = "tools" -> ToolTypeOK

\* What thread k of the part that runs has still to do: timers that are due
\* and not cancelled, fired an odd or even number of times, what was sent to a
\* handler, sockets that wait although their server listens, and a start or
\* a stop of the threads.
Outstanding(k) ==
  \/ /\ part \in {"timers", "single timers"} /\ k \in {1, 2}
     /\ \E t \in Timers : Wheel!Due(t) /\ fired[t] = (k = 1)
  \/ part = "tools" /\ tool = "queue" /\ k = 1 /\ ~Queue!AllHandled
  \/ part = "connect" /\ k \in DOMAIN ConfigOf /\ Connect!Unserved(k)
  \/ part = "tools" /\ tool = "handlers" /\ k = 1 /\ Lib!Unhandled
  \/ part = "tools" /\ tool = "handlers" /\ k = 2 /\ Lib!Changing

\* What is due is done in the end: a timer is called back, each time, a message
\* is handled, a socket is connected, or given up, or its server is gone, and
\* handlers are started and stopped.
WorkIsDone == \A k \in DOMAIN ConfigOf \cup {1, 2} : []<>~Outstanding(k)
=============================================================================
