--------------------------- MODULE SessionMgr_proof ---------------------------
(***************************************************************************)
(* Proofs about SessionMgr, for any descriptors, servers, group sizes and  *)
(* threads.                                                                *)
(*                                                                         *)
(* A step does one of a few things to the sessions, whoever takes it: it   *)
(* accepts a connection, lists it, takes it into its group, establishes    *)
(* it, or closes it.  The lemmas of the first part say what each of these  *)
(* preserves; those of the second that every action does one of them.      *)
(***************************************************************************)
EXTENDS SessionMgr, TLAPS

\* The state that tells where a descriptor is.
CoreType ==
  /\ GroupTypeOK
  /\ open \subseteq Channels /\ gone \subseteq Channels
  /\ epoll \subseteq Channels /\ m_accfd \subseteq Channels
  /\ remote \in [Channels -> Remotes \cup {None}]
  /\ packet \in [Channels -> {"unsent", "unread", "read"}]
  /\ moving \in [Channels -> {"no", "member", "complete"}]
  /\ m_timeOutSe \subseteq Channels /\ m_session \subseteq Channels
  /\ m_groupID \in [Channels -> Groups]
  /\ orphaned \subseteq Channels

\* A dispatcher that has a timeout to erase is still handling a message.
Queues ==
  /\ m_deque \in [Dispatchers -> Seq(Messages)]
  /\ erasing \in [Dispatchers -> Groups]
  /\ \A d \in Dispatchers : erasing[d] # None => m_deque[d] # <<>>

\* The state of the threads, and of the timeouts.
ThreadType ==
  /\ opened \in [Remotes -> Nat] /\ connections \in Nat
  /\ ready \in [Channels -> {"none", "in", "hup"}]
  /\ recv \in [Loops -> Groups]
  /\ result \in [Loops -> Results \cup {NoResult}]
  /\ m_timeout \subseteq Channels /\ robbed \subseteq Channels
  /\ m_svr \in [Remotes -> Groups]
  /\ Queues

LEMMA TypeParts == CoreType /\ ThreadType => TypeOK
BY DEF TypeOK, CoreType, ThreadType, Queues

\* A descriptor in use is a connection with some remote server.
OpenHasRemote == \A c \in open : remote[c] # None

Core ==
  /\ CoreType /\ EveryDescriptorHasOneOwner /\ OpenHasRemote
  /\ GroupMembersAreLive

IInv == Core /\ ThreadType /\ HandshakeHasDeadline

-----------------------------------------------------------------------------
\* What becomes of the groups.

LEMMA GroupMember ==
  ASSUME CoreType, NEW g \in Channels
  PROVE  Members(g) \subseteq Channels
BY DEF CoreType, GroupTypeOK, GroupSessionInfo, Members

LEMMA GroupDelete ==
  ASSUME CoreType, NEW g \in Channels, NEW c \in Channels,
         DeleteGroupSession(g, c)
  PROVE  /\ GroupTypeOK'
         /\ Members(g)' = Members(g) \ {c}
         /\ \A h \in Channels \ {g} : Members(h)' = Members(h)
<1>1. Members(g) \ {c} \in SUBSET Channels
  BY GroupMember
<1>2. m_groupChannel' = [m_groupChannel EXCEPT ![g].channel = Members(g) \ {c}]
  BY DEF DeleteGroupSession
<1>3. m_group' \in [Remotes -> Groups]
  BY DEF DeleteGroupSession, CoreType, GroupTypeOK, Groups
<1> QED BY <1>1, <1>2, <1>3
        DEF CoreType, GroupTypeOK, GroupSessionInfo, Members

LEMMA GroupAdd ==
  ASSUME CoreType, NEW k \in Remotes, NEW c \in Channels,
         NEW g, g = GroupOf(k, c), AddGroupSession(k, c)
  PROVE  /\ GroupTypeOK'
         /\ g \in Channels
         /\ c \in Members(g)'
         /\ \/ m_group[k] = None /\ Members(g)' = {c}
            \/ m_group[k] = g /\ Members(g)' = Members(g) \cup {c}
         /\ \A h \in Channels \ {g} : Members(h)' = Members(h)
         /\ m_group' = [m_group EXCEPT ![k] = g]
<1>1. m_group[k] \in Channels \cup {None} /\ None \notin Channels
  BY GroupAssumption DEF CoreType, GroupTypeOK, Groups, None
<1>2. /\ m_groupChannel \in [Channels -> GroupSessionInfo]
      /\ m_group \in [Remotes -> Groups]
  BY DEF CoreType, GroupTypeOK
<1>3. CASE FoundGroup(k, c)
  <2>1. /\ m_groupChannel' = [m_groupChannel EXCEPT
             ![c] = [channel |-> {c}, count |-> GroupCount[k]]]
        /\ m_group' = [m_group EXCEPT ![k] = c]
        /\ g = c /\ m_group[k] = None
    BY <1>3 DEF FoundGroup, GroupOf
  <2>2. [channel |-> {c}, count |-> GroupCount[k]] \in GroupSessionInfo
    BY GroupAssumption DEF GroupSessionInfo
  <2>3. /\ Members(c)' = {c}
        /\ \A h \in Channels \ {c} : Members(h)' = Members(h)
    BY <1>2, <2>1 DEF Members
  <2>4. GroupTypeOK'
    BY <1>2, <2>1, <2>2 DEF GroupTypeOK, Groups
  <2> QED BY <2>1, <2>3, <2>4
<1>4. CASE JoinGroup(k, c)
  <2>1. /\ m_groupChannel' = [m_groupChannel EXCEPT ![g].channel = @ \cup {c}]
        /\ m_group' = m_group /\ m_group[k] = g
        /\ g \in Channels
    BY <1>1, <1>4 DEF JoinGroup, GroupOf
  <2>2. m_groupChannel' \in [Channels -> GroupSessionInfo]
    BY <1>2, <2>1 DEF GroupSessionInfo
  <2>3. /\ Members(g)' = Members(g) \cup {c}
        /\ \A h \in Channels \ {g} : Members(h)' = Members(h)
    BY <1>2, <2>1 DEF Members, GroupSessionInfo
  <2> QED BY <1>2, <2>1, <2>2, <2>3 DEF GroupTypeOK
<1> QED BY <1>3, <1>4 DEF AddGroupSession

-----------------------------------------------------------------------------
\* What a step may do to the sessions.

places == <<open, remote, m_accfd, moving, m_timeOutSe, m_session>>

\* Nothing moves, and the memberships stay.
Still == UNCHANGED <<places, groups, m_groupID>>

LEMMA StillCore ==
  ASSUME Core, Still,
         gone' \subseteq Channels, epoll' \subseteq Channels,
         packet' \in [Channels -> {"unsent", "unread", "read"}],
         orphaned' \subseteq Channels
  PROVE  Core'
<1> USE DEF Core, Still, places, groups
<1>1. CoreType'
  BY DEF CoreType, GroupTypeOK
<1>2. EveryDescriptorHasOneOwner' /\ OpenHasRemote'
  BY DEF EveryDescriptorHasOneOwner, OpenHasRemote, Moving
<1>3. GroupMembersAreLive'
  BY DEF GroupMembersAreLive, Members, Moving
<1> QED BY <1>1, <1>2, <1>3

\* A closed descriptor is in none of the places and in none of the groups.
LEMMA DeleteSessionCore ==
  ASSUME Core, NEW c \in Channels, DeleteSession(c),
         UNCHANGED <<m_accfd, moving>>
  PROVE  Core'
<1> USE DEF Core
<1>0. None \notin Channels /\ None \in Groups
  BY GroupAssumption DEF None, Groups
<1>1. CASE CloseHandshake(c)
  <2> USE <1>1 DEF CloseHandshake, Close
  <2>1. CoreType'
    BY DEF CoreType, GroupTypeOK, groups
  <2>2. EveryDescriptorHasOneOwner'
    BY DEF EveryDescriptorHasOneOwner, Moving
  <2>3. OpenHasRemote'
    BY DEF OpenHasRemote, CoreType
  <2>4. GroupMembersAreLive'
    BY DEF GroupMembersAreLive, Members, Moving, groups
  <2> QED BY <2>1, <2>2, <2>3, <2>4
<1>2. CASE CloseEstablished(c)
  <2> USE <1>2 DEF CloseEstablished, Close
  <2>1. /\ GroupTypeOK'
        /\ \A h \in Channels : Members(h)' \subseteq Members(h) \ {c}
    <3>1. CASE m_groupID[c] = None
      <4>1. \A h \in Channels : c \notin Members(h)
        BY <3>1, <1>0 DEF GroupMembersAreLive
      <4> QED BY <3>1, <4>1 DEF CoreType, GroupTypeOK, Members, groups
    <3>2. CASE m_groupID[c] # None
      <4>1. m_groupID[c] \in Channels /\ DeleteGroupSession(m_groupID[c], c)
        BY <3>2 DEF CoreType, Groups
      <4>2. \A h \in Channels \ {m_groupID[c]} : c \notin Members(h)
        BY DEF GroupMembersAreLive
      <4>3. PICK g \in Channels : g = m_groupID[c]
        BY <4>1
      <4>4. /\ GroupTypeOK'
            /\ Members(g)' = Members(g) \ {c}
            /\ \A h \in Channels \ {g} : Members(h)' = Members(h)
        BY <4>1, <4>3, GroupDelete
      <4> QED BY <4>2, <4>3, <4>4
    <3> QED BY <3>1, <3>2
  <2>2. CoreType'
    BY <2>1 DEF CoreType
  <2>3. EveryDescriptorHasOneOwner'
    BY DEF EveryDescriptorHasOneOwner, Moving
  <2>4. OpenHasRemote'
    BY DEF OpenHasRemote, CoreType
  <2>5. GroupMembersAreLive'
    BY <2>1 DEF GroupMembersAreLive, Moving
  <2> QED BY <2>2, <2>3, <2>4, <2>5
<1>3. CASE CloseNothing(c)
  BY <1>3, StillCore DEF CloseNothing, Still, places, groups, CoreType
<1> QED BY <1>1, <1>2, <1>3 DEF DeleteSession

LEMMA DeleteSessionExCore ==
  ASSUME Core, NEW c \in Channels, DeleteSessionEx(c),
         UNCHANGED <<m_accfd, moving>>
  PROVE  Core'
<1>1. CASE CloseHandshake(c)
  BY <1>1, DeleteSessionCore DEF DeleteSession
<1>2. CASE ~CloseHandshake(c)
  BY <1>2, StillCore
     DEF DeleteSessionEx, Still, places, groups, history, Core, CoreType
<1> QED BY <1>1, <1>2

LEMMA ConnectCore ==
  ASSUME Core, NEW k \in Remotes, NEW c \in Channels, Connect(k, c)
  PROVE  Core'
<1> USE DEF Core, Connect
<1>1. k # None
  BY GroupAssumption DEF None
<1>2. CoreType'
  BY DEF CoreType, GroupTypeOK, groups, sessions, history
<1>3. EveryDescriptorHasOneOwner'
  BY DEF EveryDescriptorHasOneOwner, Moving, sessions
<1>4. OpenHasRemote'
  BY <1>1 DEF OpenHasRemote, CoreType
<1>5. GroupMembersAreLive'
  BY DEF GroupMembersAreLive, Members, Moving, groups, sessions
<1> QED BY <1>2, <1>3, <1>4, <1>5

LEMMA CommandCore ==
  ASSUME Core, NEW c \in Channels, Command(c)
  PROVE  Core'
<1> USE DEF Core
<1>1. CASE Listen(c)
  <2> USE <1>1 DEF Listen
  <2>1. None \in Groups
    BY DEF Groups
  <2>2. CoreType'
    BY <2>1 DEF CoreType, GroupTypeOK, groups, history
  <2>3. EveryDescriptorHasOneOwner'
    BY DEF EveryDescriptorHasOneOwner, Moving
  <2>4. OpenHasRemote'
    BY DEF OpenHasRemote
  <2>5. \A g \in Channels : Members(g)' = Members(g) /\ c \notin Members(g)
    BY DEF GroupMembersAreLive, EveryDescriptorHasOneOwner, Members, groups
  <2>6. GroupMembersAreLive'
    BY <2>5 DEF GroupMembersAreLive, Moving, CoreType
  <2> QED BY <2>2, <2>3, <2>4, <2>6
<1>2. CASE ListenFails(c)
  <2> USE <1>2 DEF ListenFails, Close, sessions
  <2>1. CoreType'
    BY DEF CoreType, GroupTypeOK, groups
  <2>2. EveryDescriptorHasOneOwner'
    BY DEF EveryDescriptorHasOneOwner, Moving
  <2>3. OpenHasRemote'
    BY DEF OpenHasRemote, CoreType
  <2>4. GroupMembersAreLive'
    BY DEF GroupMembersAreLive, Members, Moving, groups
  <2> QED BY <2>1, <2>2, <2>3, <2>4
<1> QED BY <1>1, <1>2 DEF Command

LEMMA ReadPacketCore ==
  ASSUME Core, NEW c \in Channels, ReadPacket(c)
  PROVE  Core'
<1> USE DEF Core
<1>1. PICK k \in Remotes : k = remote[c]
  BY DEF ReadPacket, CoreType, OpenHasRemote, EveryDescriptorHasOneOwner
<1>2. /\ c \in m_timeOutSe /\ m_timeOutSe' = m_timeOutSe \ {c}
      /\ packet' = [packet EXCEPT ![c] = "read"]
      /\ UNCHANGED <<open, remote, gone, epoll, m_accfd, m_session, orphaned>>
  BY DEF ReadPacket, history
<1>3. PICK m \in {"member", "complete"} : moving' = [moving EXCEPT ![c] = m]
  BY DEF ReadPacket
<1>4. EveryDescriptorHasOneOwner'
  BY <1>2, <1>3 DEF EveryDescriptorHasOneOwner, Moving, CoreType
<1>5. OpenHasRemote'
  BY <1>2 DEF OpenHasRemote
<1>6. \A g \in Channels : c \notin Members(g)
  BY <1>2 DEF GroupMembersAreLive, EveryDescriptorHasOneOwner
<1>7. CASE JoinsGroup(c)
  <2>1. PICK g : g = GroupOf(k, c)
    OBVIOUS
  <2>2. AddGroupSession(k, c) /\ m_groupID' = [m_groupID EXCEPT ![c] = g]
    BY <1>1, <1>7, <2>1 DEF ReadPacket
  <2>3. /\ GroupTypeOK'
        /\ g \in Channels
        /\ Members(g)' \subseteq Members(g) \cup {c}
        /\ \A h \in Channels \ {g} : Members(h)' = Members(h)
    BY <2>1, <2>2, GroupAdd
  <2>4. CoreType'
    BY <1>2, <1>3, <2>2, <2>3 DEF CoreType, Groups
  <2>5. GroupMembersAreLive'
    <3> SUFFICES ASSUME NEW h \in Channels, NEW x \in Members(h)'
                 PROVE  x \in (Moving \cup m_session)' /\ m_groupID'[x] = h
      BY DEF GroupMembersAreLive
    <3>1. CASE x = c
      BY <1>2, <1>3, <1>6, <2>2, <2>3, <3>1 DEF CoreType, Moving
    <3>2. CASE x # c
      <4>1. x \in Members(h)
        BY <2>3, <3>2
      <4>2. x \in Moving \cup m_session /\ m_groupID[x] = h /\ x \in Channels
        BY <4>1, GroupMember DEF GroupMembersAreLive
      <4> QED BY <1>2, <1>3, <2>2, <3>2, <4>2 DEF CoreType, Moving
    <3> QED BY <3>1, <3>2
  <2> QED BY <1>4, <1>5, <2>4, <2>5
<1>8. CASE ~JoinsGroup(c)
  <2>1. UNCHANGED <<groups, m_groupID>>
    BY <1>8 DEF ReadPacket
  <2>2. CoreType'
    BY <1>2, <1>3, <2>1 DEF CoreType, GroupTypeOK, groups
  <2>3. GroupMembersAreLive'
    BY <1>2, <1>3, <2>1 DEF GroupMembersAreLive, Members, Moving, groups,
                            CoreType
  <2> QED BY <1>4, <1>5, <2>2, <2>3
<1> QED BY <1>7, <1>8

LEMMA ConnectSuccessCore ==
  ASSUME Core, NEW c \in Channels, ConnectSuccess(c)
  PROVE  Core'
<1> USE DEF Core, ConnectSuccess
<1>1. CoreType'
  BY DEF CoreType, GroupTypeOK, groups, kernel, history
<1>2. EveryDescriptorHasOneOwner'
  BY DEF EveryDescriptorHasOneOwner, Moving, kernel, CoreType
<1>3. OpenHasRemote'
  BY DEF OpenHasRemote, kernel
<1>4. GroupMembersAreLive'
  BY DEF GroupMembersAreLive, Members, Moving, groups, CoreType
<1> QED BY <1>1, <1>2, <1>3, <1>4

-----------------------------------------------------------------------------
\* The messages to the dispatchers, and the deadlines.

LEMMA PostedType ==
  ASSUME NEW q \in [Dispatchers -> Seq(Messages)],
         NEW id \in {"build", "error", "failed"}, NEW c \in Channels,
         NEW k \in Remotes
  PROVE  /\ Posted(q, id, c, k) \in [Dispatchers -> Seq(Messages)]
         /\ \A d \in Dispatchers : q[d] # <<>> => Posted(q, id, c, k)[d] # <<>>
<1>1. DispatcherOf[c] \in Dispatchers
  BY ThreadAssumption
<1>2. [id |-> id, channel |-> c, remote |-> k] \in Messages
  BY DEF Messages
<1>3. q[DispatcherOf[c]] \in Seq(Messages)
  BY <1>1
<1>4. \A s \in Seq(Messages), m \in Messages :
        Append(s, m) \in Seq(Messages) /\ Append(s, m) # <<>>
  OBVIOUS
<1> QED BY <1>2, <1>3, <1>4 DEF Posted

LEMMA PostedQueues ==
  ASSUME ThreadType, NEW id \in {"build", "error", "failed"}, NEW c \in Channels,
         NEW k \in Remotes, SystemErr(id, c, k), UNCHANGED erasing
  PROVE  Queues'
BY PostedType DEF SystemErr, ThreadType, Queues

LEMMA Handled ==
  ASSUME ThreadType, NEW d \in Dispatchers, m_deque[d] # <<>>
  PROVE  /\ Handling(d).channel \in Channels /\ Handling(d).remote \in Remotes
         /\ [m_deque EXCEPT ![d] = Tail(@)] \in [Dispatchers -> Seq(Messages)]
<1>1. m_deque[d] \in Seq(Messages) /\ m_deque \in [Dispatchers -> Seq(Messages)]
  BY DEF ThreadType, Queues
<1>2. Head(m_deque[d]) \in Messages /\ Tail(m_deque[d]) \in Seq(Messages)
  BY <1>1
<1> QED BY <1>1, <1>2 DEF Handling, Messages

\* A session in its handshake keeps its deadline whoever else is deleted.
LEMMA DeleteSessionDeadline ==
  ASSUME CoreType, HandshakeHasDeadline, NEW c \in Channels, DeleteSession(c),
         m_timeout \ {c} \subseteq m_timeout'
  PROVE  HandshakeHasDeadline'
<1> USE DEF HandshakeHasDeadline
<1>1. CASE CloseHandshake(c)
  BY <1>1 DEF CloseHandshake, Close
<1>2. CASE CloseEstablished(c)
  BY <1>2 DEF CloseEstablished, Close
<1>3. CASE CloseNothing(c)
  BY <1>3 DEF CloseNothing
<1> QED BY <1>1, <1>2, <1>3 DEF DeleteSession

LEMMA RobbedType ==
  ASSUME ThreadType, NEW c, DeleteSession(c)
  PROVE  robbed' \subseteq Channels
BY DEF ThreadType, DeleteSession, CloseHandshake, CloseEstablished,
       CloseNothing, Close

LEMMA DeleteSessionExThread ==
  ASSUME Core, ThreadType, HandshakeHasDeadline, NEW c \in Channels,
         DeleteSessionEx(c), UNCHANGED erasing
  PROVE  /\ Queues'
         /\ m_timeout' \subseteq Channels /\ robbed' \subseteq Channels
         /\ HandshakeHasDeadline'
<1>1. CASE CloseHandshake(c) /\ m_timeout' = m_timeout \ {c}
           /\ UNCHANGED m_deque
  <2>1. DeleteSession(c)
    BY <1>1 DEF DeleteSession
  <2> QED BY <1>1, <2>1, DeleteSessionDeadline, RobbedType
          DEF ThreadType, Queues, Core
<1>2. CASE ~(CloseHandshake(c) /\ m_timeout' = m_timeout \ {c}
             /\ UNCHANGED m_deque)
  <2>1. /\ UNCHANGED <<m_timeOutSe, m_timeout, robbed>>
        /\ \/ c \in m_session /\ SystemErr("error", c, remote[c])
           \/ UNCHANGED m_deque
    BY <1>2 DEF DeleteSessionEx, history
  <2>2. c \in m_session => remote[c] \in Remotes
    BY DEF Core, CoreType, OpenHasRemote, EveryDescriptorHasOneOwner
  <2>3. Queues'
    BY <2>1, <2>2, PostedQueues DEF ThreadType, Queues
  <2> QED BY <2>1, <2>3 DEF HandshakeHasDeadline, ThreadType
<1> QED BY <1>1, <1>2

\* Answer posts none, one or both of its messages.
LEMMA AnswerThread ==
  ASSUME Core, ThreadType, NEW c \in Channels, Answer(c)
  PROVE  ThreadType'
<1> DEFINE r     == result[LoopOf[c]]
           deque == IF WriteFails(c) THEN Posted(m_deque, "failed", c, remote[c])
                                     ELSE m_deque
<1>1. r \in Results
  BY ThreadAssumption DEF Answer, ThreadType
<1>2. r.channel \in Channels /\ r.remote \in Remotes
  BY <1>1 DEF Results
<1>3. WriteFails(c) => remote[c] \in Remotes
  BY DEF WriteFails, Core, CoreType, OpenHasRemote, EveryDescriptorHasOneOwner
<1>4. /\ deque \in [Dispatchers -> Seq(Messages)]
      /\ \A d \in Dispatchers : m_deque[d] # <<>> => deque[d] # <<>>
  BY <1>3, PostedType DEF ThreadType, Queues
<1>5. m_deque' = IF r.id = "build" THEN Posted(deque, "build", r.channel, r.remote)
                                   ELSE deque
  BY DEF Answer
<1>6. /\ m_deque' \in [Dispatchers -> Seq(Messages)]
      /\ \A d \in Dispatchers : deque[d] # <<>> => m_deque'[d] # <<>>
  <2> HIDE DEF deque, r
  <2> QED BY <1>2, <1>4, <1>5, PostedType
<1>7. Queues'
  BY <1>4, <1>6 DEF Answer, ThreadType, Queues
<1>8. result' \in [Loops -> Results \cup {NoResult}]
  BY DEF Answer, ThreadType
<1> QED BY <1>7, <1>8 DEF Answer, ThreadType, peers, sessions, history

-----------------------------------------------------------------------------
\* The actions preserve the invariant.

LEMMA EnvironmentInv ==
  ASSUME IInv, Environment
  PROVE  IInv'
<1> USE DEF IInv
<1>1. CASE \E k \in Remotes, c \in Channels : Connect(k, c)
  <2> PICK k \in Remotes, c \in Channels : Connect(k, c)
    BY <1>1
  <2>1. Core'
    BY ConnectCore
  <2>2. ThreadType'
    <3>1. opened[k] \in Nat /\ connections \in Nat /\ GroupCount[k] \in Nat
      BY GroupAssumption DEF ThreadType
    <3>2. opened' \in [Remotes -> Nat] /\ connections' \in Nat
      BY <3>1 DEF Connect, ThreadType
    <3> QED BY <3>2 DEF Connect, ThreadType, Queues, sessions, handlers, history
  <2>3. HandshakeHasDeadline'
    BY DEF HandshakeHasDeadline, Connect, sessions, history
  <2> QED BY <2>1, <2>2, <2>3
<1>2. CASE \E c \in Channels : SendPacket(c) \/ PeerCloses(c)
  <2> PICK c \in Channels : SendPacket(c) \/ PeerCloses(c)
    BY <1>2
  <2>1. Core'
    BY StillCore DEF SendPacket, PeerCloses, Still, places, threads, sessions,
                     history, Core, CoreType
  <2>2. ThreadType'
    BY DEF SendPacket, PeerCloses, ThreadType, Queues, peers, threads, sessions,
           handlers, history
  <2>3. HandshakeHasDeadline'
    BY DEF HandshakeHasDeadline, SendPacket, PeerCloses, sessions, history
  <2> QED BY <2>1, <2>2, <2>3
<1>3. CASE \E k \in Remotes : PeerRestarts(k)
  <2> PICK k \in Remotes : PeerRestarts(k)
    BY <1>3
  <2>1. Core'
    BY StillCore DEF PeerRestarts, Still, places, threads, sessions, history,
                     Core, CoreType
  <2>2. opened' \in [Remotes -> Nat]
    BY DEF PeerRestarts, ThreadType
  <2>3. ThreadType'
    BY <2>2 DEF PeerRestarts, ThreadType, Queues, threads, sessions, handlers,
                history
  <2>4. HandshakeHasDeadline'
    BY DEF HandshakeHasDeadline, PeerRestarts, sessions, history
  <2> QED BY <2>1, <2>3, <2>4
<1> QED BY <1>1, <1>2, <1>3 DEF Environment

LEMMA CommandInv ==
  ASSUME IInv, NEW c \in Channels, Command(c)
  PROVE  IInv'
<1> USE DEF IInv
<1>1. Core'
  BY CommandCore
<1>2. CASE Listen(c)
  BY <1>1, <1>2 DEF Listen, ThreadType, Queues, HandshakeHasDeadline, peers,
                    handlers, history
<1>3. CASE ListenFails(c)
  <2>1. ThreadType'
    BY <1>3 DEF ListenFails, Close, ThreadType, Queues, peers, handlers,
                sessions
  <2>2. c \notin m_timeOutSe
    BY <1>3 DEF ListenFails, Core, EveryDescriptorHasOneOwner
  <2>3. HandshakeHasDeadline'
    BY <1>3, <2>2 DEF ListenFails, Close, HandshakeHasDeadline, sessions
  <2> QED BY <1>1, <2>1, <2>3
<1> QED BY <1>2, <1>3 DEF Command

LEMMA TickInv ==
  ASSUME IInv, NEW c \in Channels, Tick(c)
  PROVE  IInv'
<1> USE DEF IInv
<1>1. Core'
  BY DeleteSessionCore DEF Tick, threads
<1>2. robbed' \subseteq Channels
  BY RobbedType DEF Tick
<1>3. ThreadType'
  BY <1>2 DEF Tick, ThreadType, Queues, peers, threads, handlers
<1>4. HandshakeHasDeadline'
  BY DeleteSessionDeadline DEF Tick, Core
<1> QED BY <1>1, <1>3, <1>4

LEMMA ReceiveInv ==
  ASSUME IInv, NEW c \in Channels, Receive(c)
  PROVE  IInv'
<1> USE DEF IInv
<1>1. CASE HandleHup(c)
  <2>1. Core'
    BY <1>1, DeleteSessionExCore DEF HandleHup
  <2>2. ready' \in [Channels -> {"none", "in", "hup"}]
    BY <1>1 DEF HandleHup, ThreadType
  <2> QED BY <1>1, <2>1, <2>2, DeleteSessionExThread
          DEF HandleHup, ThreadType, Queues, peers
<1>2. CASE HandleIn(c)
  <2>1. Core'
    BY <1>2, StillCore DEF HandleIn, Still, places, kernel, sessions, history,
                           Core, CoreType
  <2>2. /\ ready' \in [Channels -> {"none", "in", "hup"}]
        /\ recv' \in [Loops -> Groups]
    BY <1>2 DEF HandleIn, ThreadType, Groups
  <2>3. ThreadType'
    BY <1>2, <2>2 DEF HandleIn, ThreadType, Queues, peers, sessions, handlers,
                      history
  <2>4. HandshakeHasDeadline'
    BY <1>2 DEF HandleIn, HandshakeHasDeadline, sessions, history
  <2> QED BY <2>1, <2>3, <2>4
<1>3. CASE ReadPacket(c)
  <2>1. Core'
    BY <1>3, ReadPacketCore
  <2>2. ThreadType'
    BY <1>3 DEF ReadPacket, ThreadType, Queues, peers, handlers, history
  <2>3. HandshakeHasDeadline'
    BY <1>3 DEF ReadPacket, HandshakeHasDeadline, history
  <2> QED BY <2>1, <2>2, <2>3
<1>4. CASE RefusePacket(c)
  <2>1. DeleteSession(c)
    BY <1>4 DEF RefusePacket, DeleteSession
  <2>2. Core'
    BY <1>4, <2>1, DeleteSessionCore DEF RefusePacket, threads
  <2>3. robbed' \subseteq Channels
    BY <2>1, RobbedType
  <2>4. ThreadType'
    BY <1>4, <2>3 DEF RefusePacket, ThreadType, Queues, peers, threads, handlers
  <2>5. HandshakeHasDeadline'
    BY <1>4, <2>1, DeleteSessionDeadline DEF RefusePacket, Core
  <2> QED BY <2>2, <2>4, <2>5
<1>5. CASE StealPacket(c)
  <2>1. Core'
    BY <1>5, StillCore DEF StealPacket, Still, places, threads, sessions,
                           history, Core, CoreType
  <2>2. ThreadType'
    BY <1>5 DEF StealPacket, ThreadType, Queues, peers, threads, sessions,
                handlers, history
  <2>3. HandshakeHasDeadline'
    BY <1>5 DEF StealPacket, HandshakeHasDeadline, sessions, history
  <2> QED BY <2>1, <2>2, <2>3
<1>6. CASE ConnectSuccess(c)
  <2>1. Core'
    BY <1>6, ConnectSuccessCore
  <2>2. Announced(c) \in Channels
    BY DEF Announced, Core, CoreType, Groups
  <2>3. remote[c] \in Remotes /\ c \notin m_timeOutSe
    BY <1>6 DEF ConnectSuccess, Core, CoreType, OpenHasRemote,
                EveryDescriptorHasOneOwner
  <2>4. PICK r \in Results : result' = [result EXCEPT ![LoopOf[c]] = r]
    <3> DEFINE id == IF moving[c] = "complete" THEN "build" ELSE "continue"
    <3>1. [id |-> id, channel |-> Announced(c), remote |-> remote[c]] \in Results
      BY <2>2, <2>3 DEF Results
    <3> QED BY <1>6, <3>1 DEF ConnectSuccess
  <2>5. ThreadType'
    BY <1>6, <2>4 DEF ConnectSuccess, ThreadType, Queues, peers, handlers,
                      history
  <2>6. HandshakeHasDeadline'
    BY <1>6, <2>3 DEF ConnectSuccess, HandshakeHasDeadline, history
  <2> QED BY <2>1, <2>5, <2>6
<1>7. CASE Answer(c)
  <2>1. Core'
    BY <1>7, StillCore DEF Answer, Still, places, kernel, sessions, history,
                           Core, CoreType
  <2>2. ThreadType'
    BY <1>7, AnswerThread DEF Core
  <2>3. HandshakeHasDeadline'
    BY <1>7 DEF Answer, HandshakeHasDeadline, sessions, history
  <2> QED BY <2>1, <2>2, <2>3
<1>8. CASE RecvReturns(c)
  <2>1. recv' \in [Loops -> Groups]
    BY <1>8 DEF RecvReturns, ThreadType, Groups
  <2>2. CASE c \in gone
    <3>1. DeleteSessionEx(c)
      BY <1>8, <2>2 DEF RecvReturns
    <3>2. Core'
      BY <1>8, <3>1, DeleteSessionExCore DEF RecvReturns
    <3> QED BY <1>8, <2>1, <3>1, <3>2, DeleteSessionExThread
            DEF RecvReturns, ThreadType, Queues, peers
  <2>3. CASE c \notin gone
    <3>1. UNCHANGED <<kernel, m_timeOutSe, m_timeout, m_session, m_groupID,
                      groups, m_deque, history>>
      BY <1>8, <2>3 DEF RecvReturns
    <3>2. Core'
      BY <1>8, <3>1, StillCore DEF RecvReturns, Still, places, kernel, history,
                                   Core, CoreType
    <3>3. ThreadType'
      BY <1>8, <2>1, <3>1 DEF RecvReturns, ThreadType, Queues, peers, history
    <3> QED BY <3>1, <3>2, <3>3 DEF HandshakeHasDeadline, history
  <2> QED BY <2>2, <2>3
<1> QED BY <1>1, <1>2, <1>3, <1>4, <1>5, <1>6, <1>7, <1>8 DEF Receive

LEMMA WaitInv ==
  ASSUME IInv, NEW l \in Loops, Wait(l)
  PROVE  IInv'
<1> USE DEF IInv
<1> PICK data : EpollWait(l, data)
  BY DEF Wait
<1>1. UNCHANGED <<kernel, peers, m_accfd, recv, moving, result, groups,
                  sessions, handlers, history>>
  BY DEF EpollWait
<1>2. Core'
  BY <1>1, StillCore DEF Still, places, kernel, sessions, history, Core,
                         CoreType
<1>3. ready' \in [Channels -> {"none", "in", "hup"}]
  BY DEF EpollWait, ThreadType
<1>4. ThreadType'
  BY <1>1, <1>3 DEF ThreadType, Queues, peers, sessions, handlers, history
<1> QED BY <1>1, <1>2, <1>4 DEF HandshakeHasDeadline, sessions, history

\* CloseChannel, whatever else its handler does.
LEMMA CloseChannelInv ==
  ASSUME IInv, NEW d \in Dispatchers, m_deque[d] # <<>>,
         erasing[d] = None, CloseChannel(d, Handling(d).channel),
         UNCHANGED <<peers, threads, m_timeout>>,
         m_svr' \in [Remotes -> Groups]
  PROVE  IInv'
<1> USE DEF IInv
<1> PICK c \in Channels : c = Handling(d).channel
  BY Handled
<1>1. /\ DeleteSession(c)
      /\ \/ m_deque' = [m_deque EXCEPT ![d] = Tail(@)] /\ erasing' = erasing
         \/ m_deque' = m_deque /\ erasing' = [erasing EXCEPT ![d] = c]
  BY DEF CloseChannel
<1>2. Core'
  BY <1>1, DeleteSessionCore DEF threads
<1>3. Queues'
  BY <1>1, Handled DEF ThreadType, Queues, Groups
<1>4. robbed' \subseteq Channels
  BY <1>1, RobbedType
<1>5. ThreadType'
  BY <1>3, <1>4 DEF ThreadType, Queues, peers, threads
<1>6. HandshakeHasDeadline'
  BY <1>1, DeleteSessionDeadline DEF Core
<1> QED BY <1>2, <1>5, <1>6

LEMMA HandleInv ==
  ASSUME IInv, NEW d \in Dispatchers, Handle(d)
  PROVE  IInv'
<1> USE DEF IInv
<1>1. CASE RegisterServer(d)
  <2>1. m_svr' \in [Remotes -> Groups] /\ Queues'
    BY <1>1, Handled DEF RegisterServer, Begin, ThreadType, Queues, Groups
  <2>2. Core'
    BY <1>1, StillCore DEF RegisterServer, Still, places, kernel, threads,
                           sessions, history, Core, CoreType
  <2>3. ThreadType'
    BY <1>1, <2>1 DEF RegisterServer, ThreadType, Queues, peers, threads,
                      sessions, history
  <2>4. HandshakeHasDeadline'
    BY <1>1 DEF RegisterServer, HandshakeHasDeadline, sessions, history
  <2> QED BY <2>2, <2>3, <2>4
<1>2. CASE BuildAgain(d)
  BY <1>2, CloseChannelInv DEF BuildAgain, Begin, ThreadType
<1>3. CASE ChannelError(d)
  <2>1. m_deque[d] # <<>> /\ erasing[d] = None /\ None \in Groups
    BY <1>3 DEF ChannelError, Begin, Groups
  <2>2. m_svr' \in [Remotes -> Groups]
    BY <1>3, <2>1 DEF ChannelError, ThreadType
  <2> QED BY <1>3, <2>1, <2>2, CloseChannelInv DEF ChannelError
<1>4. CASE ConnectFailed(d)
  <2>1. Queues'
    BY <1>4, Handled DEF ConnectFailed, ThreadType, Queues
  <2>2. Core'
    BY <1>4, StillCore DEF ConnectFailed, Still, places, kernel, threads,
                           sessions, history, Core, CoreType
  <2>3. ThreadType'
    BY <1>4, <2>1 DEF ConnectFailed, ThreadType, peers, threads, sessions, history
  <2>4. HandshakeHasDeadline'
    BY <1>4 DEF ConnectFailed, HandshakeHasDeadline, sessions, history
  <2> QED BY <2>2, <2>3, <2>4
<1>5. CASE EraseTimeout(d)
  <2>1. Core'
    BY <1>5, StillCore DEF EraseTimeout, Still, places, kernel, threads, Core,
                           CoreType
  <2>2. erasing' = [erasing EXCEPT ![d] = None] /\ None \in Groups
    BY <1>5 DEF EraseTimeout, Groups
  <2>3. m_deque[d] # <<>> /\ m_deque' = [m_deque EXCEPT ![d] = Tail(@)]
    BY <1>5 DEF EraseTimeout, ThreadType, Queues
  <2>4. Queues'
    BY <2>2, <2>3, Handled DEF ThreadType, Queues
  <2>5. m_timeout' \subseteq Channels /\ robbed' \subseteq Channels
    BY <1>5 DEF EraseTimeout, ThreadType, Core, CoreType
  <2>6. ThreadType'
    BY <1>5, <2>4, <2>5 DEF EraseTimeout, ThreadType, Queues, peers, threads
  <2>7. HandshakeHasDeadline'
    BY <1>5 DEF EraseTimeout, HandshakeHasDeadline
  <2> QED BY <2>1, <2>6, <2>7
<1> QED BY <1>1, <1>2, <1>3, <1>4, <1>5 DEF Handle

-----------------------------------------------------------------------------
\* The invariant holds, and what follows from it.

LEMMA InitInv == Init => IInv
<1> SUFFICES ASSUME Init PROVE IInv
  OBVIOUS
<1> USE DEF Init, GroupInit
<1>1. /\ None \in Groups /\ NoInfo \in GroupSessionInfo
      /\ <<>> \in Seq(Messages)
  BY DEF Groups, NoInfo, GroupSessionInfo
<1>2. CoreType
  BY <1>1 DEF CoreType, GroupTypeOK
<1>3. ThreadType
  BY <1>1 DEF ThreadType, Queues
<1>4. EveryDescriptorHasOneOwner /\ OpenHasRemote /\ HandshakeHasDeadline
  BY DEF EveryDescriptorHasOneOwner, OpenHasRemote, HandshakeHasDeadline, Moving
<1>5. GroupMembersAreLive
  BY DEF GroupMembersAreLive, Members, NoInfo
<1> QED BY <1>2, <1>3, <1>4, <1>5 DEF IInv, Core

LEMMA StutterInv ==
  ASSUME IInv, UNCHANGED vars
  PROVE  IInv'
<1> USE DEF IInv, vars, kernel, peers, threads, groups, sessions, handlers,
            history
<1>1. Core'
  BY StillCore DEF Still, places, Core, CoreType
<1>2. ThreadType' /\ HandshakeHasDeadline'
  BY DEF ThreadType, Queues, HandshakeHasDeadline
<1> QED BY <1>1, <1>2

LEMMA NextInv == IInv /\ [Next]_vars => IInv'
<1> SUFFICES ASSUME IInv, [Next]_vars PROVE IInv'
  OBVIOUS
<1>1. CASE Environment
  BY <1>1, EnvironmentInv
<1>2. CASE \E c \in Channels : Command(c) \/ Tick(c) \/ Receive(c)
  BY <1>2, CommandInv, TickInv, ReceiveInv
<1>3. CASE \E l \in Loops : Wait(l)
  BY <1>3, WaitInv
<1>4. CASE \E d \in Dispatchers : Handle(d)
  BY <1>4, HandleInv
<1>5. CASE UNCHANGED vars
  BY <1>5, StutterInv
<1> QED BY <1>1, <1>2, <1>3, <1>4, <1>5 DEF Next

\* The inductive invariant of the sessions: where each descriptor is, who is
\* at its other end, and whose member it is.
THEOREM InvariantHolds == Spec => []IInv
BY InitInv, NextInv, PTL DEF Spec

\* CSessionMgr, CEpollLoop, the dispatchers: every variable keeps its type; in
\* particular a message names a server, and a group is a descriptor.
THEOREM TypesHold == Spec => []TypeOK
<1>1. IInv => TypeOK
  BY TypeParts DEF IInv, Core
<1> QED BY <1>1, InvariantHolds, PTL

\* ConnectSuccess, DeleteSession, DeleteSessionEx: no order of commands,
\* timeouts, events and handlers leaks a descriptor or closes a stranger's.
THEOREM DescriptorsHaveOneOwner == Spec => []EveryDescriptorHasOneOwner
<1>1. IInv => EveryDescriptorHasOneOwner
  BY DEF IInv, Core
<1> QED BY <1>1, InvariantHolds, PTL

\* AddGroupSession, DeleteGroupSession: BindSession never hands out a member
\* that is closed or that belongs to another group.
THEOREM GroupMembersLive == Spec => []GroupMembersAreLive
<1>1. IInv => GroupMembersAreLive
  BY DEF IInv, Core
<1> QED BY <1>1, InvariantHolds, PTL

\* AddTimerSessionEx, Tick, DeleteSession: only a dispatcher that still erases
\* the timeout of its predecessor can leave a handshake without a deadline.
THEOREM HandshakesHaveDeadline == Spec => []HandshakeHasDeadline
<1>1. IInv => HandshakeHasDeadline
  BY DEF IInv
<1> QED BY <1>1, InvariantHolds, PTL

-----------------------------------------------------------------------------
(***************************************************************************)
(* If at most one remote server opens a group of connections, as in the    *)
(* configuration of the repository, the id of a group is as good as the    *)
(* name of that server.  (With two of them TLC shows it is not.)           *)
(***************************************************************************)

OneGroupOnly == \A j, k \in Remotes : ~Plain(j) /\ ~Plain(k) => j = k

\* A descriptor enters its handshake without a group; a live session that has
\* one is its member, and the group is that of its server; and a group that a
\* server has is not empty.
GroupIsOfServer ==
  /\ \A c \in m_timeOutSe : m_groupID[c] = None
  /\ \A c \in Moving \cup m_session : m_groupID[c] # None =>
       /\ c \in Members(m_groupID[c]) /\ ~Plain(remote[c])
       /\ m_group[remote[c]] = m_groupID[c]
  /\ \A k \in Remotes : m_group[k] # None =>
       ~Plain(k) /\ Members(m_group[k]) # {}

LEMMA StillGroup ==
  ASSUME GroupIsOfServer, Still
  PROVE  GroupIsOfServer'
BY DEF GroupIsOfServer, Still, places, groups, Members, Moving

LEMMA LastMemberLeaves ==
  ASSUME OneGroupOnly, Core, GroupIsOfServer, NEW g \in Channels,
         NEW c \in Channels, DeleteGroupSession(g, c),
         NEW k \in Remotes, m_group[k] # None
  PROVE  m_group'[k] = IF m_group[k] = g /\ Members(g) \ {c} = {}
                       THEN None ELSE m_group[k]
<1>1. ASSUME m_group[k] = g
      PROVE  FirstKey(g) = {k}
  <2>1. g # None /\ k \in Nat
    BY GroupAssumption DEF None
  <2>2. \A j \in Remotes : m_group[j] = g => j = k
    BY <1>1, <2>1 DEF OneGroupOnly, GroupIsOfServer
  <2>3. k <= k
    BY <2>1
  <2> QED BY <1>1, <2>2, <2>3 DEF FirstKey
<1>2. m_group[k] # g => k \notin FirstKey(g)
  BY DEF FirstKey
<1> QED BY <1>1, <1>2 DEF DeleteGroupSession

LEMMA DeleteSessionGroup ==
  ASSUME OneGroupOnly, Core, GroupIsOfServer, NEW c \in Channels,
         DeleteSession(c), UNCHANGED <<m_accfd, moving>>
  PROVE  GroupIsOfServer'
<1>1. CASE CloseHandshake(c)
  <2>1. c \notin Moving \cup m_session
    BY <1>1 DEF CloseHandshake, Core, EveryDescriptorHasOneOwner
  <2> QED BY <1>1, <2>1 DEF CloseHandshake, Close, GroupIsOfServer, Members,
                            Moving, groups, Core, CoreType
<1>2. CASE CloseEstablished(c)
  <2>1. /\ m_session' = m_session \ {c} /\ Moving' = Moving
        /\ c \notin Moving \cup m_timeOutSe
        /\ m_timeOutSe' = m_timeOutSe /\ m_groupID' = m_groupID
        /\ \A x \in Channels \ {c} : remote'[x] = remote[x]
    BY <1>2 DEF CloseEstablished, Close, Moving, Core, CoreType,
                EveryDescriptorHasOneOwner
  <2>2. CASE m_groupID[c] = None
    BY <1>2, <2>1, <2>2 DEF CloseEstablished, GroupIsOfServer, Members, groups,
                            Core, CoreType, Moving
  <2>3. CASE m_groupID[c] # None
    <3>1. PICK g \in Channels : g = m_groupID[c]
      BY <2>3 DEF Core, CoreType, Groups
    <3>2. DeleteGroupSession(g, c)
      BY <1>2, <2>3, <3>1 DEF CloseEstablished
    <3>3. /\ Members(g)' = Members(g) \ {c}
          /\ \A h \in Channels \ {g} : Members(h)' = Members(h)
      BY <3>2, GroupDelete DEF Core
    <3>4. \A k \in Remotes : m_group[k] # None =>
            m_group'[k] = IF m_group[k] = g /\ Members(g) \ {c} = {}
                          THEN None ELSE m_group[k]
      BY <3>2, LastMemberLeaves
    <3>5. \A k \in Remotes : m_group[k] = None => m_group'[k] = None
      BY <3>2 DEF DeleteGroupSession
    <3>6. \A k \in Remotes : m_group'[k] # None =>
            ~Plain(k) /\ m_groupChannel'[m_group'[k]].channel # {}
      <4> SUFFICES ASSUME NEW k \in Remotes, m_group'[k] # None
                   PROVE  ~Plain(k) /\ m_groupChannel'[m_group'[k]].channel # {}
        OBVIOUS
      <4>1. /\ m_group[k] # None /\ m_group'[k] = m_group[k]
            /\ ~(m_group[k] = g /\ Members(g) \ {c} = {})
        BY <3>4, <3>5
      <4>2. PICK h \in Channels : h = m_group[k]
        BY <4>1 DEF Core, CoreType, GroupTypeOK, Groups
      <4>3. Members(h)' # {} /\ ~Plain(k)
        BY <3>3, <4>1, <4>2 DEF GroupIsOfServer
      <4> QED BY <4>1, <4>2, <4>3 DEF Members
    <3>7. \A x \in (Moving \cup m_session)' : m_groupID'[x] # None =>
            /\ x \in m_groupChannel'[m_groupID'[x]].channel
            /\ ~Plain(remote'[x]) /\ m_group'[remote'[x]] = m_groupID'[x]
      <4> SUFFICES ASSUME NEW x \in Moving \cup m_session, x # c,
                          m_groupID[x] # None
                   PROVE  /\ x \in m_groupChannel'[m_groupID[x]].channel
                          /\ ~Plain(remote[x])
                          /\ m_group'[remote[x]] = m_groupID[x]
        BY <2>1 DEF Core, CoreType, Moving
      <4>1. x \in Channels /\ remote[x] \in Remotes
        BY DEF Core, CoreType, Moving, OpenHasRemote, EveryDescriptorHasOneOwner
      <4>2. PICK h \in Channels : h = m_groupID[x]
        BY <4>1 DEF Core, CoreType, Groups
      <4>3. x \in Members(h) /\ ~Plain(remote[x]) /\ m_group[remote[x]] = h
        BY <4>2 DEF GroupIsOfServer
      <4>4. x \in Members(h)'
        BY <3>3, <4>3
      <4>5. m_group'[remote[x]] = h
        BY <3>4, <4>1, <4>2, <4>3
      <4> QED BY <4>2, <4>3, <4>4, <4>5 DEF Members
    <3> QED BY <2>1, <3>6, <3>7 DEF GroupIsOfServer, Members
  <2> QED BY <2>2, <2>3
<1>3. CASE CloseNothing(c)
  BY <1>3, StillGroup DEF CloseNothing, Still, places
<1> QED BY <1>1, <1>2, <1>3 DEF DeleteSession

LEMMA DeleteSessionExGroup ==
  ASSUME OneGroupOnly, Core, GroupIsOfServer, NEW c \in Channels,
         DeleteSessionEx(c), UNCHANGED <<m_accfd, moving>>
  PROVE  GroupIsOfServer'
<1>1. CASE CloseHandshake(c)
  BY <1>1, DeleteSessionGroup DEF DeleteSession
<1>2. CASE ~CloseHandshake(c)
  BY <1>2, StillGroup DEF DeleteSessionEx, Still, places
<1> QED BY <1>1, <1>2

LEMMA ReadPacketGroup ==
  ASSUME OneGroupOnly, Core, GroupIsOfServer, NEW c \in Channels, ReadPacket(c)
  PROVE  GroupIsOfServer'
<1>1. PICK k \in Remotes : k = remote[c]
  BY DEF ReadPacket, Core, CoreType, OpenHasRemote, EveryDescriptorHasOneOwner
<1>2. /\ c \in m_timeOutSe /\ m_timeOutSe' = m_timeOutSe \ {c}
      /\ m_groupID[c] = None /\ c \notin Moving \cup m_session
      /\ UNCHANGED <<remote, m_session>>
  BY DEF ReadPacket, GroupIsOfServer, Core, EveryDescriptorHasOneOwner
<1>3. Moving' = Moving \cup {c}
  <2>1. PICK m \in {"member", "complete"} : moving' = [moving EXCEPT ![c] = m]
    BY DEF ReadPacket
  <2> QED BY <2>1 DEF Moving, Core, CoreType
<1>4. CASE JoinsGroup(c)
  <2>1. PICK g : g = GroupOf(k, c)
    OBVIOUS
  <2>2. AddGroupSession(k, c) /\ m_groupID' = [m_groupID EXCEPT ![c] = g]
    BY <1>1, <1>4, <2>1 DEF ReadPacket
  <2>3. /\ g \in Channels
        /\ c \in Members(g)'
        /\ \/ m_group[k] = None /\ Members(g)' = {c}
           \/ m_group[k] = g /\ Members(g)' = Members(g) \cup {c}
        /\ \A h \in Channels \ {g} : Members(h)' = Members(h)
        /\ m_group' = [m_group EXCEPT ![k] = g]
    BY <2>1, <2>2, GroupAdd DEF Core
  <2>4. ~Plain(k)
    BY <1>1, <1>4 DEF JoinsGroup
  <2>5. \A j \in Remotes \ {k} : m_group[j] = None /\ m_group'[j] = None
    BY <2>3, <2>4 DEF OneGroupOnly, GroupIsOfServer, Core, CoreType, GroupTypeOK
  <2>6. m_group'[k] = g
    BY <2>3 DEF Core, CoreType, GroupTypeOK
  <2>7. \A x \in m_timeOutSe' : m_groupID'[x] = None
    BY <1>2, <2>2 DEF GroupIsOfServer, Core, CoreType
  <2>8. \A x \in Moving \cup m_session : m_groupID[x] # None =>
          m_groupID[x] = g /\ remote[x] = k /\ x \in Members(g)'
    <3> SUFFICES ASSUME NEW x \in Moving \cup m_session, m_groupID[x] # None
                 PROVE  m_groupID[x] = g /\ remote[x] = k /\ x \in Members(g)'
      OBVIOUS
    <3>1. x \in Channels /\ remote[x] \in Remotes
      BY DEF Core, CoreType, Moving, OpenHasRemote, EveryDescriptorHasOneOwner
    <3>2. /\ x \in Members(m_groupID[x]) /\ ~Plain(remote[x])
          /\ m_group[remote[x]] = m_groupID[x]
      BY DEF GroupIsOfServer
    <3>3. remote[x] = k
      BY <2>4, <3>1, <3>2 DEF OneGroupOnly
    <3> QED BY <2>3, <3>2, <3>3
  <2>9. \A x \in (Moving \cup m_session)' : m_groupID'[x] # None =>
          /\ m_groupID'[x] = g /\ remote'[x] = k
          /\ x \in m_groupChannel'[g].channel
    <3> SUFFICES ASSUME NEW x \in Moving \cup m_session \cup {c},
                        m_groupID'[x] # None
                 PROVE  /\ m_groupID'[x] = g /\ remote[x] = k
                        /\ x \in Members(g)'
      BY <1>2, <1>3 DEF Members
    <3>1. CASE x = c
      BY <1>1, <2>2, <2>3, <3>1 DEF Core, CoreType
    <3>2. CASE x # c
      BY <2>2, <2>8, <3>2 DEF Core, CoreType, Moving
    <3> QED BY <3>1, <3>2
  <2>10. \A j \in Remotes : m_group'[j] # None =>
           ~Plain(j) /\ m_groupChannel'[m_group'[j]].channel # {}
    BY <2>3, <2>4, <2>5, <2>6 DEF Members
  <2> QED BY <2>4, <2>6, <2>7, <2>9, <2>10 DEF GroupIsOfServer, Members
<1>5. CASE ~JoinsGroup(c)
  <2>1. UNCHANGED <<groups, m_groupID>>
    BY <1>5 DEF ReadPacket
  <2> QED BY <1>2, <1>3, <2>1 DEF GroupIsOfServer, Members, groups
<1> QED BY <1>4, <1>5

LEMMA OtherGroup ==
  ASSUME Core, GroupIsOfServer, NEW c \in Channels,
         \/ \E k \in Remotes : Connect(k, c)
         \/ Command(c)
         \/ ConnectSuccess(c)
  PROVE  GroupIsOfServer'
<1> USE DEF GroupIsOfServer, Members, Core
<1>1. CASE \E k \in Remotes : Connect(k, c)
  BY <1>1 DEF Connect, Moving, groups, sessions, CoreType,
              EveryDescriptorHasOneOwner
<1>2. CASE Listen(c)
  BY <1>2 DEF Listen, Moving, groups, CoreType, EveryDescriptorHasOneOwner
<1>3. CASE ListenFails(c)
  BY <1>3 DEF ListenFails, Close, Moving, groups, sessions, CoreType,
              EveryDescriptorHasOneOwner
<1>4. CASE ConnectSuccess(c)
  BY <1>4 DEF ConnectSuccess, Moving, kernel, groups, CoreType
<1> QED BY <1>1, <1>2, <1>3, <1>4 DEF Command

LEMMA NextGroup ==
  ASSUME OneGroupOnly, IInv, GroupIsOfServer, [Next]_vars
  PROVE  GroupIsOfServer'
<1> USE DEF IInv
<1>1. CASE Environment
  BY <1>1, StillGroup, OtherGroup
     DEF Environment, SendPacket, PeerCloses, PeerRestarts, Still, places,
         threads, sessions
<1>2. ASSUME NEW c \in Channels, Command(c)
      PROVE  GroupIsOfServer'
  BY <1>2, OtherGroup
<1>3. ASSUME NEW c \in Channels, Tick(c)
      PROVE  GroupIsOfServer'
  BY <1>3, DeleteSessionGroup DEF Tick, threads
<1>4. ASSUME NEW c \in Channels, Receive(c)
      PROVE  GroupIsOfServer'
  <2>1. CASE HandleHup(c)
    BY <2>1, DeleteSessionExGroup DEF HandleHup
  <2>2. CASE HandleIn(c) \/ StealPacket(c)
    BY <2>2, StillGroup DEF HandleIn, StealPacket, Still, places, kernel,
                            threads, sessions
  <2>3. CASE ReadPacket(c)
    BY <2>3, ReadPacketGroup
  <2>4. CASE RefusePacket(c)
    BY <2>4, DeleteSessionGroup DEF RefusePacket, DeleteSession, threads
  <2>5. CASE ConnectSuccess(c)
    BY <2>5, OtherGroup
  <2>6. CASE RecvReturns(c)
    <3>1. CASE c \in gone
      BY <2>6, <3>1, DeleteSessionExGroup DEF RecvReturns
    <3>2. CASE c \notin gone
      BY <2>6, <3>2, StillGroup DEF RecvReturns, Still, places, kernel
    <3> QED BY <3>1, <3>2
  <2>7. CASE Answer(c)
    BY <2>7, StillGroup DEF Answer, Still, places, kernel, sessions
  <2> QED BY <1>4, <2>1, <2>2, <2>3, <2>4, <2>5, <2>6, <2>7 DEF Receive
<1>5. ASSUME NEW l \in Loops, Wait(l)
      PROVE  GroupIsOfServer'
  BY <1>5, StillGroup DEF Wait, EpollWait, Still, places, kernel, sessions
<1>6. ASSUME NEW d \in Dispatchers, Handle(d)
      PROVE  GroupIsOfServer'
  <2>1. CASE RegisterServer(d) \/ ConnectFailed(d) \/ EraseTimeout(d)
    BY <2>1, StillGroup DEF RegisterServer, ConnectFailed, EraseTimeout, Still,
                            places, kernel, threads, sessions
  <2>2. CASE BuildAgain(d) \/ ChannelError(d)
    <3>1. PICK c \in Channels : c = Handling(d).channel
      BY <2>2, Handled DEF BuildAgain, ChannelError, Begin
    <3>2. DeleteSession(c) /\ UNCHANGED <<m_accfd, moving>>
      BY <2>2, <3>1 DEF BuildAgain, ChannelError, CloseChannel, threads
    <3> QED BY <3>2, DeleteSessionGroup
  <2> QED BY <1>6, <2>1, <2>2 DEF Handle
<1>7. CASE UNCHANGED vars
  BY <1>7, StillGroup DEF vars, Still, places, kernel, threads, sessions
<1> QED BY <1>1, <1>2, <1>3, <1>4, <1>5, <1>6, <1>7 DEF Next

LEMMA InitGroup == Init => GroupIsOfServer
BY DEF Init, GroupInit, GroupIsOfServer, Moving

LEMMA GroupChannelIsOfServer ==
  OneGroupOnly /\ Core /\ GroupIsOfServer => BoundChannelIsOfServer
<1> SUFFICES ASSUME OneGroupOnly, Core, GroupIsOfServer,
                    NEW k \in Remotes, m_group[k] # None,
                    NEW c \in BindSession(m_group[k])
             PROVE  remote[c] = k
  BY DEF BoundChannelIsOfServer
<1>1. PICK g \in Channels : g = m_group[k]
  BY DEF Core, CoreType, GroupTypeOK, Groups
<1>2. c \in Members(g) /\ ~Plain(k)
  BY <1>1 DEF GroupIsOfServer, BindSession
<1>3. c \in Moving \cup m_session /\ m_groupID[c] = g /\ g # None
  BY <1>1, <1>2 DEF Core, GroupMembersAreLive
<1>4. ~Plain(remote[c]) /\ remote[c] \in Remotes
  BY <1>3 DEF GroupIsOfServer, Core, CoreType, Moving, OpenHasRemote,
              EveryDescriptorHasOneOwner
<1> QED BY <1>2, <1>4 DEF OneGroupOnly

\* AddGroupSession, DeleteGroupSession, BindSession: with one group, a key is
\* bound to a connection with the group's own server, however many of its
\* connections have broken and whatever became of their descriptors.
THEOREM OneGroupIsOfItsServer ==
  ASSUME OneGroupOnly
  PROVE  Spec => []BoundChannelIsOfServer
<1>1. IInv /\ GroupIsOfServer /\ [Next]_vars => GroupIsOfServer'
  BY NextGroup
<1>2. IInv /\ GroupIsOfServer => BoundChannelIsOfServer
  BY GroupChannelIsOfServer DEF IInv
<1> QED BY <1>1, <1>2, InitGroup, InvariantHolds, PTL DEF Spec
=============================================================================
