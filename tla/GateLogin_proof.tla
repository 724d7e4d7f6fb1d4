--------------------------- MODULE GateLogin_proof ---------------------------
(***************************************************************************)
(* Proofs about GateLogin, for any characters, game servers, descriptors   *)
(* and bounds.                                                             *)
(***************************************************************************)
EXTENDS GateLogin, SequenceTheorems, TLAPS

(***************************************************************************)
(* ChannelAccounted is inductive beside the types, once an entry whose     *)
(* time is up is known to be there.                                        *)
(***************************************************************************)
DueHaveEntries == \A a \in dueEntry : m_timeout[a] # None

TypeInv == TypeOK /\ DueHaveEntries
IInv    == TypeInv /\ ChannelAccounted

LEMMA InitIInv == Init => IInv
<1> SUFFICES ASSUME Init PROVE IInv
  OBVIOUS
<1>1. /\ queue \in [Channels -> Seq(Messages)]
      /\ connections \in 0 .. MaxConnect
  BY ConstantsAssumption DEF Init
<1>2. TypeOK
  BY <1>1 DEF Init, TypeOK
<1>3. DueHaveEntries /\ ChannelAccounted
  BY ConstantsAssumption DEF Init, DueHaveEntries, ChannelAccounted, Peers
<1> QED BY <1>2, <1>3 DEF IInv, TypeInv

-----------------------------------------------------------------------------
(***************************************************************************)
(* Queues.                                                                 *)
(***************************************************************************)

\* A message that is added joins those that wait.
LEMMA EnqueueKeeps ==
  ASSUME TypeOK, NEW c \in Channels, NEW m \in Messages, Enqueue(c, m)
  PROVE  /\ queue' \in [Channels -> Seq(Messages)]
         /\ \A d \in Channels : Waits(d) => Waits(d)'
         /\ m.type \in {"build", "error"} /\ m.from \in Chars => Waits(c)'
<1>1. queue[c] \in Seq(Messages) /\ queue \in [Channels -> Seq(Messages)]
  BY DEF TypeOK
<1>2. queue' = [queue EXCEPT ![c] = Append(queue[c], m)]
  BY DEF Enqueue
<1>3. Append(queue[c], m) \in Seq(Messages)
  BY <1>1
<1>4. /\ Len(Append(queue[c], m)) = Len(queue[c]) + 1
      /\ \A i \in 1 .. Len(queue[c]) : Append(queue[c], m)[i] = queue[c][i]
      /\ Append(queue[c], m)[Len(queue[c]) + 1] = m
  BY <1>1
<1>5. Waits(c) => Waits(c)'
  BY <1>1, <1>2, <1>3, <1>4 DEF Waits
<1>6. m.type \in {"build", "error"} /\ m.from \in Chars => Waits(c)'
  BY <1>1, <1>2, <1>3, <1>4 DEF Waits
<1>7. \A d \in Channels \ {c} : Waits(d) => Waits(d)'
  BY <1>1, <1>2 DEF Waits
<1> QED BY <1>1, <1>2, <1>3, <1>5, <1>6, <1>7

\* The first message was what waited, or what waited still does.
LEMMA DoneKeeps ==
  ASSUME TypeOK, NEW c \in Channels, NEW t, NEW p, Handles(c, t, p), Done(c)
  PROVE  /\ queue' \in [Channels -> Seq(Messages)]
         /\ \A d \in Channels : Waits(d) =>
              \/ Waits(d)'
              \/ d = c /\ t \in {"build", "error"} /\ p \in Chars
<1>1. queue[c] \in Seq(Messages) /\ queue \in [Channels -> Seq(Messages)]
  BY DEF TypeOK
<1>2. queue[c] # <<>> /\ Head(queue[c]) = [type |-> t, from |-> p]
  BY DEF Handles
<1>3. queue' = [queue EXCEPT ![c] = Tail(queue[c])]
  BY DEF Done
<1>4. Tail(queue[c]) \in Seq(Messages)
  BY <1>1, <1>2
<1>5. /\ Len(Tail(queue[c])) = Len(queue[c]) - 1 /\ Len(queue[c]) \in Nat
      /\ \A i \in 1 .. Len(queue[c]) - 1 : Tail(queue[c])[i] = queue[c][i + 1]
      /\ queue[c][1] = [type |-> t, from |-> p]
  BY <1>1, <1>2
<1>6. ASSUME Waits(c), ~Waits(c)'
      PROVE  t \in {"build", "error"} /\ p \in Chars
  <2>1. PICK i \in 1 .. Len(queue[c]) :
          /\ queue[c][i].type \in {"build", "error"}
          /\ queue[c][i].from \in Chars
    BY <1>1, <1>6 DEF Waits
  <2>2. CASE i = 1
    BY <1>5, <2>1, <2>2
  <2>3. CASE i # 1
    <3>1. i - 1 \in 1 .. Len(queue[c]) - 1
      BY <1>5, <2>3
    <3>2. i - 1 \in DOMAIN queue'[c] /\ queue'[c][i - 1] = queue[c][i]
      BY <1>1, <1>3, <1>4, <1>5, <3>1
    <3> QED BY <1>6, <2>1, <3>2 DEF Waits
  <2> QED BY <2>2, <2>3
<1>7. \A d \in Channels \ {c} : Waits(d) => Waits(d)'
  BY <1>1, <1>3 DEF Waits
<1> QED BY <1>1, <1>3, <1>4, <1>6, <1>7

-----------------------------------------------------------------------------
(***************************************************************************)
(* The types.                                                              *)
(***************************************************************************)

LEMMA PeerKeepsTypes ==
  ASSUME TypeInv, NEW c \in Channels, Peer(c)
  PROVE  TypeInv'
<1>1. ASSUME NEW p \in Peers, Connect(c, p) PROVE TypeInv'
  <2>1. [type |-> "build", from |-> p] \in Messages
    BY DEF Messages
  <2>2. queue' \in [Channels -> Seq(Messages)]
    BY <1>1, <2>1, EnqueueKeeps DEF Connect, TypeInv
  <2>3. connections' \in 0 .. MaxConnect
    BY <1>1, ConstantsAssumption DEF Connect, TypeInv, TypeOK
  <2> QED BY <1>1, <2>2, <2>3
        DEF Connect, TypeInv, TypeOK, DueHaveEntries, connects, entries, loop
<1>2. ASSUME AskPlayerInfo(c) PROVE TypeInv'
  <2>1. [type |-> "PLAYERINFO", from |-> peer[c]] \in Messages
    BY <1>2 DEF Messages, AskPlayerInfo, Peers
  <2>2. queue' \in [Channels -> Seq(Messages)]
    BY <1>2, <2>1, EnqueueKeeps DEF AskPlayerInfo, TypeInv
  <2> QED BY <1>2, <2>2
        DEF AskPlayerInfo, TypeInv, TypeOK, DueHaveEntries, connects, entries,
            loop
<1>3. ASSUME Disconnect(c) PROVE TypeInv'
  <2>1. [type |-> "error", from |-> peer[c]] \in Messages
    BY <1>3 DEF Messages, Disconnect, TypeInv, TypeOK
  <2>2. queue' \in [Channels -> Seq(Messages)]
    BY <1>3, <2>1, EnqueueKeeps DEF Disconnect, TypeInv
  <2> QED BY <1>3, <2>2
        DEF Disconnect, TypeInv, TypeOK, DueHaveEntries, connects, entries,
            loop
<1> QED BY <1>1, <1>2, <1>3 DEF Peer

\* The handlers that are through with their message, as far as the queue goes.
LEMMA DoneTypes ==
  ASSUME TypeInv, NEW c \in Channels, NEW t, NEW p, Handles(c, t, p), Done(c)
  PROVE  queue' \in [Channels -> Seq(Messages)]
BY DoneKeeps DEF TypeInv

LEMMA DispatcherKeepsTypes ==
  ASSUME TypeInv, NEW c \in Channels, Dispatcher(c)
  PROVE  TypeInv'
<1> USE DEF TypeInv, DueHaveEntries, connects, entries, loop, network
<1>1. ASSUME BuildClient(c) PROVE TypeInv'
  <2>1. queue' \in [Channels -> Seq(Messages)]
    BY <1>1, DoneTypes DEF BuildClient
  <2> QED BY <1>1, <2>1 DEF BuildClient, TypeOK
<1>2. ASSUME BuildServer(c) PROVE TypeInv'
  <2>1. queue' \in [Channels -> Seq(Messages)]
    BY <1>2, DoneTypes DEF BuildServer
  <2> QED BY <1>2, <2>1 DEF BuildServer, TypeOK
<1>3. ASSUME BuildServerAgain(c) PROVE TypeInv'
  <2>1. queue' \in [Channels -> Seq(Messages)]
    BY <1>3, DoneTypes DEF BuildServerAgain
  <2> QED BY <1>3, <2>1 DEF BuildServerAgain, CloseChannel, TypeOK
<1>4. ASSUME RemoveConnect(c) PROVE TypeInv'
  BY <1>4 DEF RemoveConnect, TypeOK
<1>5. ASSUME UpdatePlayerInfo(c) PROVE TypeInv'
  <2>1. queue' \in [Channels -> Seq(Messages)]
    BY <1>5, DoneTypes DEF UpdatePlayerInfo
  <2>2. PICK a \in Chars :
          /\ m_timeout[a] # None
          /\ m_timeout' = [m_timeout EXCEPT ![a].channeid = c]
    BY <1>5 DEF UpdatePlayerInfo
  <2>3. m_timeout[a] \in Entries
    BY <2>2 DEF TypeOK
  <2>4. [m_timeout[a] EXCEPT !.channeid = c] \in Entries
    BY <2>3 DEF Entries
  <2>5. m_timeout' \in [Chars -> Entries \cup {None}]
    BY <2>2, <2>4 DEF TypeOK
  <2>6. \A b \in Chars : m_timeout'[b] = None => m_timeout[b] = None
    BY <2>2, <2>4, NoneIsNoEntry DEF TypeOK
  <2>7. replaced' \subseteq Channels
    BY <1>5 DEF UpdatePlayerInfo, TypeOK
  <2>8. doing' \in [Channels -> {"idle", "info", "lost"}]
    BY <1>5 DEF UpdatePlayerInfo, TypeOK
  <2> QED BY <1>5, <2>1, <2>5, <2>6, <2>7, <2>8 DEF UpdatePlayerInfo, TypeOK
<1>6. ASSUME RefusePlayerInfo(c) PROVE TypeInv'
  <2>1. queue' \in [Channels -> Seq(Messages)]
    BY <1>6, DoneTypes DEF RefusePlayerInfo
  <2> QED BY <1>6, <2>1 DEF RefusePlayerInfo, TypeOK
<1>7. ASSUME ClientError(c) PROVE TypeInv'
  <2>1. queue' \in [Channels -> Seq(Messages)]
    BY <1>7, DoneTypes DEF ClientError
  <2> QED BY <1>7, <2>1 DEF ClientError, TypeOK
<1>8. ASSUME ServerError(c) PROVE TypeInv'
  BY <1>8 DEF ServerError, TypeOK
<1>9. ASSUME RemovePlayerByGsID(c) PROVE TypeInv'
  <2>1. queue' \in [Channels -> Seq(Messages)]
    BY <1>9, DoneTypes DEF RemovePlayerByGsID
  <2>2. PICK g \in Servers :
          LET lost == {a \in Chars : m_timeout[a] # None
                                      /\ m_timeout[a].gsID = g}
          IN  /\ m_timeout' = [a \in Chars |-> IF a \in lost THEN None
                                                 ELSE m_timeout[a]]
              /\ dueEntry' = dueEntry \ lost
              /\ closing' = [closing EXCEPT ![c] =
                   {c} \cup {d \in Channels : \E a \in lost : Holds(a, d)}]
    BY <1>9 DEF RemovePlayerByGsID
  <2> DEFINE lost == {a \in Chars : m_timeout[a] # None
                                    /\ m_timeout[a].gsID = g}
             held == {c} \cup {d \in Channels : \E a \in lost : Holds(a, d)}
  <2>3. /\ m_timeout' \in [Chars -> Entries \cup {None}]
        /\ dueEntry' \subseteq Chars
        /\ \A a \in dueEntry' : m_timeout'[a] # None
    BY <2>2 DEF TypeOK
  <2>4. closing' \in [Channels \cup {svr} -> SUBSET Channels]
    <3>1. held \subseteq Channels /\ closing' = [closing EXCEPT ![c] = held]
      BY <2>2
    <3> HIDE DEF held
    <3> QED BY <3>1 DEF TypeOK
  <2>5. doing' \in [Channels -> {"idle", "info", "lost"}]
    BY <1>9 DEF RemovePlayerByGsID, TypeOK
  <2> QED BY <1>9, <2>1, <2>3, <2>4, <2>5 DEF RemovePlayerByGsID, TypeOK
<1>10. ASSUME CloseNext(c) PROVE TypeInv'
  BY <1>10 DEF CloseNext, CloseChannel, TypeOK
<1> QED BY <1>1, <1>2, <1>3, <1>4, <1>5, <1>6, <1>7, <1>8, <1>9, <1>10
      DEF Dispatcher

LEMMA LoginKeepsTypes ==
  ASSUME TypeInv,
         \/ \E a \in Chars : WillLogin(a) \/ ExpireEntry(a)
         \/ \E c \in Channels : ExpireConnect(c)
         \/ AddTimeout
  PROVE  TypeInv'
<1> USE DEF TypeInv, DueHaveEntries, connects, entries, loop, network
<1>1. ASSUME NEW a \in Chars, WillLogin(a) PROVE TypeInv'
  BY <1>1 DEF WillLogin, TypeOK
<1>2. ASSUME NEW a \in Chars, ExpireEntry(a) PROVE TypeInv'
  BY <1>2 DEF ExpireEntry, TypeOK
<1>3. ASSUME NEW c \in Channels, ExpireConnect(c) PROVE TypeInv'
  BY <1>3 DEF ExpireConnect, TypeOK
<1>4. ASSUME AddTimeout PROVE TypeInv'
  <2>1. login \in [char : Chars, gsID : Servers]
    BY <1>4 DEF AddTimeout, TypeOK
  <2>2. [gsID |-> login.gsID, channeid |-> None, isDel |-> FALSE] \in Entries
    BY <2>1 DEF Entries
  <2>3. m_timeout' \in [Chars -> Entries \cup {None}]
    BY <1>4, <2>1, <2>2 DEF AddTimeout, TypeOK
  <2>4. \A a \in Chars : m_timeout[a] # None => m_timeout'[a] = m_timeout[a]
    BY <1>4, <2>1 DEF AddTimeout, TypeOK
  <2> QED BY <1>4, <2>3, <2>4 DEF AddTimeout, TypeOK
<1> QED BY <1>1, <1>2, <1>3, <1>4

LEMMA EvictorKeepsTypes ==
  ASSUME TypeInv, Evictor
  PROVE  TypeInv'
<1> USE DEF TypeInv, DueHaveEntries, connects, entries, loop, network
<1>1. ASSUME CheckConnect PROVE TypeInv'
  BY <1>1 DEF CheckConnect, CloseChannel, TypeOK
<1>2. ASSUME Scan PROVE TypeInv'
  <2>1. /\ Unwarned \subseteq dueEntry /\ Unclaimed \subseteq Unwarned
        /\ Late \subseteq Unwarned /\ Warned \subseteq dueEntry
    BY DEF Warned, Unwarned, Unclaimed, Late
  <2>2. \A a \in Late : [m_timeout[a] EXCEPT !.isDel = TRUE] \in Entries
    <3>1. \A a \in Late : m_timeout[a] \in Entries
      BY <2>1 DEF TypeOK
    <3> QED BY <3>1 DEF Entries
  <2>3. m_timeout' \in [Chars -> Entries \cup {None}]
    BY <1>2, <2>2 DEF Scan, TypeOK
  <2>4. \A a \in dueEntry \ Unwarned : m_timeout'[a] = m_timeout[a]
    BY <1>2, <2>1 DEF Scan, TypeOK
  <2> QED BY <1>2, <2>1, <2>3, <2>4 DEF Scan, TypeOK
<1>3. ASSUME NextRound PROVE TypeInv'
  BY <1>3 DEF NextRound, TypeOK
<1>4. ASSUME CloseNext(svr) PROVE TypeInv'
  BY <1>4 DEF CloseNext, CloseChannel, TypeOK
<1>5. ASSUME NEW c \in Channels, PlayerExit(c) PROVE TypeInv'
  BY <1>5 DEF PlayerExit, TypeOK
<1>6. ASSUME NEW a \in Chars, PlayerExitEx(a) PROVE TypeInv'
  BY <1>6 DEF PlayerExitEx, CloseChannel, TypeOK
<1> QED BY <1>1, <1>2, <1>3, <1>4, <1>5, <1>6 DEF Evictor

-----------------------------------------------------------------------------
(***************************************************************************)
(* The clients' channels.                                                  *)
(***************************************************************************)

Closed(c)    == \E t \in Channels \cup {svr} : c \in closing[t]
Accounted(c) ==
  \/ c \in m_connectList \/ Held(c) \/ c \in replaced
  \/ Waits(c) \/ doing[c] = "info" \/ Closed(c)

LEMMA PeerKeepsAccounts ==
  ASSUME IInv, NEW c \in Channels, Peer(c)
  PROVE  ChannelAccounted'
<1> USE DEF IInv, TypeInv
<1> SUFFICES ASSUME NEW d \in Channels, peer'[d] \in Chars
             PROVE  Accounted(d)'
  BY DEF ChannelAccounted, Accounted, Closed
<1>1. /\ UNCHANGED <<m_connectList, m_timeout, replaced, doing, closing>>
      /\ Waits(d) => Waits(d)'
  <2>1. ASSUME NEW p \in Peers, Connect(c, p) PROVE Waits(d) => Waits(d)'
    <3>1. [type |-> "build", from |-> p] \in Messages
      BY DEF Messages
    <3> QED BY <2>1, <3>1, EnqueueKeeps DEF Connect
  <2>2. ASSUME AskPlayerInfo(c) PROVE Waits(d) => Waits(d)'
    <3>1. [type |-> "PLAYERINFO", from |-> peer[c]] \in Messages
      BY <2>2 DEF Messages, AskPlayerInfo, Peers
    <3> QED BY <2>2, <3>1, EnqueueKeeps DEF AskPlayerInfo
  <2>3. ASSUME Disconnect(c) PROVE Waits(d) => Waits(d)'
    <3>1. [type |-> "error", from |-> peer[c]] \in Messages
      BY <2>3 DEF Messages, Disconnect, TypeOK
    <3> QED BY <2>3, <3>1, EnqueueKeeps DEF Disconnect
  <2> QED BY <2>1, <2>2, <2>3
        DEF Peer, Connect, AskPlayerInfo, Disconnect, connects, entries
<1>2. CASE peer'[d] = peer[d]
  <2>1. Accounted(d)
    BY <1>2 DEF ChannelAccounted, Accounted, Closed
  <2> QED BY <1>1, <2>1 DEF Accounted, Closed, Held, Holds
<1>3. CASE peer'[d] # peer[d]
  <2>1. PICK p \in Peers : Connect(c, p)
    BY <1>3 DEF Peer, AskPlayerInfo, Disconnect
  <2>2. d = c /\ p \in Chars
    BY <1>3, <2>1 DEF Connect, TypeOK
  <2>3. [type |-> "build", from |-> p] \in Messages
    BY DEF Messages
  <2>4. Waits(c)'
    BY <2>1, <2>2, <2>3, EnqueueKeeps DEF Connect
  <2> QED BY <2>2, <2>4 DEF Accounted
<1> QED BY <1>2, <1>3

\* A channel that stays as it is but for the first message of the queue of c,
\* which was not a client's coming or going.
LEMMA OtherMessagesDone ==
  ASSUME IInv, NEW c \in Channels, NEW t, NEW p, Handles(c, t, p), Done(c),
         ~(t \in {"build", "error"} /\ p \in Chars),
         NEW d \in Channels, Waits(d)
  PROVE  Waits(d)'
BY DoneKeeps DEF IInv, TypeInv

LEMMA DispatcherKeepsAccounts ==
  ASSUME IInv, NEW c \in Channels, Dispatcher(c)
  PROVE  ChannelAccounted'
<1> USE DEF IInv, TypeInv, connects, entries, loop, network
<1> SUFFICES ASSUME NEW d \in Channels, peer'[d] \in Chars
             PROVE  Accounted(d)'
  BY DEF ChannelAccounted, Accounted, Closed
<1>a. peer[d] \in Chars
  BY ConstantsAssumption
     DEF Dispatcher, BuildClient, BuildServer, BuildServerAgain, RemoveConnect,
         UpdatePlayerInfo, RefusePlayerInfo, ClientError, ServerError,
         RemovePlayerByGsID, CloseNext, CloseChannel
<1>b. Accounted(d)
  BY <1>a DEF ChannelAccounted, Accounted, Closed
<1>1. CASE BuildClient(c)
  <2>1. PICK a \in Chars : Handles(c, "build", a)
    BY <1>1 DEF BuildClient
  <2>2. CASE d = c
    BY <1>1, <2>2 DEF BuildClient, Accounted
  <2>3. CASE d # c
    <3>1. Waits(d) => Waits(d)'
      BY <1>1, <2>1, <2>3, DoneKeeps DEF BuildClient
    <3> QED BY <1>1, <1>b, <2>3, <3>1
          DEF BuildClient, Accounted, Closed, Held, Holds
  <2> QED BY <2>2, <2>3
<1>2. CASE BuildServer(c)
  <2>1. PICK g \in Servers : Handles(c, "build", g)
    BY <1>2 DEF BuildServer
  <2>2. Waits(d) => Waits(d)'
    BY <1>2, <2>1, ConstantsAssumption, OtherMessagesDone DEF BuildServer
  <2> QED BY <1>2, <1>b, <2>2 DEF BuildServer, Accounted, Closed, Held, Holds
<1>3. CASE BuildServerAgain(c)
  <2>1. PICK g \in Servers : Handles(c, "build", g)
    BY <1>3 DEF BuildServerAgain
  <2>2. Waits(d) => Waits(d)'
    BY <1>3, <2>1, ConstantsAssumption, OtherMessagesDone DEF BuildServerAgain
  <2>3. d # c
    BY <1>3, ConstantsAssumption DEF BuildServerAgain, CloseChannel
  <2> QED BY <1>3, <1>b, <2>2, <2>3
        DEF BuildServerAgain, CloseChannel, Accounted, Closed, Held, Holds
<1>4. CASE RemoveConnect(c)
  BY <1>4, <1>b DEF RemoveConnect, Accounted, Closed, Held, Holds, Waits, TypeOK
<1>5. CASE UpdatePlayerInfo(c)
  <2>1. PICK a \in Chars :
          /\ Handles(c, "PLAYERINFO", a) /\ m_timeout[a] # None
          /\ m_timeout' = [m_timeout EXCEPT ![a].channeid = c]
          /\ replaced' = (replaced \cup {e \in Channels \ {c} :
                                     Holds(a, e) /\ peer[e] # None}) \ {c}
    BY <1>5 DEF UpdatePlayerInfo
  <2>2. Waits(d) => Waits(d)'
    BY <1>5, <2>1, OtherMessagesDone DEF UpdatePlayerInfo
  <2>3. m_timeout[a] \in Entries /\ m_timeout \in [Chars -> Entries \cup {None}]
    BY <2>1 DEF TypeOK
  <2>4. CASE d = c
    <3>1. m_timeout'[a] \in Entries /\ m_timeout'[a].channeid = c
      BY <2>1, <2>3 DEF Entries
    <3> QED BY <2>4, <3>1, NoneIsNoEntry DEF Accounted, Held, Holds
  <2>5. CASE d # c
    <3>1. doing'[d] = doing[d] /\ UNCHANGED <<m_connectList, closing>>
      BY <1>5, <2>5 DEF UpdatePlayerInfo, TypeOK
    <3>2. CASE Holds(a, d)
      BY <1>a, <2>1, <2>5, <3>2, ConstantsAssumption DEF Accounted
    <3>3. CASE ~Holds(a, d)
      <4>1. Held(d) => Held(d)'
        BY <2>1, <2>3, <3>3 DEF Held, Holds
      <4>2. d \in replaced => d \in replaced'
        BY <2>1, <2>5
      <4> QED BY <1>b, <2>2, <3>1, <4>1, <4>2 DEF Accounted, Closed
    <3> QED BY <3>2, <3>3
  <2> QED BY <2>4, <2>5
<1>6. CASE RefusePlayerInfo(c)
  <2>1. PICK a \in Chars : Handles(c, "PLAYERINFO", a)
    BY <1>6 DEF RefusePlayerInfo
  <2>2. Waits(d) => Waits(d)'
    BY <1>6, <2>1, OtherMessagesDone DEF RefusePlayerInfo
  <2>3. closing[c] = {} /\ closing' = [closing EXCEPT ![c] = {c}]
        /\ closing \in [Channels \cup {svr} -> SUBSET Channels]
    BY <1>6, <2>1 DEF Handles, RefusePlayerInfo, TypeOK
  <2>4. CASE d = c
    BY <2>3, <2>4 DEF Accounted, Closed
  <2>5. CASE d # c
    <3>1. Closed(d) => Closed(d)'
      BY <2>3 DEF Closed
    <3>2. doing'[d] = doing[d]
      BY <1>6, <2>5 DEF RefusePlayerInfo, TypeOK
    <3> QED BY <1>6, <1>b, <2>2, <3>1, <3>2
          DEF RefusePlayerInfo, Accounted, Held, Holds
  <2> QED BY <2>4, <2>5
<1>7. CASE ClientError(c)
  <2>1. PICK a \in Chars : Handles(c, "error", a)
    BY <1>7 DEF ClientError
  <2>2. closing[c] = {}
        /\ closing' = [closing EXCEPT ![c] = IF Held(c) THEN {} ELSE {c}]
        /\ closing \in [Channels \cup {svr} -> SUBSET Channels]
    BY <1>7, <2>1 DEF Handles, ClientError, TypeOK
  <2>3. Held(d) => Held(d)'
    BY <1>7 DEF ClientError, Held, Holds
  <2>4. CASE d = c
    BY <2>2, <2>3, <2>4 DEF Accounted, Closed
  <2>5. CASE d # c
    <3>1. Closed(d) => Closed(d)'
      BY <2>2 DEF Closed
    <3>2. Waits(d) => Waits(d)'
      BY <1>7, <2>1, <2>5, DoneKeeps DEF ClientError
    <3> QED BY <1>7, <1>b, <2>3, <3>1, <3>2 DEF ClientError, Accounted
  <2> QED BY <2>4, <2>5
<1>8. CASE ServerError(c)
  <2>1. \E g \in Servers : Handles(c, "error", g)
    BY <1>8 DEF ServerError
  <2>2. doing[d] = "info" => doing'[d] = "info"
    BY <1>8 DEF ServerError, TypeOK
  <2> QED BY <1>8, <1>b, <2>2
        DEF ServerError, Accounted, Closed, Held, Holds, Waits
<1>9. CASE RemovePlayerByGsID(c)
  <2>1. PICK g \in Servers :
          LET lost == {a \in Chars : m_timeout[a] # None
                                      /\ m_timeout[a].gsID = g}
          IN  /\ Handles(c, "error", g)
              /\ m_timeout' = [a \in Chars |-> IF a \in lost THEN None
                                                 ELSE m_timeout[a]]
              /\ closing' = [closing EXCEPT ![c] =
                   {c} \cup {e \in Channels : \E a \in lost : Holds(a, e)}]
    BY <1>9 DEF RemovePlayerByGsID
  <2> DEFINE lost == {a \in Chars : m_timeout[a] # None
                                    /\ m_timeout[a].gsID = g}
             held == {c} \cup {e \in Channels : \E a \in lost : Holds(a, e)}
  <2>2. Waits(d) => Waits(d)'
    BY <1>9, <2>1, ConstantsAssumption, OtherMessagesDone
       DEF RemovePlayerByGsID
  <2>3. closing[c] = {} /\ closing' = [closing EXCEPT ![c] = held]
        /\ closing \in [Channels \cup {svr} -> SUBSET Channels]
    BY <2>1 DEF Handles, TypeOK
  <2>4. d \in held => Closed(d)'
    <3> HIDE DEF held
    <3> QED BY <2>3 DEF Closed
  <2>5. Closed(d) => Closed(d)'
    <3> HIDE DEF held
    <3> QED BY <2>3 DEF Closed
  <2>6. Held(d) => Held(d)' \/ d \in held
    BY <2>1 DEF Held, Holds
  <2>7. doing[d] = "info" => d = c \/ doing'[d] = "info"
    BY <1>9 DEF RemovePlayerByGsID, TypeOK
  <2>8. UNCHANGED <<m_connectList, replaced>> /\ c \in held
    BY <1>9 DEF RemovePlayerByGsID
  <2> HIDE DEF held
  <2> QED BY <1>b, <2>2, <2>4, <2>5, <2>6, <2>7, <2>8 DEF Accounted
<1>10. CASE CloseNext(c)
  <2>1. PICK e \in closing[c] :
          /\ CloseChannel({e})
          /\ closing' = [closing EXCEPT ![c] = closing[c] \ {e}]
    BY <1>10 DEF CloseNext
  <2>2. d # e
    BY <2>1, ConstantsAssumption DEF CloseChannel
  <2>3. Closed(d) => Closed(d)'
    BY <2>1, <2>2 DEF Closed, TypeOK
  <2> QED BY <1>10, <1>b, <2>1, <2>2, <2>3
        DEF CloseNext, CloseChannel, Accounted, Held, Holds, Waits
<1> QED BY <1>1, <1>2, <1>3, <1>4, <1>5, <1>6, <1>7, <1>8, <1>9, <1>10
      DEF Dispatcher

LEMMA LoginKeepsAccounts ==
  ASSUME IInv,
         \/ \E a \in Chars : WillLogin(a) \/ ExpireEntry(a)
         \/ \E c \in Channels : ExpireConnect(c)
         \/ AddTimeout
  PROVE  ChannelAccounted'
<1> USE DEF IInv, TypeInv, connects, entries, loop, network
<1>1. /\ UNCHANGED <<peer, queue, m_connectList, replaced, doing, closing>>
      /\ \A a \in Chars :
           m_timeout[a] # None => m_timeout'[a] = m_timeout[a]
  <2>1. ASSUME AddTimeout, NEW a \in Chars, m_timeout[a] # None
        PROVE  m_timeout'[a] = m_timeout[a]
    BY <2>1 DEF AddTimeout, TypeOK
  <2> QED BY <2>1 DEF WillLogin, ExpireEntry, ExpireConnect, AddTimeout
<1>2. \A c \in Channels : Held(c) => Held(c)'
  BY <1>1, NoneIsNoEntry DEF Held, Holds, TypeOK
<1> QED BY <1>1, <1>2 DEF ChannelAccounted, Waits

LEMMA EvictorKeepsAccounts ==
  ASSUME IInv, Evictor
  PROVE  ChannelAccounted'
<1> USE DEF IInv, TypeInv, connects, entries, loop, network
<1> SUFFICES ASSUME NEW d \in Channels, peer'[d] \in Chars
             PROVE  Accounted(d)'
  BY DEF ChannelAccounted, Accounted, Closed
<1>a. peer[d] \in Chars
  BY ConstantsAssumption
     DEF Evictor, CheckConnect, Scan, NextRound, CloseNext, PlayerExit,
         PlayerExitEx, CloseChannel
<1>b. Accounted(d)
  BY <1>a DEF ChannelAccounted, Accounted, Closed
<1>1. CASE CheckConnect
  <2>1. d \notin dueConnect
    BY <1>1, ConstantsAssumption DEF CheckConnect, CloseChannel
  <2> QED BY <1>1, <1>b, <2>1
        DEF CheckConnect, CloseChannel, Accounted, Closed, Held, Holds, Waits
<1>2. CASE Scan
  <2>1. /\ m_timeout' = [a \in Chars |->
                     CASE a \in Unclaimed -> None
                       [] a \in Late -> [m_timeout[a] EXCEPT !.isDel = TRUE]
                       [] OTHER -> m_timeout[a]]
        /\ UNCHANGED <<peer, queue, m_connectList, replaced, doing, closing>>
    BY <1>2 DEF Scan
  <2>2. ASSUME NEW a \in Chars, Holds(a, d)
        PROVE  Holds(a, d)'
    <3>1. m_timeout[a] \in Entries /\ m_timeout[a].channeid = d
      BY <2>2 DEF Holds, TypeOK
    <3>2. a \notin Unclaimed
      BY <3>1, ConstantsAssumption DEF Unclaimed
    <3>3. CASE a \in Late
      <4>1. m_timeout'[a] = [m_timeout[a] EXCEPT !.isDel = TRUE]
        BY <2>1, <3>2, <3>3
      <4>2. m_timeout'[a] \in Entries /\ m_timeout'[a].channeid = d
        BY <3>1, <4>1 DEF Entries
      <4> QED BY <4>2, NoneIsNoEntry DEF Holds
    <3>4. CASE a \notin Late
      <4>1. m_timeout'[a] = m_timeout[a]
        BY <2>1, <3>2, <3>4
      <4> QED BY <2>2, <4>1 DEF Holds
    <3> QED BY <3>3, <3>4
  <2>3. Held(d) => Held(d)'
    BY <2>2 DEF Held
  <2> QED BY <1>b, <2>1, <2>3 DEF Accounted, Closed, Waits
<1>3. CASE NextRound
  BY <1>3, <1>b DEF NextRound, Accounted, Closed, Held, Holds, Waits
<1>4. CASE CloseNext(svr)
  <2>1. PICK e \in closing[svr] :
          /\ CloseChannel({e})
          /\ closing' = [closing EXCEPT ![svr] = closing[svr] \ {e}]
    BY <1>4 DEF CloseNext
  <2>2. d # e
    BY <2>1, ConstantsAssumption DEF CloseChannel
  <2>3. Closed(d) => Closed(d)'
    BY <2>1, <2>2 DEF Closed, TypeOK
  <2> QED BY <1>4, <1>b, <2>1, <2>2, <2>3
        DEF CloseNext, CloseChannel, Accounted, Held, Holds, Waits
<1>5. ASSUME NEW c \in Channels, PlayerExit(c) PROVE Accounted(d)'
  <2>1. Closed(d) => Closed(d)'
    BY <1>5 DEF PlayerExit, Closed, TypeOK
  <2> QED BY <1>5, <1>b, <2>1
        DEF PlayerExit, Accounted, Held, Holds, Waits
<1>6. ASSUME NEW a \in Chars, PlayerExitEx(a) PROVE Accounted(d)'
  <2>1. ~Holds(a, d)
    BY <1>6, ConstantsAssumption DEF PlayerExitEx, CloseChannel
  <2>2. Held(d) => Held(d)'
    BY <1>6, <2>1 DEF PlayerExitEx, Held, Holds, TypeOK
  <2>3. d \in replaced => d \in replaced'
    BY <1>6, <2>1 DEF PlayerExitEx, CloseChannel
  <2> QED BY <1>6, <1>b, <2>2, <2>3 DEF PlayerExitEx, Accounted, Closed, Waits
<1> QED BY <1>1, <1>2, <1>3, <1>4, <1>5, <1>6 DEF Evictor

-----------------------------------------------------------------------------
LEMMA NextKeepsIInv == IInv /\ [Next]_vars => IInv'
<1> SUFFICES ASSUME IInv, [Next]_vars PROVE IInv'
  OBVIOUS
<1>1. ASSUME NEW c \in Channels, Peer(c) PROVE IInv'
  BY <1>1, PeerKeepsTypes, PeerKeepsAccounts DEF IInv
<1>2. ASSUME NEW c \in Channels, Dispatcher(c) PROVE IInv'
  BY <1>2, DispatcherKeepsTypes, DispatcherKeepsAccounts DEF IInv
<1>3. ASSUME \/ \E a \in Chars : WillLogin(a) \/ ExpireEntry(a)
             \/ \E c \in Channels : ExpireConnect(c)
             \/ AddTimeout
      PROVE  IInv'
  BY <1>3, LoginKeepsTypes, LoginKeepsAccounts DEF IInv
<1>4. ASSUME Evictor PROVE IInv'
  BY <1>4, EvictorKeepsTypes, EvictorKeepsAccounts DEF IInv
<1>5. ASSUME UNCHANGED vars PROVE IInv'
  <2> USE <1>5 DEF vars, network, connects, entries, loop
  <2>1. TypeOK' /\ DueHaveEntries'
    BY DEF IInv, TypeInv, TypeOK, DueHaveEntries
  <2>2. ChannelAccounted'
    BY DEF IInv, ChannelAccounted, Held, Holds, Waits
  <2> QED BY <2>1, <2>2 DEF IInv, TypeInv
<1> QED BY <1>1, <1>2, <1>3, <1>4, <1>5 DEF Next

THEOREM IInvHolds == Spec => []IInv
<1>1. IInv /\ [Next]_vars => IInv'
  BY NextKeepsIInv
<1> QED BY <1>1, InitIInv, PTL DEF Spec

\* The tables of the gate server stay what their code takes them for.
THEOREM TypesHold == Spec => []TypeOK
<1>1. IInv => TypeOK
  BY DEF IInv, TypeInv
<1> QED BY <1>1, IInvHolds, PTL

\* Whatever the interleaving of the dispatchers, the evictor and the peers, an
\* open client connection is always listed, held, about to be dealt with, or
\* one that UpdatePlayerInfo has replaced.
THEOREM NoConnectionIsLost == Spec => []ChannelAccounted
<1>1. IInv => ChannelAccounted
  BY DEF IInv
<1> QED BY <1>1, IInvHolds, PTL
=============================================================================
