----------------------------- MODULE GateForward -----------------------------
(***************************************************************************)
(* What the gate server passes on between clients and game servers         *)
(* (GateServer/src: CharactorLogin's handlers, the lookups of              *)
(* ServerConHandler and ConnTimeout, MessageBuild).  The table of logins   *)
(* is that of GateLogin, in fewer steps: the thread of ConnTimeout warns   *)
(* and erases an entry at once, and a connection is listed when it is made.*)
(*                                                                         *)
(* A client that has said which character it is (PLAYERINFO) is answered   *)
(* when the game server has answered the gate; then it asks to enter       *)
(* (CLIENTIN), changes attributes (SYN_ATTR), and sends heart beats.  The  *)
(* gate knows the client by its channel: the first entry of m_timeout, in  *)
(* the order of characters, that holds the channel says which character is *)
(* meant.  An answer goes to the channel that the character's entry holds  *)
(* when the answer comes, by way of the queue of that channel's            *)
(* dispatcher, and from there to whoever has the channel by then.          *)
(*                                                                         *)
(* m_client and m_idClient are empty, as nothing calls PlayerLogin, so     *)
(* that every lookup comes down to ConnTimeout's.                          *)
(***************************************************************************)
EXTENDS Naturals, Sequences, FiniteSets

CONSTANTS
  Chars,     \* the characters (ids), and with each the clients that play it
  Channels,  \* the file descriptors, from 1
  None,      \* no entry
  Asks,      \* what a client asks once it was answered: CLIENTIN, SYN_ATTR, HEARTBEAT
  MaxQueue,  \* bound of the model: messages queued on one channel
  MaxAsked,  \* bound of the model: requests at the game servers at once
  MaxConnect \* bound of the model: connections that are made

VARIABLES
  peer, gone, queue,  \* who has a channel, who has left, what is to be handled
  m_connectList,      \* the connections that have not said who they are
  m_timeout,          \* entries of characters: the channel they hold, or why none
  toClose,            \* channels that a thread is to close after the unlock
  forwarding, \* on a channel: PLAYERINFO, the entry updated, nothing sent yet
  pending,    \* at the game servers: requests the gate has sent on
  answering,  \* queued for a channel: the answer about a character
  got,        \* the client that has the channel: the characters it got
  \* History: channels given to a client while a former one's character
  \* still held them, or something of that client was queued for them;
  \* and how many connections were made.
  inherited, connections

login == <<peer, gone, queue, m_connectList, m_timeout, toClose, connections>>
forwardVars == <<peer, gone, queue, m_connectList, m_timeout, toClose, forwarding,
                 pending, answering, got, inherited, connections>>

Nobody    == 0  \* no character: a channel nobody has, nothing to forward
Unclaimed == 0  \* no channel (-1): announced, and no client so far

Messages == [type : Asks \cup {"PLAYERINFO", "error"}, from : Chars]
Pending  == [type : {"PLAYERINFO", "CLIENTIN", "SYN_ATTR"}, char : Chars, from : Chars]

ForwardInit ==
  /\ peer = [c \in Channels |-> Nobody] /\ gone = {}
  /\ queue = [c \in Channels |-> <<>>]
  /\ m_connectList = {}
  /\ m_timeout = [a \in Chars |-> None]
  /\ toClose = {}
  /\ forwarding = [c \in Channels |-> Nobody]
  /\ pending = {} /\ answering = {}
  /\ got = [c \in Channels |-> {}]
  /\ inherited = {} /\ connections = 0

\* ConnTimeout: the channel of a character, and the first entry, in the order
\* of characters, that holds a channel.
Holds(a, c)      == m_timeout[a] = c
ClientChannel(a) == {c \in Channels : Holds(a, c)}
ConnHolder(c)    == CHOOSE a \in Chars : Holds(a, c) /\ \A b \in Chars : Holds(b, c) => a <= b

\* ServerConHandler's lookups: m_idClient and m_client are asked first and are
\* empty.  Whether a game server is known for the channel, and for whom; and
\* where the client of a character is.
Held(c)       == \E a \in Chars : Holds(a, c)
OnBehalf(c)   == IF Held(c) THEN {ConnHolder(c)} ELSE {}
WhereIs(a)    == ClientChannel(a)

\* Message_Facade::CloseChannel of each channel of S.
CloseChannels(S) ==
  /\ peer' = [c \in Channels |-> IF c \in S THEN Nobody ELSE peer[c]]
  /\ gone' = gone \ S

-----------------------------------------------------------------------------
(***************************************************************************)
(* The clients.                                                            *)
(***************************************************************************)

\* Characters that the channel is still held for, or has messages of.
Lingering(c) ==
  {a \in Chars : \/ Holds(a, c) \/ forwarding[c] = a
                 \/ \E i \in DOMAIN queue[c] : queue[c][i].from = a
                 \/ [char |-> a, channel |-> c] \in answering}

\* A client connects (on_new_channel_build); what the former one asked stays
\* queued.
Connect(c, a) ==
  /\ peer[c] = Nobody /\ \A d \in Channels : peer[d] = Nobody => c <= d
  /\ connections < MaxConnect /\ connections' = connections + 1
  /\ peer' = [peer EXCEPT ![c] = a]
  /\ m_connectList' = m_connectList \cup {c}
  /\ got' = [got EXCEPT ![c] = {}]
  /\ inherited' = inherited \cup {<<b, c>> : b \in Lingering(c) \ {a}}
  /\ UNCHANGED <<gone, queue, m_timeout, toClose, forwarding, pending, answering>>

Send(c, t) ==
  /\ peer[c] # Nobody /\ c \notin gone /\ Len(queue[c]) < MaxQueue
  /\ queue' = [queue EXCEPT ![c] = Append(@, [type |-> t, from |-> peer[c]])]
  /\ UNCHANGED <<peer, m_connectList, m_timeout, toClose, forwarding, pending, answering,
                 got, inherited, connections>>

AskPlayerInfo(c) == Send(c, "PLAYERINFO") /\ UNCHANGED gone
Ask(c)           == got[c] # {} /\ (\E t \in Asks : Send(c, t)) /\ UNCHANGED gone
Leave(c)         == Send(c, "error") /\ gone' = gone \cup {c}

-----------------------------------------------------------------------------
(***************************************************************************)
(* The table of logins, as its other users change it.                      *)
(***************************************************************************)

\* LS2GT_WILLLOGIN: AddClientTimeOut, the channel of the game server with it.
WillLogin(a) ==
  /\ m_timeout[a] = None
  /\ m_timeout' = [m_timeout EXCEPT ![a] = Unclaimed]
  /\ UNCHANGED <<peer, gone, queue, m_connectList, toClose, forwarding, pending, answering,
                 got, inherited, connections>>

\* checkConnect, for a connection whose time is up.
CheckConnect(c) ==
  /\ c \in m_connectList
  /\ CloseChannels({c})
  /\ m_connectList' = m_connectList \ {c}
  /\ UNCHANGED <<queue, m_timeout, toClose, forwarding, pending, answering, got,
                 inherited, connections>>

\* The entry's time is up: DelTimeout, its channel closed under the lock.
DelTimeout(a) ==
  /\ m_timeout[a] # None
  /\ CloseChannels({m_timeout[a]})
  /\ m_timeout' = [m_timeout EXCEPT ![a] = None]
  /\ UNCHANGED <<queue, m_connectList, toClose, forwarding, pending, answering, got,
                 inherited, connections>>

\* The game server is lost: removePlayerByGsID, the channels after the unlock.
RemovePlayerByGsID ==
  /\ \E a \in Chars : m_timeout[a] # None
  /\ toClose' = toClose \cup {c \in Channels : Held(c)}
  /\ m_timeout' = [a \in Chars |-> None]
  /\ UNCHANGED <<peer, gone, queue, m_connectList, forwarding, pending, answering, got,
                 inherited, connections>>

CloseNext(c) ==
  /\ c \in toClose /\ toClose' = toClose \ {c}
  /\ CloseChannels({c})
  /\ UNCHANGED <<queue, m_connectList, m_timeout, forwarding, pending, answering, got,
                 inherited, connections>>

-----------------------------------------------------------------------------
(***************************************************************************)
(* The handlers of the channel's dispatcher, one message after another.    *)
(***************************************************************************)

Handles(c, T) == forwarding[c] = Nobody /\ queue[c] # <<>> /\ Head(queue[c]).type \in T
Done(c)       == queue' = [queue EXCEPT ![c] = Tail(@)]

\* C2GT_PLAYERINFO: removeConnect and UpdatePlayerInfo; without an entry the
\* channel is closed, ...
UpdateClientInfo(c) ==
  /\ Handles(c, {"PLAYERINFO"})
  /\ LET a == Head(queue[c]).from
     IN  IF m_timeout[a] # None
         THEN /\ m_timeout' = [m_timeout EXCEPT ![a] = c]
              /\ forwarding' = [forwarding EXCEPT ![c] = a]
              /\ UNCHANGED <<peer, gone>>
         ELSE CloseChannels({c}) /\ UNCHANGED <<m_timeout, forwarding>>
  /\ m_connectList' = m_connectList \ {c}
  /\ Done(c)
  /\ UNCHANGED <<toClose, pending, answering, got, inherited, connections>>

\* ... then the game server is looked up by the channel, and is asked about
\* the character that the client named.  If the entry has gone meanwhile the
\* login server is told, and the client nothing (sendToLoginFail).
ForwardPlayerInfo(c) ==
  /\ forwarding[c] # Nobody /\ Cardinality(pending) < MaxAsked
  /\ pending' = pending \cup
       (IF Held(c)
        THEN {[type |-> "PLAYERINFO", char |-> forwarding[c], from |-> forwarding[c]]}
        ELSE {})
  /\ forwarding' = [forwarding EXCEPT ![c] = Nobody]
  /\ UNCHANGED <<login, answering, got, inherited>>

\* Broken variant: the first entry there is, whatever channel it holds.
ForwardRequest_First(c, t) ==
  /\ Handles(c, {t}) /\ Cardinality(pending) < MaxAsked
  /\ pending' = pending \cup
       {[type |-> t, char |-> a, from |-> Head(queue[c]).from] :
          a \in {b \in Chars : m_timeout[b] # None /\
                               \A d \in Chars : m_timeout[d] # None => b <= d}}
  /\ Done(c)
  /\ UNCHANGED <<peer, gone, m_connectList, m_timeout, toClose, forwarding, answering, got,
                 inherited, connections>>

\* The game server is asked for the character that holds the channel, in the
\* name of the client whose message it is; if none does, nobody is asked.
ForwardRequest(c, t) ==
  /\ Handles(c, {t}) /\ Cardinality(pending) < MaxAsked
  /\ pending' = pending \cup
       {[type |-> t, char |-> a, from |-> Head(queue[c]).from] : a \in OnBehalf(c)}
  /\ Done(c)
  /\ UNCHANGED <<peer, gone, m_connectList, m_timeout, toClose, forwarding, answering, got,
                 inherited, connections>>

\* C2GT_CLIENTIN (answered with -1 when nobody is asked), C2GT_SYN_ATTR.
ClientIn(c) == ForwardRequest(c, "CLIENTIN")
SynAttr(c)  == ForwardRequest(c, "SYN_ATTR")

\* Without an m_client the time of the entry stays as it is, ...
SynchHeartBeat(c) == UNCHANGED m_timeout

\* ... and C2GT_HEARTBEAT is answered all the same.
HeartBeat(c) ==
  /\ Handles(c, {"HEARTBEAT"}) /\ Done(c)
  /\ SynchHeartBeat(c)
  /\ UNCHANGED <<peer, gone, m_connectList, toClose, forwarding, pending, answering, got,
                 inherited, connections>>

\* on_channel_error, PlayerExit: closed unless an entry holds it.
PlayerExit(c) ==
  /\ Handles(c, {"error"}) /\ Done(c)
  /\ CloseChannels(IF Held(c) THEN {} ELSE {c})
  /\ UNCHANGED <<m_connectList, m_timeout, toClose, forwarding, pending, answering, got,
                 inherited, connections>>

-----------------------------------------------------------------------------
(***************************************************************************)
(* The game server's answers, on the dispatcher of its channel.            *)
(***************************************************************************)

\* Broken variant: the answer goes to the first channel that is held.
AckPlayerInfo_First(r) ==
  /\ r \in pending /\ r.type = "PLAYERINFO"
  /\ pending' = pending \ {r}
  /\ answering' = answering \cup
       {[char |-> r.char, channel |-> c] :
          c \in {d \in Channels : Held(d) /\ \A e \in Channels : Held(e) => d <= e}}
  /\ UNCHANGED <<login, forwarding, got, inherited>>

\* The Ack of PLAYERINFO names the character: the channel its entry holds.
AckPlayerInfo(r) ==
  /\ r \in pending /\ r.type = "PLAYERINFO"
  /\ pending' = pending \ {r}
  /\ answering' = answering \cup
       {[char |-> r.char, channel |-> c] : c \in WhereIs(r.char)}
  /\ UNCHANGED <<login, forwarding, got, inherited>>

\* The request times out, or it is CLIENTIN, whose Ack is not dispatched, or
\* SYN_ATTR, which the game server does not answer: nobody is told.
GoesUnanswered(r) ==
  /\ r \in pending /\ pending' = pending \ {r}
  /\ UNCHANGED <<login, forwarding, answering, got, inherited>>

\* The dispatcher of the channel sends what is queued for it.
SendAnswer(x) ==
  /\ x \in answering /\ answering' = answering \ {x}
  /\ got' = IF peer[x.channel] # Nobody
            THEN [got EXCEPT ![x.channel] = @ \cup {x.char}] ELSE got
  /\ UNCHANGED <<login, forwarding, pending, inherited>>

-----------------------------------------------------------------------------
Client(c) == (\E a \in Chars : Connect(c, a)) \/ AskPlayerInfo(c) \/ Ask(c) \/ Leave(c)

Handler(c) ==
  \/ UpdateClientInfo(c) \/ ForwardPlayerInfo(c)
  \/ ClientIn(c) \/ SynAttr(c) \/ HeartBeat(c)
  \/ PlayerExit(c)

ForwardNext ==
  \/ \E c \in Channels : Client(c) \/ Handler(c) \/ CheckConnect(c) \/ CloseNext(c)
  \/ \E a \in Chars : WillLogin(a) \/ DelTimeout(a)
  \/ RemovePlayerByGsID
  \/ \E r \in pending : AckPlayerInfo(r) \/ GoesUnanswered(r)
  \/ \E x \in answering : SendAnswer(x)

-----------------------------------------------------------------------------
ForwardTypeOK ==
  /\ peer \in [Channels -> Chars \cup {Nobody}] /\ gone \subseteq Channels
  /\ queue \in [Channels -> Seq(Messages)]
  /\ m_connectList \subseteq Channels /\ toClose \subseteq Channels
  /\ m_timeout \in [Chars -> Channels \cup {Unclaimed, None}]
  /\ forwarding \in [Channels -> Chars \cup {Nobody}]
  /\ pending \subseteq Pending
  /\ answering \subseteq [char : Chars, channel : Channels]
  /\ got \in [Channels -> SUBSET Chars]
  /\ inherited \subseteq Chars \X Channels /\ connections \in 0 .. MaxConnect

\* A client is answered about the character it plays, and a game server is
\* asked for the character whose client asked, but where a descriptor was used
\* again before the table and the queues had forgotten the former client.
AnswersReachTheirPlayer ==
  /\ \A c \in Channels : peer[c] # Nobody =>
       \A a \in got[c] : a = peer[c] \/ <<a, c>> \in inherited
  /\ \A r \in pending : r.char = r.from \/ \E c \in Channels : <<r.char, c>> \in inherited
=============================================================================
