-------------------------------- MODULE TcpConn --------------------------------
(***************************************************************************)
(* The connections of antlib's tcplib: an array of slots, each with a ring *)
(* of messages to send, run by the handler of one tcp server; and the use  *)
(* counts of the messages that go through it (handler_msg.c).              *)
(*                                                                         *)
(* tcpqueue_head does not ask whether the queue is empty.  What it returns *)
(* then is what the slot of the ring was last used for, by this connection *)
(* or by the one that had the slot before; and a ring that has grown is    *)
(* still turned at its first size.  A message sent or freed on that ground *)
(* (astray) is beyond what can be followed, and the model stops there.  A  *)
(* connection that cannot even be begun kills the process: tcp_connected   *)
(* writes to the connection it was not given (crashed).                    *)
(***************************************************************************)
EXTENDS Integers, Sequences, FiniteSets

CONSTANTS
  Slots,          \* _list of a tcp_connection_list
  TCPQUEUE_NODE,  \* the first size of a ring (128)
  MaxMsgs, MaxIds \* bounds of the model: messages and connections

Unset == 0   \* a place of a ring never written to
Gone  == -1  \* the use count of a destroyed message

Msgs == 1 .. MaxMsgs
Ids  == 1 .. MaxIds

VARIABLES
  _list,      \* the connection in each slot
  ids,        \* connections there have been (_index of their ids)
  tcpBox,     \* the queue of the tcp server's handler
  userBox,    \* what it has sent to other handlers: <<message, what it says>>
  made, _used,  \* messages made, and the use count of each
  queuedBy, sentBy, \* history: what each connection had queued, and has sent
  told,       \* history: ids that other handlers know
  astray, crashed

tcpVars == <<_list, ids, tcpBox, userBox, made, _used, queuedBy, sentBy, told, astray, crashed>>

NoRing == [_queue |-> <<>>, _size |-> 0, _head |-> 0, _tail |-> 0, _count |-> 0]
Free   == [_id |-> 0, open |-> FALSE, _state |-> "NOTHNG", _type |-> 0, armed |-> FALSE,
           _protocol |-> "tcp", ring |-> NoRing]

TcpInit ==
  /\ _list = [s \in Slots |-> Free]
  /\ ids = 0 /\ made = 0
  /\ tcpBox = <<>> /\ userBox = {}
  /\ _used = [m \in Msgs |-> Gone]
  /\ queuedBy = [i \in Ids |-> <<>>] /\ sentBy = [i \in Ids |-> <<>>]
  /\ told = {} /\ astray = FALSE /\ crashed = FALSE

Running == ~astray /\ ~crashed

-----------------------------------------------------------------------------
(***************************************************************************)
(* Use counts, and rings                                                   *)
(***************************************************************************)
\* free_handler_msg: destroyed if nobody but its maker used it.
FreeMsg(n) == IF n <= 0 THEN Gone ELSE n - 1

\* reset_tcpqueue: a ring of the first size is kept, with what is in it.
ResetRing(r) ==
  [_count |-> 0, _head |-> 0, _tail |-> 0, _size |-> TCPQUEUE_NODE,
   _queue |-> IF r._size = TCPQUEUE_NODE THEN r._queue
              ELSE [i \in 0 .. TCPQUEUE_NODE - 1 |-> Unset]]

\* push_tcpqueue doubles a ring that has become full.
Push(r, m) ==
  LET q    == [r._queue EXCEPT ![r._tail] = m]
      tail == (r._tail + 1) % r._size IN
  IF r._count + 1 < r._size
  THEN [r EXCEPT !._queue = q, !._tail = tail, !._count = @ + 1]
  ELSE [_queue |-> [i \in 0 .. 2 * r._size - 1 |->
                     IF i < r._size THEN q[(r._head + i) % r._size] ELSE Unset],
        _size |-> 2 * r._size, _head |-> 0, _tail |-> r._size, _count |-> r._count + 1]

\* pop_tcpqueue n times: the head turns at the first size, whatever the size is.
Pop(r, n) == [r EXCEPT !._head = (@ + n) % TCPQUEUE_NODE, !._count = @ - n]

\* The n messages at the head; and whether the head left the content of a ring
\* that has grown.
Foremost(r, n) == [i \in 1 .. n |-> r._queue[(r._head + i - 1) % TCPQUEUE_NODE]]
Strays(r, n) == r._size > TCPQUEUE_NODE /\ r._head + n >= TCPQUEUE_NODE
Queued(r) == {r._queue[(r._head + i) % r._size] : i \in 0 .. r._count - 1}

\* What the loops over the queue find when they have taken all of it: NULL, or
\* what was there before; in a place never written to it may be anything.
FindsEnd(r, more) ==
  /\ r._queue[r._head] = Unset => more \in BOOLEAN
  /\ r._queue[r._head] # Unset => more

-----------------------------------------------------------------------------
(***************************************************************************)
(* A connection is closed: its messages are freed, its slot is free        *)
(***************************************************************************)
\* tcpconnection_free, back_tcpconnection.  The ring of an accepted connection
\* stays, that of a connecting one is freed.
Back(s, c, used) ==
  LET r == c.ring IN
  \E more \in BOOLEAN :
    /\ FindsEnd(Pop(r, r._count), more)
    /\ astray' = (more \/ Strays(r, r._count))
    /\ _used' = [m \in Msgs |-> IF m \in Queued(r) THEN FreeMsg(used[m]) ELSE used[m]]
    /\ _list' = [_list EXCEPT ![s] =
         [Free EXCEPT !.ring = IF c._type # 0 THEN NoRing ELSE Pop(r, r._count)]]

\* get_tcpconnection: the connection with that id, if it is still there.
Holder(id) == {s \in Slots : _list[s]._id = id /\ _list[s].open}

-----------------------------------------------------------------------------
(***************************************************************************)
(* Other handlers                                                          *)
(***************************************************************************)
Make(n) == made + n <= MaxMsgs /\ made' = made + n

\* tcp_sendmsg, with a message for the connection id; close_tcpconnection sends
\* one that says so.
SendMsg(id, what) ==
  /\ Running /\ id \in told
  /\ Make(1)
  /\ _used' = [_used EXCEPT ![made'] = 1]
  /\ tcpBox' = Append(tcpBox, <<made', id, what>>)
  /\ UNCHANGED <<_list, ids, userBox, queuedBy, sentBy, told, astray, crashed>>

\* tcp_cennectserver: a message without an id.
ConnectServer ==
  /\ Running
  /\ Make(1)
  /\ _used' = [_used EXCEPT ![made'] = 1]
  /\ tcpBox' = Append(tcpBox, <<made', 0, "connect">>)
  /\ UNCHANGED <<_list, ids, userBox, queuedBy, sentBy, told, astray, crashed>>

\* The gate's handler frees what says TCPCONNECT_LOST, and do_handler frees
\* every message it has handled.
UserHandles(u) ==
  /\ Running /\ u \in userBox
  /\ userBox' = userBox \ {u}
  /\ _used' = [_used EXCEPT ![u[1]] =
                 IF u[2] = "LOST" THEN FreeMsg(FreeMsg(@)) ELSE FreeMsg(@)]
  /\ UNCHANGED <<_list, ids, tcpBox, made, queuedBy, sentBy, told, astray, crashed>>

-----------------------------------------------------------------------------
(***************************************************************************)
(* The tcp server's handler                                                *)
(***************************************************************************)
\* tcpconnection_init
NewConn(s, type, state, protocol) ==
  [_id |-> ids + 1, open |-> TRUE, _state |-> state, _type |-> type, _protocol |-> protocol,
   armed |-> state = "CONNECTING", ring |-> ResetRing(_list[s].ring)]

\* tcp_accepter_running accepts while there are free slots.  The first bytes,
\* with which the id comes to other handlers, decide the protocol.
Accept(s) ==
  /\ Running /\ _list[s]._id = 0 /\ ids < MaxIds
  /\ ids' = ids + 1
  /\ told' = told \cup {ids + 1}
  /\ \E protocol \in {"tcp", "http", "flash"} :
       _list' = [_list EXCEPT ![s] = NewConn(s, 0, "NOTHNG", protocol)]
  /\ UNCHANGED <<tcpBox, userBox, made, _used, queuedBy, sentBy, astray, crashed>>

\* A message for a connection that has gone is freed, and then by do_handler.
DoMsgNobody ==
  /\ Running /\ tcpBox # <<>>
  /\ LET m == Head(tcpBox)[1] id == Head(tcpBox)[2] IN
       /\ id # 0 /\ Holder(id) = {}
       /\ _used' = [_used EXCEPT ![m] = FreeMsg(FreeMsg(@))]
  /\ tcpBox' = Tail(tcpBox)
  /\ UNCHANGED <<_list, ids, userBox, made, queuedBy, sentBy, told, astray, crashed>>

\* The message at the head of the handler's queue is for the open connection s.
Takes(s) == Running /\ tcpBox # <<>> /\ s \in Holder(Head(tcpBox)[2])

\* What tcpconnection_add_msg puts into the queue of s.
Queues(s, ms) == queuedBy' = [queuedBy EXCEPT ![_list[s]._id] = @ \o ms]

\* A connection that nothing is sent on is armed for EPOLLOUT.
Arms(s, ring) ==
  _list' = [_list EXCEPT ![s].ring = ring,
                         ![s].armed = @ \/ _list[s]._state = "NOTHNG",
                         ![s]._state = IF @ = "NOTHNG" THEN "SEND" ELSE @]

\* Whether an accepted connection can take n more messages: one for which its
\* queue has no room closes it.
HasRoom(s, n) == _list[s]._type = 0 => _list[s].ring._count + n <= TCPQUEUE_NODE

\* tcpconnection_add_msg takes a use for the queue, do_handler gives up its own.
DoMsgQueued(s) ==
  /\ Takes(s) /\ _list[s]._protocol = "tcp" /\ Head(tcpBox)[3] = "data" /\ HasRoom(s, 1)
  /\ LET m == Head(tcpBox)[1] IN
       Arms(s, Push(_list[s].ring, m)) /\ Queues(s, <<m>>)
  /\ tcpBox' = Tail(tcpBox)
  /\ UNCHANGED <<ids, userBox, made, _used, sentBy, told, astray, crashed>>

\* http_do_msg queues a header of its own making first.
DoMsgHttp(s) ==
  /\ Takes(s) /\ _list[s]._protocol = "http" /\ Head(tcpBox)[3] = "data" /\ HasRoom(s, 2)
  /\ Make(1)
  /\ _used' = [_used EXCEPT ![made'] = 1]
  /\ LET m == Head(tcpBox)[1] IN
       Arms(s, Push(Push(_list[s].ring, made'), m)) /\ Queues(s, <<made', m>>)
  /\ tcpBox' = Tail(tcpBox)
  /\ UNCHANGED <<ids, userBox, sentBy, told, astray, crashed>>

\* flash_do_msg frees the message, whatever it says; the event is armed all the
\* same.
DoMsgFlash(s) ==
  /\ Takes(s) /\ _list[s]._protocol = "flash"
  /\ _used' = [_used EXCEPT ![Head(tcpBox)[1]] = FreeMsg(FreeMsg(@))]
  /\ Arms(s, _list[s].ring)
  /\ tcpBox' = Tail(tcpBox)
  /\ UNCHANGED <<ids, userBox, made, queuedBy, sentBy, told, astray, crashed>>

\* SYSMSG_CLOSE_CONNECTION: tcp_domsg closes it.
DoMsgClose(s) ==
  /\ Takes(s) /\ _list[s]._protocol # "flash" /\ Head(tcpBox)[3] = "close"
  /\ Back(s, _list[s], [_used EXCEPT ![Head(tcpBox)[1]] = FreeMsg(@)])
  /\ tcpBox' = Tail(tcpBox)
  /\ UNCHANGED <<ids, userBox, made, queuedBy, sentBy, told, crashed>>

\* The queue is full: the connection is closed.
DoMsgFull(s) ==
  /\ Takes(s) /\ _list[s]._protocol = "tcp" /\ Head(tcpBox)[3] = "data" /\ ~HasRoom(s, 1)
  /\ Back(s, _list[s], [_used EXCEPT ![Head(tcpBox)[1]] = FreeMsg(FreeMsg(@))])
  /\ tcpBox' = Tail(tcpBox)
  /\ UNCHANGED <<ids, userBox, made, queuedBy, sentBy, told, crashed>>

\* It has room for the header, perhaps, and not for what follows.
DoMsgHttpFull(s) ==
  /\ Takes(s) /\ _list[s]._protocol = "http" /\ Head(tcpBox)[3] = "data" /\ ~HasRoom(s, 2)
  /\ Make(1)
  /\ LET c == _list[s] used == [_used EXCEPT ![Head(tcpBox)[1]] = FreeMsg(FreeMsg(@))] IN
       IF HasRoom(s, 1)
       THEN /\ Back(s, [c EXCEPT !.ring = Push(@, made')], [used EXCEPT ![made'] = 1])
            /\ Queues(s, <<made'>>)
       ELSE Back(s, c, used) /\ UNCHANGED queuedBy
  /\ tcpBox' = Tail(tcpBox)
  /\ UNCHANGED <<ids, userBox, sentBy, told, crashed>>

\* add_tcpconnecting: the message waits in the queue of the new connection.
DoConnect(s) ==
  /\ Running /\ tcpBox # <<>> /\ Head(tcpBox)[3] = "connect"
  /\ _list[s]._id = 0 /\ ids < MaxIds
  /\ ids' = ids + 1
  /\ LET m == Head(tcpBox)[1] IN
       \/ /\ _list' = [_list EXCEPT ![s] =
               [NewConn(s, 1, "CONNECTING", "tcp") EXCEPT !.ring = Push(@, m)]]
          /\ UNCHANGED queuedBy
       \* connect() succeeds at once: nothing is armed, and who asked is not told
       \/ /\ _list' = [_list EXCEPT ![s] =
               [NewConn(s, 1, "NOTHNG", "tcp") EXCEPT !.ring = Push(@, m)]]
          /\ queuedBy' = [queuedBy EXCEPT ![ids'] = <<m>>]
  /\ tcpBox' = Tail(tcpBox)
  /\ UNCHANGED <<userBox, made, _used, sentBy, told, astray, crashed>>

\* No free slot, or connect fails at once.
ConnectFails ==
  /\ Running /\ tcpBox # <<>> /\ Head(tcpBox)[3] = "connect"
  /\ crashed' = TRUE
  /\ UNCHANGED <<_list, ids, tcpBox, userBox, made, _used, queuedBy, sentBy, told, astray>>

\* EPOLLERR, a failing or ended read, and the time limit, which only accepted
\* connections have.
Closes(s) ==
  /\ Running /\ _list[s].open
  /\ Back(s, _list[s], _used)
  /\ UNCHANGED <<ids, tcpBox, userBox, made, queuedBy, sentBy, told, crashed>>

\* The parser of Flash answers while it reads, and arms nothing.
FlashAnswer(s) ==
  /\ Running /\ _list[s].open /\ _list[s]._protocol = "flash"
  /\ _list[s].ring._count < TCPQUEUE_NODE
  /\ Make(1)
  /\ _used' = [_used EXCEPT ![made'] = 1]
  /\ _list' = [_list EXCEPT ![s].ring = Push(@, made')]
  /\ Queues(s, <<made'>>)
  /\ UNCHANGED <<ids, tcpBox, userBox, sentBy, told, astray, crashed>>

\* SO_ERROR: whoever asked is told, and the connection is closed.
ConnectLost(s) ==
  /\ Running /\ _list[s].open /\ _list[s]._state = "CONNECTING"
  /\ LET r == _list[s].ring m == r._queue[r._head] IN
       /\ userBox' = userBox \cup {<<m, "LOST">>}
       /\ Back(s, [_list[s] EXCEPT !.ring = Pop(@, 1)], [_used EXCEPT ![m] = @ + 1])
  /\ UNCHANGED <<ids, tcpBox, made, queuedBy, sentBy, told, crashed>>

\* The connection is there: whoever asked is told its id, and the bytes that
\* came with the request are queued as a message of their own.
Connected(s) ==
  /\ Running /\ _list[s].open /\ _list[s]._state = "CONNECTING"
  /\ Make(1)
  /\ LET r == _list[s].ring m == r._queue[r._head] IN
       /\ userBox' = userBox \cup {<<m, "CONNECT">>}
       /\ _used' = [_used EXCEPT ![m] = @ + 1, ![made'] = 1]
       /\ _list' = [_list EXCEPT ![s].ring = Push(Pop(@, 1), made'), ![s]._state = "NOTHNG"]
       /\ told' = told \cup {_list[s]._id}
  /\ Queues(s, <<made'>>)
  /\ UNCHANGED <<ids, tcpBox, sentBy, astray, crashed>>

\* Broken variant: the event is given up when something was sent.
Disarms_Sent(c, n) == n > 0

\* Everything is sent: the event is given up.
Disarms(c, n) == c.ring._count = n

\* EPOLLOUT: n messages go out whole, the last one of all if the socket takes
\* them, each with its use for the queue.
SendsOut(s, n) ==
  LET c == _list[s] r == c.ring IN
  /\ Running /\ c.open /\ c.armed /\ c._state # "CONNECTING"
  /\ n <= r._count
  /\ \E more \in BOOLEAN :
       /\ IF n = r._count THEN FindsEnd(Pop(r, n), more) ELSE more = FALSE
       /\ astray' = (more \/ Strays(r, n))
  /\ sentBy' = [sentBy EXCEPT ![c._id] = @ \o Foremost(r, n)]
  /\ _used' = [m \in Msgs |->
       IF \E i \in 1 .. n : Foremost(r, n)[i] = m THEN FreeMsg(_used[m]) ELSE _used[m]]
  /\ _list' = [_list EXCEPT
       ![s].ring = Pop(r, n),
       ![s].armed = @ /\ ~Disarms(c, n),
       ![s]._state = IF Disarms(c, n) THEN "NOTHNG" ELSE @]
  /\ UNCHANGED <<ids, tcpBox, userBox, made, queuedBy, told, crashed>>

TcpNext ==
  \/ \E id \in Ids : SendMsg(id, "data") \/ SendMsg(id, "close")
  \/ ConnectServer
  \/ \E u \in userBox : UserHandles(u)
  \/ DoMsgNobody \/ ConnectFails
  \/ \E s \in Slots :
       \/ DoMsgQueued(s) \/ DoMsgHttp(s) \/ DoMsgFlash(s) \/ DoMsgClose(s)
       \/ DoMsgFull(s) \/ DoMsgHttpFull(s)
       \/ Accept(s) \/ DoConnect(s) \/ Closes(s) \/ FlashAnswer(s)
       \/ ConnectLost(s) \/ Connected(s)
       \/ \E n \in Msgs : SendsOut(s, n)

-----------------------------------------------------------------------------
TcpTypeOK ==
  /\ ids \in 0 .. MaxIds /\ made \in 0 .. MaxMsgs
  /\ _used \in [Msgs -> Gone .. MaxMsgs]
  /\ astray \in BOOLEAN /\ crashed \in BOOLEAN
  /\ \A s \in Slots :
       /\ _list[s]._id \in 0 .. ids
       /\ _list[s]._state \in {"CONNECTING", "NOTHNG", "SEND"}
       /\ _list[s].armed \in BOOLEAN

\* Until a connection goes astray, what it has sent is what was queued for it,
\* in order, each once: nothing of the former owner of its slot, no message
\* left out.
SentInOrder ==
  ~astray => \A i \in Ids :
    \E n \in 0 .. Len(queuedBy[i]) : sentBy[i] = SubSeq(queuedBy[i], 1, n)

\* Messages that wait have the event that sends them; only the answers of the
\* Flash parser, and the request of a connection that was there at once and
\* that nobody is told of, may wait without it.
QueuedIsArmed ==
  ~astray => \A s \in Slots :
    LET c == _list[s] IN
    c.open /\ c.ring._count > 0 =>
      c.armed \/ c._protocol = "flash" \/ (c._type = 1 /\ c._id \notin told)

\* Nobody holds a message that was destroyed, and nobody's use is forgotten:
\* the handlers and queues that hold one are at most as many as its uses.
UsesCounted ==
  LET holders(m) ==
        Cardinality({i \in DOMAIN tcpBox : tcpBox[i][1] = m})
        + Cardinality({u \in userBox : u[1] = m})
        + Cardinality({s \in Slots : _list[s]._id # 0 /\ m \in Queued(_list[s].ring)})
  IN ~astray => \A m \in Msgs : holders(m) > 0 => _used[m] >= holders(m)
=============================================================================
