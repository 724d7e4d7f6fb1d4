----------------------------- MODULE SessionRecv -----------------------------
(***************************************************************************)
(* The messages of one session on their way (CommBase/Network): how the    *)
(* builders of the servers (MessageBuild) and CSessionMgr::AddMessage fill *)
(* in who a message is for, the header they write, and Session::Recv,      *)
(* which cuts the bytes of the socket into messages again.                 *)
(*                                                                         *)
(* A header goes in network order to and from a client, and as it lies in  *)
(* memory between servers: who writes decides by the type of the           *)
(* addressee, who reads by the type of the sender.                         *)
(*                                                                         *)
(* A byte is the number of its message and its place in it; HEADER, DIGEST *)
(* and MAX are the lengths of headers, MD5 digests and packets, small.     *)
(* The other end of a client's session is not in the repository.           *)
(***************************************************************************)
EXTENDS Naturals, Sequences, Functions

CONSTANTS
  Lengths,  \* lengths of contents that are sent
  HEADER, DIGEST,
  MAX,      \* MAX_MSG_PACKET_SIZE, and MAX_RECV_MSG_SIZE, the buffer's
  MaxFrames \* bound of the model: messages that are sent

VARIABLES
  from, to,      \* types of the two ends
  m_security,    \* of both ends: contents carry their digest
  packets,       \* the headers of the messages sent, in order
  unread, fin,   \* bytes in the socket, and whether the sender has closed it
  event,         \* epoll_wait is to report something
  m_bufRecv,     \* the bytes kept (dwRecvPos is their number)
  receiving,     \* "no", "recv", "cut": in which loop Session::Recv is
  vec, heard,    \* messages cut out, and given to the dispatcher
  open,
  \* History: messages of vec when the session closed; the first byte is no
  \* longer one of a header; and a header read in another order than written.
  lost, skewed, garbled

recvVars == <<from, to, m_security, packets, unread, fin, event, m_bufRecv, receiving, vec,
              heard, open, lost, skewed, garbled>>

eClient == 0
Servers == {1, 2}  \* two types of servers

Types   == {eClient} \cup Servers

Packets == [length : Lengths \cup {n + DIGEST : n \in Lengths},
            remoteType : Types, localType : Types, network : BOOLEAN]

RecvInit ==
  /\ from \in Types /\ to \in Types /\ from # to
  /\ m_security \in BOOLEAN
  /\ packets = <<>> /\ unread = <<>> /\ fin = FALSE /\ event = FALSE
  /\ m_bufRecv = <<>> /\ receiving = "no" /\ vec = <<>> /\ heard = <<>>
  /\ open = TRUE /\ lost = {} /\ skewed = FALSE /\ garbled = FALSE

-----------------------------------------------------------------------------
(***************************************************************************)
(* Sending.                                                                *)
(***************************************************************************)

(* build_message: what a builder knows of the addressee, and whose message it is. *)

\* An answer is a copy of the request, whose types SetHead has turned round.
CopyOfRequest == [known |-> TRUE, remoteType |-> to, localType |-> from]

\* An item of the registry names the server it stands for.
ByItem == [known |-> TRUE, remoteType |-> to, localType |-> from]

\* Of a channel number no more is known: id -1, type 0.
ByChannel == [known |-> FALSE, remoteType |-> eClient, localType |-> from]

\* A message that is passed on keeps its local type: it was addressed to us.
Forwarded == [ByChannel EXCEPT !.localType = CopyOfRequest.localType]

\* A client knows its server.
Builds == IF from = eClient THEN {ByItem} ELSE {CopyOfRequest, ByItem, ByChannel, Forwarded}

\* Broken variant: leaves the type as the builder has left it.
FilledIn_IDOnly(m) == m

\* CSessionMgr::AddMessage: where the id is -1, id and type are the session's.
FilledIn(m) == IF m.known THEN m ELSE [m EXCEPT !.remoteType = to]

\* Message::SetContent: what is too long for a packet is not set at all.
Content(n) == IF n + HEADER + DIGEST > MAX THEN 0 ELSE n

\* Message::EncryptMessage: the digest follows the content.
Encrypted(n) == IF m_security THEN n + DIGEST ELSE n

\* GetHead, toSmallEndian: network order for clients.
Packet(m, n) ==
  [length |-> Encrypted(Content(n)), remoteType |-> m.remoteType, localType |-> m.localType,
   network |-> m.localType = eClient \/ m.remoteType = eClient]

Bytes(i, p) == [k \in 1 .. HEADER + p.length |-> <<i, k>>]

Send(m, n) ==
  /\ ~fin /\ open /\ Len(packets) < MaxFrames
  /\ LET p == Packet(FilledIn(m), n)
     IN  /\ packets' = Append(packets, p)
         /\ unread' = unread \o Bytes(Len(packets) + 1, p)
  /\ event' = TRUE
  /\ UNCHANGED <<from, to, m_security, fin, m_bufRecv, receiving, vec, heard, open, lost,
                 skewed, garbled>>

Close ==
  /\ ~fin /\ fin' = TRUE /\ event' = TRUE
  /\ UNCHANGED <<from, to, m_security, packets, unread, m_bufRecv, receiving, vec, heard,
                 open, lost, skewed, garbled>>

-----------------------------------------------------------------------------
(***************************************************************************)
(* Receiving: a client, and Session::Recv of a server.                     *)
(***************************************************************************)

\* A client reads what comes, every header in network order.
ClientReads ==
  /\ to = eClient /\ unread # <<>>
  /\ LET i == Head(unread)[1] IN
       /\ unread' = SubSeq(unread, HEADER + packets[i].length + 1, Len(unread))
       /\ heard' = Append(heard, i)
       /\ garbled' = (garbled \/ ~packets[i].network)
  /\ UNCHANGED <<from, to, m_security, packets, fin, event, m_bufRecv, receiving, vec, open,
                 lost, skewed>>

\* The epoll thread calls Recv, unless the event also says that the other end
\* has closed: then what is unread is lost with the session.
Readable ==
  /\ to # eClient /\ open /\ receiving = "no" /\ event
  /\ event' = FALSE
  /\ IF fin THEN open' = FALSE /\ UNCHANGED receiving
            ELSE receiving' = "recv" /\ UNCHANGED open
  /\ UNCHANGED <<from, to, m_security, packets, unread, fin, m_bufRecv, vec, heard, lost,
                 skewed, garbled>>

\* recv returns some bytes; with less than a header it is called again.
ReadBytes(n) ==
  /\ receiving = "recv" /\ n <= Len(unread) /\ Len(m_bufRecv) + n <= MAX
  /\ m_bufRecv' = m_bufRecv \o SubSeq(unread, 1, n)
  /\ unread' = SubSeq(unread, n + 1, Len(unread))
  /\ receiving' = IF Len(m_bufRecv) + n < HEADER THEN "recv" ELSE "cut"
  /\ UNCHANGED <<from, to, m_security, packets, fin, event, vec, heard, open, lost, skewed,
                 garbled>>

\* recv has nothing more (EAGAIN): the dispatcher is given what there is.
Dispatch ==
  /\ receiving = "recv" /\ unread = <<>> /\ ~fin
  /\ receiving' = "no"
  /\ heard' = heard \o vec /\ vec' = <<>>
  /\ UNCHANGED <<from, to, m_security, packets, unread, fin, event, m_bufRecv, open, lost,
                 skewed, garbled>>

\* eSocketClose: the session goes, and vec with it.
SocketClose ==
  /\ receiving' = "no" /\ open' = FALSE
  /\ lost' = lost \cup Range(vec) /\ vec' = <<>>

\* recv returns 0 when the other end has closed, ...
EndOfStream ==
  /\ receiving = "recv" /\ unread = <<>> /\ fin
  /\ SocketClose
  /\ UNCHANGED <<from, to, m_security, packets, unread, fin, event, m_bufRecv, heard, skewed,
                 garbled>>

AtHeader == Len(m_bufRecv) >= HEADER /\ m_bufRecv[1][2] = 1
Frame    == packets[m_bufRecv[1][1]]
Size     == HEADER + Frame.length
Whole    == AtHeader /\ Len(m_bufRecv) >= Size
Legible  == Frame.network = (Frame.localType = eClient)  \* toBigEndian

\* SafeMemmove of n bytes to the front, with MAX - n as the room there is.
Keeps(n) == n <= MAX - n

\* The rest of the buffer is no whole message: kept, or forgotten if it is
\* more than half a buffer.
CutEnds ==
  /\ receiving = "cut" /\ (AtHeader => Legible /\ ~Whole)
  /\ AtHeader \/ Len(m_bufRecv) < HEADER
  /\ receiving' = "recv"
  /\ IF Keeps(Len(m_bufRecv)) THEN UNCHANGED <<m_bufRecv, skewed>>
                              ELSE m_bufRecv' = <<>> /\ skewed' = TRUE
  /\ UNCHANGED <<from, to, m_security, packets, unread, fin, event, vec, heard, open, lost,
                 garbled>>

\* Message::SetContent of the receiver leaves room for a digest once more;
\* without its content the message does not have the digest it should.
Genuine == m_security => Frame.length + HEADER + DIGEST <= MAX

\* Broken variant: the length of the header is forgotten.
CutFrame_HeaderStays ==
  /\ receiving = "cut" /\ Whole /\ Legible
  /\ m_bufRecv' = SubSeq(m_bufRecv, Frame.length + 1, Len(m_bufRecv))
  /\ vec' = IF Frame.remoteType = to /\ Genuine THEN Append(vec, m_bufRecv[1][1]) ELSE vec
  /\ UNCHANGED <<from, to, m_security, packets, unread, fin, event, receiving, heard, open,
                 lost, skewed, garbled>>

\* A whole message: taken if it is for this server and has its digest.
CutFrame ==
  /\ receiving = "cut" /\ Whole /\ Legible
  /\ m_bufRecv' = SubSeq(m_bufRecv, Size + 1, Len(m_bufRecv))
  /\ vec' = IF Frame.remoteType = to /\ Genuine THEN Append(vec, m_bufRecv[1][1]) ELSE vec
  /\ UNCHANGED <<from, to, m_security, packets, unread, fin, event, receiving, heard, open,
                 lost, skewed, garbled>>

\* What is no header is taken for one: it cannot be right, and the session of
\* a client is closed and the buffer of a server's emptied, or it happens to
\* pass for a header of an empty message to somebody else.
Misread ==
  /\ receiving = "cut" /\ Len(m_bufRecv) >= HEADER /\ ~(AtHeader /\ Legible)
  /\ garbled' = (garbled \/ AtHeader)
  /\ \/ from = eClient /\ SocketClose /\ UNCHANGED m_bufRecv
     \/ /\ from # eClient /\ m_bufRecv' = <<>> /\ receiving' = "recv"
        /\ UNCHANGED <<vec, open, lost>>
     \/ /\ m_bufRecv' = SubSeq(m_bufRecv, HEADER + 1, Len(m_bufRecv))
        /\ UNCHANGED <<receiving, vec, open, lost>>
  /\ UNCHANGED <<from, to, m_security, packets, unread, fin, event, heard, skewed>>

-----------------------------------------------------------------------------
Recv == Dispatch \/ EndOfStream \/ CutEnds \/ CutFrame \/ Misread

RecvNext ==
  \/ \E m \in Builds, n \in Lengths : Send(m, n)
  \/ Close
  \/ ClientReads
  \/ Readable
  \/ \E n \in 1 .. MAX : ReadBytes(n)
  \/ Recv

-----------------------------------------------------------------------------
RecvTypeOK ==
  /\ {from, to} \subseteq Types /\ m_security \in BOOLEAN
  /\ packets \in Seq(Packets) /\ Len(packets) <= MaxFrames
  /\ \A s \in {unread, m_bufRecv} : \A k \in DOMAIN s : s[k][1] \in DOMAIN packets
  /\ Len(m_bufRecv) <= MAX
  /\ receiving \in {"no", "recv", "cut"}
  /\ \A s \in {vec, heard} : s \in Seq(DOMAIN packets)
  /\ lost \subseteq DOMAIN packets
  /\ {fin, event, open, skewed, garbled} \subseteq BOOLEAN

\* The messages that no byte is left of.
Passed == {i \in DOMAIN packets : \A s \in {m_bufRecv, unread} : \A k \in DOMAIN s : s[k][1] > i}

\* The messages a receiver with digests refuses although the sender took them.
TooLong == {i \in DOMAIN packets : /\ to # eClient /\ m_security
                                   /\ packets[i].length + HEADER + DIGEST > MAX}

\* However the stream is split, whoever built the messages and whoever reads
\* them: no header is read in another order than it was written; messages are
\* heard once and in order, each that was read, but those that were cut when
\* the session closed or are too long with their digest.  The stream is lost
\* only where a message of more than half a buffer came in pieces.
MessagesHeard ==
  /\ ~garbled
  /\ \A i, j \in 1 .. Len(heard \o vec) : i < j => (heard \o vec)[i] < (heard \o vec)[j]
  /\ skewed \/ Passed \subseteq Range(heard \o vec) \cup lost \cup TooLong
  /\ skewed => \E i \in DOMAIN packets : 2 * (HEADER + packets[i].length) > MAX
=============================================================================
