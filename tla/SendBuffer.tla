------------------------------ MODULE SendBuffer ------------------------------
(***************************************************************************)
(* The sending side of a Session (CommBase/Network): the circular buffer   *)
(* CCircleBuff, Session::Write, which fills it from the dispatch threads,  *)
(* and Session::Send, which an EPOLLOUT event makes the epoll thread run.  *)
(*                                                                         *)
(* A packet is written whole or not at all.  When the tail has no room the *)
(* writer goes on at index 0 and m_lastIndex remembers where the reader    *)
(* must turn.  m_bufLock makes Write's use of the buffer and the whole of  *)
(* Send atomic; Write's epoll_ctl comes after it has given the lock up.    *)
(* Events are edge-triggered (EPOLLET).                                    *)
(***************************************************************************)
EXTENDS Naturals, Sequences

CONSTANTS
  Threads,    \* threads that write to the session
  ClientCap,  \* MAX_NET_MSG_SIZE[eClientBuf]
  ServerCap,  \* MAX_NET_MSG_SIZE[eServerBuf]
  MaxLen,     \* the longest packet, MAX_MSG_PACKET_SIZE
  Horizon     \* bound of the model: how many bytes are ever accepted

\* 64K against 512K and 1024K in define.h:61-66.
ASSUME SizesAssumption ==
  /\ ClientCap \in Nat /\ ServerCap \in Nat /\ MaxLen \in Nat /\ Horizon \in Nat
  /\ MaxLen > 0
  /\ 2 * MaxLen <= ClientCap /\ ClientCap <= ServerCap

VARIABLES
  m_readIndex, m_writeIndex, m_lastIndex, m_bufCapacity,
  m_buffer,  \* at each index the number of the byte it holds, 0 at first
  rearm,     \* threads between Write's unlock and its epoll_ctl
  event,     \* an EPOLLOUT event is waiting for epoll_wait
  full,      \* the socket takes no more: send said EAGAIN
  \* What the stream has done, as in ByteStream.
  accepted, emitted, chunk

indices == <<m_readIndex, m_writeIndex, m_lastIndex, m_bufCapacity>>
stream  == <<accepted, emitted, chunk>>
vars    == <<indices, m_buffer, rearm, event, full, stream>>

Init ==
  /\ m_readIndex = 0 /\ m_writeIndex = 0
  /\ m_lastIndex = ClientCap /\ m_bufCapacity = ClientCap
  /\ m_buffer = [i \in 0 .. ServerCap - 1 |-> 0]
  /\ rearm = {} /\ event = FALSE /\ full = FALSE
  /\ accepted = 0 /\ emitted = 0 /\ chunk = <<>>

IsNormal == m_readIndex <= m_writeIndex
IsEmpty  == m_readIndex = m_writeIndex

-----------------------------------------------------------------------------
(***************************************************************************)
(* Session::Write: WriteData or WriteBuffer of a packet of len bytes.      *)
(***************************************************************************)

\* Broken variant: turns although the reader is at the very start.
IsWriteOverAgain_NoReadGuard(len) ==
  IsNormal /\ m_bufCapacity - m_writeIndex < len

\* IsWriteOverAgain: the tail is too short, so go on at the front.
IsWriteOverAgain(len) ==
  IsNormal /\ m_bufCapacity - m_writeIndex < len /\ m_readIndex > 1

\* Broken variant: one byte past the end.
GetWriteLen_PastTheEnd(r, w) ==
  IF r <= w THEN m_bufCapacity - w + 1 ELSE r - w - 1

\* GetWriteLen of a buffer whose indices are r and w.
GetWriteLen(r, w) == IF r <= w THEN m_bufCapacity - w ELSE r - w - 1

\* Where a packet of len bytes goes, and whether it finds room there.
WriteAt(len) == IF IsWriteOverAgain(len) THEN 0 ELSE m_writeIndex
Fits(len)    == len <= GetWriteLen(m_readIndex, WriteAt(len))

\* The packet fits: it is copied behind m_writeIndex.
Write(t, len) ==
  LET w == WriteAt(len) IN
  /\ t \notin rearm
  /\ accepted + len <= Horizon
  /\ Fits(len)
  /\ m_lastIndex' = IF IsWriteOverAgain(len) THEN m_writeIndex ELSE m_lastIndex
  /\ m_writeIndex' = w + len
  /\ m_buffer' = [i \in DOMAIN m_buffer |->
                    IF i \in w .. w + len - 1 THEN accepted + 1 + (i - w)
                                              ELSE m_buffer[i]]
  /\ accepted' = accepted + len
  /\ rearm' = rearm \cup {t}
  /\ UNCHANGED <<m_readIndex, m_bufCapacity, event, full, emitted, chunk>>

\* eNoEnughWrite: the packet is dropped, but the writer may have turned.
WriteFails(t, len) ==
  /\ t \notin rearm
  /\ ~Fits(len)
  /\ m_lastIndex' = IF IsWriteOverAgain(len) THEN m_writeIndex ELSE m_lastIndex
  /\ m_writeIndex' = WriteAt(len)
  /\ UNCHANGED <<m_readIndex, m_bufCapacity, m_buffer, rearm, event, full, stream>>

\* Broken variant: the event mask is not set again.
EpollCtl_Skipped(t) ==
  /\ t \in rearm
  /\ rearm' = rearm \ {t}
  /\ UNCHANGED <<indices, m_buffer, event, full, stream>>

\* EPOLL_CTL_MOD: a new edge if the socket takes bytes now.
EpollCtl(t) ==
  /\ t \in rearm
  /\ rearm' = rearm \ {t}
  /\ event' = (event \/ ~full)
  /\ UNCHANGED <<indices, m_buffer, full, stream>>

-----------------------------------------------------------------------------
(***************************************************************************)
(* Session::Send.                                                          *)
(***************************************************************************)

\* IsReadOverAgain: where the reader and its turning point are afterwards.
IsReadOverAgain ==
  IF ~IsNormal /\ m_readIndex >= m_lastIndex
    THEN [read |-> 0, last |-> m_bufCapacity]
    ELSE [read |-> m_readIndex, last |-> m_lastIndex]

\* Broken variant: reads on to the end, past the turning point.
GetReadLen_ToTheEnd(r, last) ==
  IF r <= m_writeIndex THEN m_writeIndex - r ELSE m_bufCapacity - r

\* GetReadLen: one run of bytes, up to the writer or to the turning point.
GetReadLen(r, last) ==
  IF r <= m_writeIndex THEN m_writeIndex - r ELSE last - r

\* IsEmpty before ReadSendBuff: nothing happens.
SendEmpty ==
  /\ event /\ IsEmpty
  /\ event' = FALSE
  /\ UNCHANGED <<indices, m_buffer, rearm, full, stream>>

\* ReadSendBuff, send until the run has gone or EAGAIN, HadRead.  The rest of
\* a buffer that has turned waits for the next event.  The last byte of the
\* run may be the one that fills the socket.
Send ==
  LET at == IsReadOverAgain
      n  == GetReadLen(at.read, at.last) IN
  /\ event /\ ~IsEmpty
  /\ event' = FALSE
  /\ m_lastIndex' = at.last
  /\ \/ /\ n = 0
        /\ m_readIndex' = at.read
        /\ UNCHANGED <<full, stream>>
     \/ \E m \in 1 .. n :
          /\ m_readIndex' = at.read + m
          /\ chunk' = [i \in 1 .. m |-> m_buffer[at.read + i - 1]]
          /\ emitted' = emitted + m
          /\ full' \in BOOLEAN /\ (m < n => full')
          /\ UNCHANGED accepted
  /\ UNCHANGED <<m_writeIndex, m_bufCapacity, m_buffer, rearm>>

-----------------------------------------------------------------------------
\* The kernel has sent some of what it holds: a new edge.
Drain ==
  /\ full
  /\ full' = FALSE /\ event' = TRUE
  /\ UNCHANGED <<indices, m_buffer, rearm, stream>>

\* An event of the other direction also reports that the socket is writable.
OtherEvent ==
  /\ ~full /\ ~event
  /\ event' = TRUE
  /\ UNCHANGED <<indices, m_buffer, rearm, full, stream>>

\* ConnectSuccess's ResetSendBuf for a peer that is a server.  The handshake
\* is over, so everything accepted has been sent.
ResetSendBuf ==
  /\ m_bufCapacity = ClientCap /\ accepted = emitted /\ rearm = {}
  /\ m_bufCapacity' = ServerCap
  /\ m_readIndex' = 0 /\ m_writeIndex' = 0 /\ m_lastIndex' = ServerCap
  /\ UNCHANGED <<m_buffer, rearm, event, full, stream>>

Next ==
  \/ \E t \in Threads, len \in 1 .. MaxLen : Write(t, len) \/ WriteFails(t, len)
  \/ \E t \in Threads : EpollCtl(t)
  \/ SendEmpty \/ Send
  \/ Drain \/ OtherEvent \/ ResetSendBuf

Spec == Init /\ [][Next]_vars

-----------------------------------------------------------------------------
TypeOK ==
  /\ m_bufCapacity \in {ClientCap, ServerCap}
  /\ m_readIndex \in 0 .. m_bufCapacity
  /\ m_writeIndex \in 0 .. m_bufCapacity
  /\ m_lastIndex \in 0 .. m_bufCapacity
  /\ m_buffer \in [0 .. ServerCap - 1 -> Nat]
  /\ rearm \subseteq Threads
  /\ event \in BOOLEAN /\ full \in BOOLEAN
  /\ accepted \in Nat /\ emitted \in Nat
  /\ chunk \in Seq(Nat)

\* The bytes at from .. to - 1 are those that follow the n-th.
Run(from, to, n) ==
  \A i \in from .. to - 1 : m_buffer[i] = n + 1 + (i - from)

(***************************************************************************)
(* Where the bytes lie: the reader's run, then, in a buffer that has       *)
(* turned, the run at the front.  Every byte between reader and writer is  *)
(* the one the stream has reached, so no write lands on unsent bytes.      *)
(***************************************************************************)
BytesInPlace ==
  /\ IsNormal =>
       /\ accepted - emitted = m_writeIndex - m_readIndex
       /\ Run(m_readIndex, m_writeIndex, emitted)
  /\ ~IsNormal =>
       /\ m_readIndex <= m_lastIndex
       /\ accepted - emitted = m_lastIndex - m_readIndex + m_writeIndex
       /\ Run(m_readIndex, m_lastIndex, emitted)
       /\ Run(0, m_writeIndex, emitted + (m_lastIndex - m_readIndex))

\* The buffer is a byte stream, whatever the packets and the partial sends.
Stream == INSTANCE ByteStream
IsByteStream == Stream!Spec

(***************************************************************************)
(* A packet is dropped only if bytes are waiting: a buffer without unsent  *)
(* bytes takes any packet, wherever its indices are.  This needs packets   *)
(* of at most half the buffer.                                             *)
(***************************************************************************)
DropsOnlyIfWaiting ==
  accepted = emitted => \A len \in 1 .. MaxLen : Fits(len)

(***************************************************************************)
(* Unsent bytes never wait for nothing: an event is on its way, a writer   *)
(* is about to cause one, or the socket is full and will report when it is *)
(* not.  One case is left out because Send leaves it: it has sent the run  *)
(* up to the turning point and returned, and the run at the front waits    *)
(* for the next packet.                                                    *)
(***************************************************************************)
AtTurn == ~IsNormal /\ m_readIndex = m_lastIndex

NoLostWakeup ==
  accepted # emitted /\ ~AtTurn => event \/ rearm # {} \/ full

(***************************************************************************)
(* Liveness: the epoll thread serves its events, a writer reaches its      *)
(* epoll_ctl, the peer reads.  Every accepted byte is sent, or Send has    *)
(* stopped at the turning point.                                           *)
(***************************************************************************)
FairSpec ==
  /\ Spec
  /\ WF_vars(Send) /\ WF_vars(SendEmpty) /\ WF_vars(Drain)
  /\ \A t \in Threads : WF_vars(EpollCtl(t))

BytesGoOut ==
  \A k \in 1 .. Horizon : accepted >= k ~> (emitted >= k \/ AtTurn)
=============================================================================
