-------------------------- MODULE SendBuffer_proof --------------------------
(***************************************************************************)
(* Proofs about SendBuffer, for any threads, buffer sizes and packets of   *)
(* at most half the buffer.                                                *)
(***************************************************************************)
EXTENDS SendBuffer, TLAPS

(***************************************************************************)
(* BytesInPlace does not carry itself: whether a packet lands on unsent    *)
(* bytes depends on where the reader will turn.  Unless the buffer has     *)
(* turned that is its end; if it has, the tail it gave up is shorter than  *)
(* a packet.                                                               *)
(***************************************************************************)
TurningPoint ==
  IF IsNormal THEN m_lastIndex = m_bufCapacity
              ELSE m_bufCapacity - m_lastIndex < MaxLen

IInv == TypeOK /\ TurningPoint /\ BytesInPlace

\* The numbers of a typed state.
LEMMA Numbers ==
  ASSUME TypeOK
  PROVE  /\ m_readIndex \in Nat /\ m_writeIndex \in Nat /\ m_lastIndex \in Nat
         /\ m_bufCapacity \in Nat /\ ServerCap \in Nat /\ m_bufCapacity <= ServerCap
         /\ m_readIndex <= m_bufCapacity /\ m_writeIndex <= m_bufCapacity
         /\ m_lastIndex <= m_bufCapacity
         /\ accepted \in Nat /\ emitted \in Nat
BY SizesAssumption DEF TypeOK

\* What a packet of len bytes may take: it lies between the writer and the
\* reader, or between the writer and the end.
LEMMA RoomIsFree ==
  ASSUME IInv, NEW len \in 1 .. MaxLen,
         NEW w \in Nat, w = WriteAt(len), Fits(len)
  PROVE  /\ w + len <= m_bufCapacity
         /\ w < m_readIndex => w + len < m_readIndex
BY SizesAssumption
   DEF IInv, TypeOK, Fits, WriteAt, GetWriteLen, IsWriteOverAgain, IsNormal

LEMMA InitIInv == Init => IInv
<1> SUFFICES ASSUME Init PROVE IInv
  OBVIOUS
<1>1. chunk \in Seq(Nat)
  BY DEF Init
<1>2. m_buffer \in [0 .. ServerCap - 1 -> Nat]
  BY DEF Init
<1>3. /\ m_bufCapacity \in {ClientCap, ServerCap}
      /\ m_readIndex \in 0 .. m_bufCapacity
      /\ m_writeIndex \in 0 .. m_bufCapacity
      /\ m_lastIndex \in 0 .. m_bufCapacity
      /\ accepted \in Nat /\ emitted \in Nat
  BY SizesAssumption DEF Init
<1>4. TypeOK
  <2>1. rearm \subseteq Threads /\ event \in BOOLEAN /\ full \in BOOLEAN
    BY DEF Init
  <2> QED BY <1>1, <1>2, <1>3, <2>1 DEF TypeOK
<1>5. TurningPoint /\ BytesInPlace
  BY SizesAssumption DEF Init, TurningPoint, BytesInPlace, Run, IsNormal
<1> QED BY <1>4, <1>5 DEF IInv

\* The turn of the writer, without the copy, keeps every byte where it is.
LEMMA WriteFailsKeepsIInv ==
  ASSUME IInv, NEW t \in Threads, NEW len \in 1 .. MaxLen, WriteFails(t, len)
  PROVE  IInv'
<1>1. CASE IsWriteOverAgain(len)
  <2>1. /\ IsNormal /\ m_readIndex > 1 /\ m_bufCapacity - m_writeIndex < len
        /\ m_lastIndex' = m_writeIndex /\ m_writeIndex' = 0
        /\ UNCHANGED <<m_readIndex, m_bufCapacity, m_buffer, stream, rearm, event, full>>
    BY <1>1 DEF WriteFails, WriteAt, IsWriteOverAgain
  <2>2. ~IsNormal'
    BY <2>1 DEF IsNormal, IInv, TypeOK
  <2>3. TypeOK' /\ TurningPoint'
    BY <2>1, <2>2, SizesAssumption DEF IInv, TypeOK, TurningPoint, stream
  <2>4. BytesInPlace'
    BY <2>1, <2>2 DEF IInv, TypeOK, BytesInPlace, Run, IsNormal, stream
  <2> QED BY <2>3, <2>4 DEF IInv
<1>2. CASE ~IsWriteOverAgain(len)
  <2>1. UNCHANGED <<indices, m_buffer, rearm, event, full, stream>>
    BY <1>2 DEF WriteFails, WriteAt, indices
  <2> QED BY <2>1 DEF IInv, TypeOK, TurningPoint, BytesInPlace, Run, IsNormal,
              indices, stream
<1> QED BY <1>1, <1>2

LEMMA WriteKeepsIInv ==
  ASSUME IInv, NEW t \in Threads, NEW len \in 1 .. MaxLen, Write(t, len)
  PROVE  IInv'
<1> DEFINE w == IF IsWriteOverAgain(len) THEN 0 ELSE m_writeIndex
<1>1. w \in Nat /\ len \in Nat /\ len > 0
  BY SizesAssumption DEF IInv, TypeOK
<1>2. /\ w + len <= m_bufCapacity
      /\ w < m_readIndex => w + len < m_readIndex
  BY <1>1, RoomIsFree DEF Write, WriteAt
<1>3. /\ m_writeIndex' = w + len /\ accepted' = accepted + len
      /\ UNCHANGED <<m_readIndex, m_bufCapacity, event, full, emitted, chunk>>
      /\ rearm' = rearm \cup {t}
      /\ m_lastIndex' = IF IsWriteOverAgain(len) THEN m_writeIndex ELSE m_lastIndex
  BY DEF Write, WriteAt
<1>4. \A i \in 0 .. ServerCap - 1 :
         m_buffer'[i] = IF i \in w .. w + len - 1 THEN accepted + 1 + (i - w)
                                                  ELSE m_buffer[i]
  BY DEF Write, WriteAt, IInv, TypeOK
<1>5. m_buffer' \in [0 .. ServerCap - 1 -> Nat]
  <2>1. \A i \in w .. w + len - 1 : accepted + 1 + (i - w) \in Nat
    BY <1>1 DEF IInv, TypeOK
  <2> QED BY <2>1 DEF Write, WriteAt, IInv, TypeOK
<1>6. /\ m_readIndex \in Nat /\ m_writeIndex \in Nat /\ m_lastIndex \in Nat
      /\ m_bufCapacity \in Nat /\ ServerCap \in Nat /\ m_bufCapacity <= ServerCap
      /\ m_readIndex <= m_bufCapacity /\ m_writeIndex <= m_bufCapacity
      /\ m_lastIndex <= m_bufCapacity
      /\ accepted \in Nat /\ emitted \in Nat
  BY Numbers DEF IInv
<1>7. CASE IsWriteOverAgain(len)
  <2>1. IsNormal /\ m_readIndex > 1 /\ m_bufCapacity - m_writeIndex < len /\ w = 0
    BY <1>7 DEF IsWriteOverAgain
  <2>2. ~IsNormal' /\ m_lastIndex' = m_writeIndex /\ len < m_readIndex
    BY <1>2, <1>3, <1>7, <2>1 DEF IsNormal, IInv, TypeOK
  <2>3. TypeOK' /\ TurningPoint'
    BY <1>1, <1>2, <1>3, <1>5, <2>1, <2>2, SizesAssumption
       DEF IInv, TypeOK, TurningPoint
  <2>4. accepted' - emitted' = m_lastIndex' - m_readIndex' + m_writeIndex'
    BY <1>1, <1>3, <2>1, <2>2 DEF IInv, TypeOK, BytesInPlace
  <2>5. Run(m_readIndex, m_lastIndex, emitted)'
    <3>1. Run(m_readIndex, m_writeIndex, emitted)
      BY <2>1 DEF IInv, BytesInPlace
    <3>2. \A i \in m_readIndex .. m_writeIndex - 1 : m_buffer'[i] = m_buffer[i]
      BY <1>1, <1>4, <1>6, <2>1, <2>2
    <3> QED BY <1>3, <2>2, <3>1, <3>2 DEF Run
  <2>6. Run(0, m_writeIndex, emitted + (m_lastIndex - m_readIndex))'
    <3>1. emitted + (m_writeIndex - m_readIndex) = accepted
      BY <1>6, <2>1 DEF IInv, BytesInPlace
    <3>2. \A i \in 0 .. len - 1 : m_buffer'[i] = accepted + 1 + (i - 0)
      BY <1>1, <1>2, <1>4, <1>6, <2>1
    <3> QED BY <1>3, <2>1, <2>2, <3>1, <3>2 DEF Run
  <2>7. m_readIndex' <= m_lastIndex'
    BY <1>3, <2>1, <2>2 DEF IsNormal
  <2> QED BY <2>2, <2>3, <2>4, <2>5, <2>6, <2>7 DEF IInv, BytesInPlace
<1>8. CASE ~IsWriteOverAgain(len)
  <2>1. w = m_writeIndex /\ m_lastIndex' = m_lastIndex /\ IsNormal' = IsNormal
    BY <1>1, <1>2, <1>3, <1>8 DEF IsNormal, IInv, TypeOK
  <2>2. TypeOK' /\ TurningPoint'
    BY <1>1, <1>2, <1>3, <1>5, <2>1 DEF IInv, TypeOK, TurningPoint
  <2>3. BytesInPlace'
    <3>1. CASE IsNormal
      <4>1. accepted' - emitted' = m_writeIndex' - m_readIndex'
        BY <3>1, <1>1, <1>3, <2>1 DEF IInv, TypeOK, BytesInPlace
      <4>2. Run(m_readIndex, m_writeIndex, emitted)'
        <5>1. /\ Run(m_readIndex, m_writeIndex, emitted)
              /\ accepted = emitted + (m_writeIndex - m_readIndex)
              /\ m_readIndex <= m_writeIndex
          BY <3>1, <1>6 DEF IInv, BytesInPlace, IsNormal
        <5>2. \A i \in m_readIndex .. m_writeIndex - 1 : m_buffer'[i] = m_buffer[i]
          BY <1>1, <1>4, <1>6, <2>1
        <5>3. \A i \in m_writeIndex .. m_writeIndex + len - 1 :
                 m_buffer'[i] = emitted + 1 + (i - m_readIndex)
          BY <1>1, <1>2, <1>4, <1>6, <2>1, <5>1
        <5>4. \A i \in m_readIndex .. m_writeIndex + len - 1 :
                 m_buffer'[i] = emitted + 1 + (i - m_readIndex)
          BY <1>1, <1>6, <5>1, <5>2, <5>3 DEF Run
        <5>5. /\ m_writeIndex' = m_writeIndex + len
              /\ UNCHANGED <<m_readIndex, emitted>>
          BY <1>3, <2>1
        <5> QED BY <1>1, <1>6, <5>4, <5>5 DEF Run
      <4> QED BY <3>1, <2>1, <4>1, <4>2 DEF BytesInPlace
    <3>2. CASE ~IsNormal
      <4>1. /\ accepted' - emitted' = m_lastIndex' - m_readIndex' + m_writeIndex'
            /\ m_readIndex' <= m_lastIndex'
        BY <3>2, <1>1, <1>3, <2>1 DEF IInv, TypeOK, BytesInPlace
      <4>2. w < m_readIndex /\ w + len < m_readIndex
        BY <3>2, <1>2, <2>1 DEF IInv, TypeOK, IsNormal
      <4>3. Run(m_readIndex, m_lastIndex, emitted)'
        <5>1. Run(m_readIndex, m_lastIndex, emitted)
          BY <3>2 DEF IInv, BytesInPlace
        <5>2. \A i \in m_readIndex .. m_lastIndex - 1 : m_buffer'[i] = m_buffer[i]
          BY <1>1, <1>4, <1>6, <2>1, <4>2
        <5> QED BY <1>3, <2>1, <5>1, <5>2 DEF Run
      <4>4. Run(0, m_writeIndex, emitted + (m_lastIndex - m_readIndex))'
        <5> DEFINE k == emitted + (m_lastIndex - m_readIndex)
        <5>1. /\ Run(0, m_writeIndex, k)
              /\ accepted = k + m_writeIndex /\ k \in Nat
          BY <3>2, <1>6 DEF IInv, BytesInPlace
        <5>2. k' = k
          BY <1>3, <2>1
        <5> HIDE DEF k
        <5>3. \A i \in 0 .. m_writeIndex - 1 : m_buffer'[i] = m_buffer[i]
          BY <1>1, <1>2, <1>4, <1>6, <2>1
        <5>4. \A i \in m_writeIndex .. m_writeIndex + len - 1 :
                 m_buffer'[i] = k + 1 + (i - 0)
          BY <1>1, <1>2, <1>4, <1>6, <2>1, <5>1
        <5>5. \A i \in 0 .. m_writeIndex + len - 1 : m_buffer'[i] = k + 1 + (i - 0)
          BY <1>1, <1>6, <5>1, <5>3, <5>4 DEF Run
        <5>6. m_writeIndex' = m_writeIndex + len
          BY <1>3, <2>1
        <5>7. Run(0, m_writeIndex, k)'
          BY <1>1, <1>6, <5>1, <5>2, <5>5, <5>6 DEF Run
        <5> QED BY <5>7 DEF k
      <4> QED BY <3>2, <2>1, <4>1, <4>3, <4>4 DEF BytesInPlace
    <3> QED BY <3>1, <3>2
  <2> QED BY <2>2, <2>3 DEF IInv
<1> QED BY <1>7, <1>8

\* Where Send reads: a run of the stream, all of it unless it stops at the turn.
LEMMA ReadsUnsentRun ==
  ASSUME IInv, ~IsEmpty, NEW r, r = IsReadOverAgain.read,
         NEW last, last = IsReadOverAgain.last,
         NEW n, n = GetReadLen(r, last)
  PROVE  /\ r \in Nat /\ last \in Nat /\ n \in Nat
         /\ r + n <= m_bufCapacity /\ last <= m_bufCapacity
         /\ emitted + n <= accepted
         /\ Run(r, r + n, emitted)
         /\ r <= m_writeIndex => /\ last = m_bufCapacity /\ r + n = m_writeIndex
                                 /\ emitted + n = accepted
         /\ r > m_writeIndex => /\ ~IsNormal /\ r = m_readIndex /\ n > 0
                                /\ last = m_lastIndex /\ r + n = last
<1>0. /\ m_readIndex \in Nat /\ m_writeIndex \in Nat /\ m_lastIndex \in Nat
      /\ m_bufCapacity \in Nat
      /\ m_readIndex <= m_bufCapacity /\ m_writeIndex <= m_bufCapacity
      /\ m_lastIndex <= m_bufCapacity
      /\ accepted \in Nat /\ emitted \in Nat
  BY Numbers DEF IInv
<1>1. CASE IsNormal
  <2>1. IsReadOverAgain = [read |-> m_readIndex, last |-> m_lastIndex]
    BY <1>1 DEF IsReadOverAgain
  <2>2. r = m_readIndex /\ last = m_lastIndex /\ n = m_writeIndex - m_readIndex
    BY <1>1, <2>1 DEF GetReadLen, IsNormal
  <2>3. /\ m_lastIndex = m_bufCapacity /\ m_readIndex <= m_writeIndex
        /\ accepted - emitted = m_writeIndex - m_readIndex
        /\ Run(m_readIndex, m_writeIndex, emitted)
    BY <1>1 DEF IInv, TurningPoint, BytesInPlace, IsNormal
  <2>4. r + n = m_writeIndex
    BY <1>0, <2>2
  <2> QED BY <1>0, <2>2, <2>3, <2>4
<1>2. CASE ~IsNormal /\ m_readIndex >= m_lastIndex
  <2>1. r = 0 /\ last = m_bufCapacity
    BY <1>2 DEF IsReadOverAgain
  <2>2. n = m_writeIndex /\ m_readIndex = m_lastIndex
    BY <1>0, <1>2, <2>1 DEF GetReadLen, IInv, BytesInPlace
  <2>3. /\ emitted + (m_lastIndex - m_readIndex) = emitted
        /\ Run(0, m_writeIndex, emitted + (m_lastIndex - m_readIndex))
        /\ accepted - emitted = m_lastIndex - m_readIndex + m_writeIndex
    BY <1>0, <1>2, <2>2 DEF IInv, BytesInPlace
  <2>4. Run(0, m_writeIndex, emitted) /\ accepted = emitted + m_writeIndex
    BY <1>0, <2>2, <2>3
  <2> QED BY <1>0, <2>1, <2>2, <2>4
<1>3. CASE ~IsNormal /\ m_readIndex < m_lastIndex
  <2>1. r = m_readIndex /\ last = m_lastIndex /\ n = m_lastIndex - m_readIndex
    BY <1>3 DEF IsReadOverAgain, GetReadLen, IsNormal, IInv, TypeOK
  <2> QED BY <1>3, <2>1 DEF IInv, TypeOK, BytesInPlace, IsNormal
<1> QED BY <1>1, <1>2, <1>3 DEF IInv, TypeOK

\* A Send of m bytes out of a run of n at r, and where it leaves the indices.
Sends(r, last, n, m) ==
  /\ r + n <= m_bufCapacity /\ last <= m_bufCapacity /\ m <= n
  /\ emitted + n <= accepted
  /\ Run(r, r + n, emitted)
  /\ r <= m_writeIndex => /\ last = m_bufCapacity /\ r + n = m_writeIndex
                          /\ emitted + n = accepted
  /\ r > m_writeIndex => /\ ~IsNormal /\ r = m_readIndex
                         /\ last = m_lastIndex /\ r + n = last
  /\ m_readIndex' = r + m /\ m_lastIndex' = last
  /\ emitted' = emitted + m /\ accepted' = accepted
  /\ m = 0 => n = 0 /\ chunk' = chunk /\ full' = full
  /\ m > 0 => chunk' = [i \in 1 .. m |-> emitted + i]
  /\ full' \in BOOLEAN /\ event' = FALSE /\ (m < n => full')
  /\ UNCHANGED <<m_writeIndex, m_bufCapacity, m_buffer, rearm>>

LEMMA SendEffect ==
  ASSUME IInv, Send
  PROVE  \E r \in Nat, last \in Nat, n \in Nat, m \in Nat : Sends(r, last, n, m)
<1> DEFINE r == IsReadOverAgain.read
           last == IsReadOverAgain.last
           n == GetReadLen(r, last)
<1>1. /\ event /\ ~IsEmpty /\ event' = FALSE /\ m_lastIndex' = last
      /\ UNCHANGED <<m_writeIndex, m_bufCapacity, m_buffer, rearm>>
      /\ \/ n = 0 /\ m_readIndex' = r /\ UNCHANGED <<full, stream>>
         \/ \E m \in 1 .. n :
              /\ m_readIndex' = r + m
              /\ chunk' = [i \in 1 .. m |-> m_buffer[r + i - 1]]
              /\ emitted' = emitted + m
              /\ full' \in BOOLEAN /\ (m < n => full')
              /\ UNCHANGED accepted
  BY DEF Send
<1>2. /\ r \in Nat /\ last \in Nat /\ n \in Nat
      /\ r + n <= m_bufCapacity /\ last <= m_bufCapacity
      /\ emitted + n <= accepted
      /\ Run(r, r + n, emitted)
      /\ r <= m_writeIndex => /\ last = m_bufCapacity /\ r + n = m_writeIndex
                              /\ emitted + n = accepted
      /\ r > m_writeIndex => /\ ~IsNormal /\ r = m_readIndex /\ n > 0
                             /\ last = m_lastIndex /\ r + n = last
  BY <1>1, ReadsUnsentRun
<1> HIDE DEF r, last, n
<1>3. CASE n = 0 /\ m_readIndex' = r /\ UNCHANGED <<full, stream>>
  <2>1. /\ m_readIndex' = r + 0 /\ emitted' = emitted + 0 /\ accepted' = accepted
        /\ full' \in BOOLEAN /\ 0 <= n /\ ~(0 < n) /\ chunk' = chunk
    BY <1>2, <1>3 DEF IInv, TypeOK, stream
  <2>2. Sends(r, last, n, 0)
    BY <1>1, <1>2, <1>3, <2>1 DEF Sends
  <2> QED BY <1>2, <2>2
<1>4. ASSUME NEW m \in 1 .. n,
             /\ m_readIndex' = r + m
             /\ chunk' = [i \in 1 .. m |-> m_buffer[r + i - 1]]
             /\ emitted' = emitted + m
             /\ full' \in BOOLEAN /\ (m < n => full')
             /\ UNCHANGED accepted
      PROVE  Sends(r, last, n, m)
  <2>1. m \in Nat /\ m > 0 /\ m <= n
    BY <1>2
  <2>2. \A i \in 1 .. m : m_buffer[r + i - 1] = emitted + i
    <3> TAKE i \in 1 .. m
    <3>1. r + i - 1 \in r .. (r + n) - 1
      BY <1>2, <2>1
    <3>2. m_buffer[r + i - 1] = emitted + 1 + ((r + i - 1) - r)
      BY <1>2, <3>1 DEF Run
    <3> QED BY <1>2, <3>2 DEF IInv, TypeOK
  <2>3. chunk' = [i \in 1 .. m |-> emitted + i]
    BY <1>4, <2>2
  <2> QED BY <1>1, <1>2, <1>4, <2>1, <2>3 DEF Sends
<1>5. CASE \E m \in 1 .. n :
             /\ m_readIndex' = r + m
             /\ chunk' = [i \in 1 .. m |-> m_buffer[r + i - 1]]
             /\ emitted' = emitted + m
             /\ full' \in BOOLEAN /\ (m < n => full')
             /\ UNCHANGED accepted
  <2>1. PICK m \in 1 .. n : Sends(r, last, n, m)
    BY <1>4, <1>5
  <2>2. m \in Nat
    BY <1>2
  <2> QED BY <1>2, <2>1, <2>2
<1> QED BY <1>1, <1>3, <1>5

LEMMA SendKeepsIInv ==
  ASSUME IInv, Send PROVE IInv'
<1> PICK r \in Nat, last \in Nat, n \in Nat, m \in Nat : Sends(r, last, n, m)
  BY SendEffect
<1>1. /\ m_readIndex' = r + m /\ m_lastIndex' = last
      /\ emitted' = emitted + m /\ accepted' = accepted
      /\ UNCHANGED <<m_writeIndex, m_bufCapacity, m_buffer, rearm>>
      /\ m <= n /\ r + n <= m_bufCapacity /\ last <= m_bufCapacity
  BY DEF Sends
<1>2. chunk' \in Seq(Nat)
  <2>1. CASE m = 0
    BY <2>1 DEF Sends, IInv, TypeOK
  <2>2. CASE m > 0
    <3>1. \A i \in 1 .. m : emitted + i \in Nat
      BY DEF IInv, TypeOK
    <3>2. chunk' = [i \in 1 .. m |-> emitted + i]
      BY <2>2 DEF Sends
    <3>3. chunk' \in [1 .. m -> Nat]
      BY <3>1, <3>2
    <3> QED BY <3>3
  <2> QED BY <2>1, <2>2
<1>3. TypeOK'
  <2>1. full' \in BOOLEAN /\ event' \in BOOLEAN
    BY DEF Sends
  <2>2. /\ m_readIndex' \in 0 .. m_bufCapacity
        /\ m_lastIndex' \in 0 .. m_bufCapacity
        /\ emitted' \in Nat
    BY <1>1, Numbers DEF IInv
  <2> QED BY <1>1, <1>2, <2>1, <2>2 DEF IInv, TypeOK
<1>4. CASE r <= m_writeIndex
  <2>1. /\ last = m_bufCapacity /\ r + n = m_writeIndex /\ emitted + n = accepted
        /\ Run(r, r + n, emitted)
    BY <1>4 DEF Sends
  <2>2. IsNormal' /\ TurningPoint'
    BY <1>1, <2>1 DEF IsNormal, TurningPoint, IInv, TypeOK
  <2>3. accepted' - emitted' = m_writeIndex' - m_readIndex'
    BY <1>1, <2>1 DEF IInv, TypeOK
  <2>4. Run(m_readIndex, m_writeIndex, emitted)'
    BY <1>1, <2>1 DEF Run, IInv, TypeOK
  <2> QED BY <1>3, <2>2, <2>3, <2>4 DEF IInv, BytesInPlace
<1>5. CASE r > m_writeIndex
  <2>1. /\ ~IsNormal /\ r = m_readIndex /\ last = m_lastIndex /\ r + n = last
        /\ Run(r, r + n, emitted)
    BY <1>5 DEF Sends
  <2>2. ~IsNormal' /\ TurningPoint'
    BY <1>1, <1>5, <2>1 DEF IsNormal, TurningPoint, IInv, TypeOK
  <2>3. /\ accepted' - emitted' = m_lastIndex' - m_readIndex' + m_writeIndex'
        /\ m_readIndex' <= m_lastIndex'
    BY <1>1, <2>1 DEF IInv, TypeOK, BytesInPlace
  <2>4. Run(m_readIndex, m_lastIndex, emitted)'
    BY <1>1, <2>1 DEF Run, IInv, TypeOK
  <2>5. Run(0, m_writeIndex, emitted + (m_lastIndex - m_readIndex))'
    <3>1. emitted' + (m_lastIndex' - m_readIndex')
            = emitted + (m_lastIndex - m_readIndex)
      BY <1>1, <2>1 DEF IInv, TypeOK
    <3>2. Run(0, m_writeIndex, emitted + (m_lastIndex - m_readIndex))
      BY <2>1 DEF IInv, BytesInPlace
    <3> QED BY <1>1, <3>1, <3>2 DEF Run
  <2> QED BY <1>3, <2>2, <2>3, <2>4, <2>5 DEF IInv, BytesInPlace
<1> QED BY <1>4, <1>5 DEF IInv, TypeOK

\* The actions that only move events, or start the buffer again when empty.
LEMMA OthersKeepIInv ==
  ASSUME IInv,
         \/ \E t \in Threads : EpollCtl(t)
         \/ SendEmpty \/ Drain \/ OtherEvent \/ ResetSendBuf \/ UNCHANGED vars
  PROVE  IInv'
<1>1. rearm' \subseteq Threads /\ event' \in BOOLEAN /\ full' \in BOOLEAN
  BY DEF IInv, TypeOK, EpollCtl, SendEmpty, Drain, OtherEvent, ResetSendBuf, vars
<1>2. CASE UNCHANGED <<indices, m_buffer, stream>>
  BY <1>1, <1>2 DEF IInv, TypeOK, TurningPoint, BytesInPlace, Run, IsNormal,
                    indices, stream
<1>3. CASE ResetSendBuf
  <2>1. /\ m_bufCapacity' = ServerCap /\ m_readIndex' = 0 /\ m_writeIndex' = 0
        /\ m_lastIndex' = ServerCap /\ m_buffer' = m_buffer
        /\ accepted' = accepted /\ emitted' = emitted /\ chunk' = chunk
        /\ accepted = emitted
    BY <1>3 DEF ResetSendBuf, stream
  <2>2. TypeOK'
    BY <1>1, <2>1, SizesAssumption DEF IInv, TypeOK
  <2>3. TurningPoint' /\ BytesInPlace'
    BY <2>1, Numbers DEF IInv, TurningPoint, BytesInPlace, Run, IsNormal
  <2> QED BY <2>2, <2>3 DEF IInv
<1> QED BY <1>2, <1>3 DEF EpollCtl, SendEmpty, Drain, OtherEvent, vars

THEOREM IInvHolds == Spec => []IInv
<1>1. IInv /\ [Next]_vars => IInv'
  <2> SUFFICES ASSUME IInv, [Next]_vars PROVE IInv'
    OBVIOUS
  <2>1. CASE \E t \in Threads, len \in 1 .. MaxLen : Write(t, len) \/ WriteFails(t, len)
    BY <2>1, WriteKeepsIInv, WriteFailsKeepsIInv
  <2>2. CASE Send
    BY <2>2, SendKeepsIInv
  <2> QED BY <2>1, <2>2, OthersKeepIInv DEF Next
<1> QED BY <1>1, InitIInv, PTL DEF Spec

\* The indices stay in the buffer and the byte counts are numbers.
THEOREM TypeInvariant == Spec => []TypeOK
<1>1. IInv => TypeOK
  BY DEF IInv
<1> QED BY <1>1, IInvHolds, PTL

\* No write lands on bytes that have not been sent, no read runs past the
\* bytes that have been written.
THEOREM NoByteIsOverwritten == Spec => []BytesInPlace
<1>1. IInv => BytesInPlace
  BY DEF IInv
<1> QED BY <1>1, IInvHolds, PTL

\* SendBuffer implements ByteStream: whatever is handed to the socket is the
\* next run of accepted bytes.
THEOREM ImplementsByteStream == Spec => IsByteStream
<1>1. Init => Stream!Init
  BY DEF Init, Stream!Init
<1>2. IInv /\ [Next]_vars => [Stream!Next]_<<accepted, emitted, chunk>>
  <2> SUFFICES ASSUME IInv, [Next]_vars
               PROVE  Stream!Next \/ UNCHANGED stream
    BY DEF stream
  <2>1. ASSUME NEW t \in Threads, NEW len \in 1 .. MaxLen, Write(t, len)
        PROVE  Stream!Accept
    <3>1. accepted' = accepted + len /\ UNCHANGED <<emitted, chunk>>
      BY <2>1 DEF Write
    <3> QED BY <3>1, Numbers, SizesAssumption DEF Stream!Accept, IInv
  <2>2. ASSUME NEW t \in Threads, NEW len \in 1 .. MaxLen, WriteFails(t, len)
        PROVE  UNCHANGED stream
    BY <2>2 DEF WriteFails
  <2>3. CASE Send
    <3> PICK r \in Nat, last \in Nat, n \in Nat, m \in Nat : Sends(r, last, n, m)
      BY <2>3, SendEffect
    <3>1. emitted' = emitted + m /\ accepted' = accepted /\ m <= n
          /\ emitted + n <= accepted
      BY DEF Sends
    <3>2. CASE m = 0
      BY <3>1, <3>2, Numbers DEF Sends, stream, IInv
    <3>3. CASE m > 0
      <4>1. emitted' \in emitted .. accepted /\ emitted' - emitted = m
        BY <3>1, Numbers DEF IInv
      <4>2. chunk' = [i \in 1 .. m |-> emitted + i]
        BY <3>3 DEF Sends
      <4>3. Stream!Emit
        BY <3>1, <4>1, <4>2 DEF Stream!Emit
      <4> QED BY <4>3 DEF Stream!Next
    <3> QED BY <3>2, <3>3
  <2> QED BY <2>1, <2>2, <2>3
          DEF Next, EpollCtl, SendEmpty, Drain, OtherEvent, ResetSendBuf, vars,
              Stream!Next
<1> QED BY <1>1, <1>2, IInvHolds, PTL DEF Spec, IsByteStream, Stream!Spec

\* A buffer without unsent bytes refuses no packet.
THEOREM EmptyBufferTakesEveryPacket == Spec => []DropsOnlyIfWaiting
<1>1. IInv => DropsOnlyIfWaiting
  <2> SUFFICES ASSUME IInv, accepted = emitted, NEW len \in 1 .. MaxLen,
                      ~Fits(len)
               PROVE  FALSE
    BY DEF DropsOnlyIfWaiting
  <2>1. /\ len \in Nat /\ len <= MaxLen /\ 2 * MaxLen <= m_bufCapacity
        /\ MaxLen \in Nat /\ len > 0
    BY SizesAssumption DEF IInv, TypeOK
  <2>2. CASE ~IsNormal
    <3>1. /\ m_readIndex = m_lastIndex /\ m_writeIndex = 0
          /\ m_bufCapacity - m_lastIndex < MaxLen
      BY <2>2, Numbers DEF IInv, TurningPoint, BytesInPlace
    <3>2. len > m_readIndex - 0 - 1
      BY <2>1, <2>2, <3>1, Numbers
         DEF Fits, WriteAt, GetWriteLen, IsWriteOverAgain, IsNormal, IInv
    <3> QED BY <2>1, <3>1, <3>2, Numbers DEF IInv
  <2>3. CASE IsNormal
    <3>1. m_readIndex = m_writeIndex
      BY <2>3, Numbers DEF IInv, BytesInPlace
    <3>2. CASE m_bufCapacity - m_writeIndex < len
      <4>1. m_readIndex > len
        BY <2>1, <3>1, <3>2, Numbers DEF IInv
      <4>2. IsWriteOverAgain(len)
        BY <2>1, <2>3, <3>2, <4>1, Numbers DEF IsWriteOverAgain, IInv
      <4>3. len > m_readIndex - 0 - 1
        BY <2>1, <4>1, <4>2, Numbers DEF Fits, WriteAt, GetWriteLen, IInv
      <4> QED BY <2>1, <4>1, <4>3, Numbers DEF IInv
    <3>3. CASE ~(m_bufCapacity - m_writeIndex < len)
      <4>1. len > m_bufCapacity - m_writeIndex
        BY <2>1, <3>1, <3>3, Numbers
           DEF Fits, WriteAt, GetWriteLen, IsWriteOverAgain, IInv
      <4> QED BY <2>1, <3>3, <4>1, Numbers DEF IInv
    <3> QED BY <3>2, <3>3
  <2> QED BY <2>2, <2>3
<1> QED BY <1>1, IInvHolds, PTL

\* Unsent bytes never wait for nothing, unless Send has left them at the turn.
THEOREM NoWakeupIsLost == Spec => []NoLostWakeup
<1>1. Init => NoLostWakeup
  BY DEF Init, NoLostWakeup
<1>2. IInv /\ NoLostWakeup /\ [Next]_vars => NoLostWakeup'
  <2> SUFFICES ASSUME IInv, NoLostWakeup, [Next]_vars PROVE NoLostWakeup'
    OBVIOUS
  <2>1. ASSUME NEW t \in Threads, NEW len \in 1 .. MaxLen, Write(t, len)
        PROVE  NoLostWakeup'
    BY <2>1 DEF Write, NoLostWakeup
  <2>2. ASSUME NEW t \in Threads, NEW len \in 1 .. MaxLen, WriteFails(t, len)
        PROVE  NoLostWakeup'
    <3>1. AtTurn => AtTurn'
      BY <2>2 DEF WriteFails, WriteAt, AtTurn, IsWriteOverAgain, IsNormal
    <3> QED BY <2>2, <3>1 DEF WriteFails, NoLostWakeup, stream
  <2>3. ASSUME NEW t \in Threads, EpollCtl(t)
        PROVE  NoLostWakeup'
    BY <2>3 DEF EpollCtl, NoLostWakeup
  <2>4. CASE SendEmpty
    <3>1. accepted = emitted
      BY <2>4, Numbers DEF SendEmpty, IsEmpty, IsNormal, IInv, BytesInPlace
    <3> QED BY <2>4, <3>1 DEF SendEmpty, NoLostWakeup, stream
  <2>5. CASE Send
    <3> PICK r \in Nat, last \in Nat, n \in Nat, m \in Nat : Sends(r, last, n, m)
      BY <2>5, SendEffect
    <3>1. CASE m < n
      BY <3>1 DEF Sends, NoLostWakeup
    <3>2. CASE m = n /\ r <= m_writeIndex
      BY <3>2 DEF Sends, NoLostWakeup
    <3>3. CASE m = n /\ r > m_writeIndex
      <4>1. m_readIndex' = m_lastIndex' /\ m_writeIndex' = m_writeIndex
            /\ m_readIndex' = r + m
        BY <3>3 DEF Sends
      <4>2. ~IsNormal'
        BY <3>3, <4>1, Numbers DEF IsNormal, IInv
      <4> QED BY <4>1, <4>2 DEF NoLostWakeup, AtTurn
    <3> QED BY <3>1, <3>2, <3>3, Numbers DEF Sends, IInv
  <2>6. CASE Drain \/ OtherEvent
    BY <2>6 DEF Drain, OtherEvent, NoLostWakeup
  <2>7. CASE ResetSendBuf
    BY <2>7 DEF ResetSendBuf, NoLostWakeup, stream
  <2>8. CASE UNCHANGED vars
    BY <2>8 DEF vars, indices, stream, NoLostWakeup, AtTurn, IsNormal
  <2> QED BY <2>1, <2>2, <2>3, <2>4, <2>5, <2>6, <2>7, <2>8 DEF Next
<1> QED BY <1>1, <1>2, IInvHolds, PTL DEF Spec
=============================================================================
