--------------------------- MODULE Dispatcher_proof ---------------------------
(***************************************************************************)
(* Proofs about Dispatcher, for any Requests and any number of tokens.     *)
(***************************************************************************)
EXTENDS Dispatcher, TLAPS

-----------------------------------------------------------------------------
\* Type correctness, by the parts of the state an action can disturb.

LEMMA TypeSender ==
  ASSUME TypeOK, NEW q \in Requests, Sender(q) \/ Expire(q)
  PROVE  TypeOK'
<1>1. CASE Push(q)
  BY <1>1 DEF Push, TypeOK, table, loopVars
<1>2. CASE AddAckTimeOut(q)
  BY <1>2, ConstantsAssumption
     DEF AddAckTimeOut, TypeOK, loopVars, sendVars, Tokens
<1>3. CASE SetReqID(q)
  BY <1>3 DEF SetReqID, TypeOK, table, loopVars, sendVars
<1>4. CASE Expire(q)
  BY <1>4 DEF Expire, TypeOK, table, reqVars, loopVars, sendVars
<1> QED BY <1>1, <1>2, <1>3, <1>4 DEF Sender

LEMMA TypeDispatching ==
  ASSUME TypeOK, NoScan \/ Scan \/ Dispatching
  PROVE  TypeOK'
<1> USE DEF TypeOK, reqVars, sendVars
<1>1. CASE NoScan
  BY <1>1 DEF NoScan, table
<1>2. CASE Scan
  BY <1>2 DEF Scan
<1>3. CASE DispatchTimeOut
  <2> PICK q \in tTimeOut : handled' = [handled EXCEPT ![q] = Append(@, TimeOut)]
    BY <1>3 DEF DispatchTimeOut
  <2>1. Append(handled[q], TimeOut) \in Seq(Requests \cup {TimeOut})
    OBVIOUS
  <2>2. handled' \in [Requests -> Seq(Requests \cup {TimeOut})]
    BY <2>1
  <2>3. tTimeOut' \subseteq Requests
    BY <1>3 DEF DispatchTimeOut
  <2> QED BY <1>3, <2>2, <2>3 DEF DispatchTimeOut, table
<1>4. CASE TimeOutsDone
  BY <1>4 DEF TimeOutsDone, table
<1>5. CASE Drain
  BY <1>5 DEF Drain, table
<1>6. CASE DispatchAck
  <2>1. Head(tDeque) \in Messages /\ Tail(tDeque) \in Seq(Messages)
    BY <1>6 DEF DispatchAck
  <2>2. /\ m_timeOut' \in [Tokens -> Requests \cup {None}]
        /\ handled' \in [Requests -> Seq(Requests \cup {TimeOut})]
    <3> DEFINE a == Head(tDeque)
    <3>1. CASE a.id \in Tokens /\ m_timeOut[a.id] # None
      <4>1. /\ m_timeOut' = [m_timeOut EXCEPT ![a.id] = None]
            /\ handled' = [handled EXCEPT
                            ![m_timeOut[a.id]] = Append(@, a.req)]
        BY <1>6, <3>1 DEF DispatchAck
      <4>2. m_timeOut[a.id] \in Requests /\ a.req \in Requests
        BY <1>6, <2>1, <3>1 DEF DispatchAck, Messages, Acks, System
      <4>3. Append(handled[m_timeOut[a.id]], a.req) \in Seq(Requests \cup {TimeOut})
        BY <4>2
      <4> QED BY <4>1, <4>2, <4>3
    <3>2. CASE ~(a.id \in Tokens /\ m_timeOut[a.id] # None)
      BY <1>6, <3>2 DEF DispatchAck
    <3> QED BY <3>1, <3>2
  <2> QED BY <1>6, <2>1, <2>2 DEF DispatchAck
<1>7. CASE DispatchSystem \/ SystemThrows
  <2>1. Tail(tDeque) \in Seq(Messages) /\ <<>> \in Seq(Messages)
    BY <1>7 DEF DispatchSystem, SystemThrows
  <2>2. tDeque' \in Seq(Messages)
    BY <1>7, <2>1 DEF DispatchSystem, SystemThrows
  <2>3. pc' \in {pc, "scan"}
    BY <1>7 DEF DispatchSystem, SystemThrows
  <2> QED BY <1>7, <2>2, <2>3 DEF DispatchSystem, SystemThrows, table
<1>8. CASE MessagesDone
  BY <1>8 DEF MessagesDone, table
<1> QED BY <1>1, <1>2, <1>3, <1>4, <1>5, <1>6, <1>7, <1>8 DEF Dispatching

LEMMA TypeSending ==
  ASSUME TypeOK, Sending \/ ReceiveSystem \/ \E a \in wire : Receive(a)
  PROVE  TypeOK'
<1> USE DEF TypeOK, table, reqVars
<1>1. CASE Flush
  BY <1>1 DEF Flush, loopVars
<1>2. CASE SendMessage
  <2> PICK q \in tSendDeque : /\ tSendDeque' = tSendDeque \ {q}
                              /\ wire' \in {wire, wire \cup {AckOf(q, reqID[q])}}
    BY <1>2 DEF SendMessage
  <2>1. AckOf(q, reqID[q]) \in Acks
    BY DEF AckOf, Acks
  <2> QED BY <1>2, <2>1 DEF SendMessage, loopVars
<1>3. CASE FlushDone
  BY <1>3 DEF FlushDone
<1>4. ASSUME NEW a \in wire, Receive(a) PROVE TypeOK'
  <2>1. a \in Messages
    BY DEF Messages
  <2>2. m_deque' \in Seq(Messages)
    BY <1>4, <2>1 DEF Receive
  <2> QED BY <1>4, <2>2 DEF Receive, loopVars, sendVars
<1>5. CASE ReceiveSystem
  <2>1. System \in Messages
    BY DEF Messages
  <2>2. m_deque' \in Seq(Messages)
    BY <1>5, <2>1 DEF ReceiveSystem
  <2> QED BY <1>5, <2>2 DEF ReceiveSystem, loopVars, sendVars
<1> QED BY <1>1, <1>2, <1>3, <1>4, <1>5 DEF Sending

\* The queues, the table and the loop keep their types.
THEOREM TypeInvariant == Spec => []TypeOK
<1>1. Init => TypeOK
  BY ConstantsAssumption DEF Init, TypeOK
<1>2. TypeOK /\ [Next]_vars => TypeOK'
  <2> SUFFICES ASSUME TypeOK, [Next]_vars PROVE TypeOK'
    OBVIOUS
  <2>1. CASE UNCHANGED vars
    BY <2>1 DEF vars, TypeOK, table, reqVars, loopVars, sendVars
  <2> QED BY <2>1, TypeSender, TypeDispatching, TypeSending DEF Next
<1> QED BY <1>1, <1>2, PTL DEF Spec

-----------------------------------------------------------------------------
(***************************************************************************)
(* Tokens are given once, and a message carries the token of its Request   *)
(* or, if it was sent before SetReqID, 0.                                  *)
(***************************************************************************)
IdsRight ==
  /\ \A p, q \in Requests : token[p] = token[q] /\ token[p] # 0 => p = q
  /\ \A q \in Requests : token[q] < m_token /\ reqID[q] \in {0, token[q]}
  /\ \A q \in Requests : stage[q] \in {"new", "pushed"} => token[q] = 0

LEMMA IdsRightHolds == Spec => []IdsRight
<1>1. Init => IdsRight
  BY DEF Init, IdsRight
<1>2. TypeOK /\ IdsRight /\ [Next]_vars => IdsRight'
  <2> SUFFICES ASSUME TypeOK, IdsRight, [Next]_vars PROVE IdsRight'
    OBVIOUS
  <2> USE DEF TypeOK, IdsRight
  <2>1. ASSUME NEW q \in Requests, AddAckTimeOut(q) PROVE IdsRight'
    <3>1. /\ token' = [token EXCEPT ![q] = m_token] /\ m_token' = m_token + 1
          /\ stage' = [stage EXCEPT ![q] = "registered"] /\ reqID' = reqID
          /\ token[q] = 0 /\ m_token \in Nat /\ m_token > 0
      BY <2>1 DEF AddAckTimeOut, Tokens
    <3>2. \A p \in Requests : token[p] \in Nat /\ token[p] < m_token
      OBVIOUS
    <3>3. reqID[q] = 0
      BY <3>1
    <3>4. \A p \in Requests : token'[p] = IF p = q THEN m_token ELSE token[p]
      BY <3>1
    <3>5. \A p, r \in Requests : token'[p] = token'[r] /\ token'[p] # 0 => p = r
      BY <3>1, <3>2, <3>4
    <3>6. \A p \in Requests : token'[p] < m_token' /\ reqID'[p] \in {0, token'[p]}
      BY <3>1, <3>2, <3>3, <3>4
    <3>7. \A p \in Requests : stage'[p] \in {"new", "pushed"} => token'[p] = 0
      BY <3>1, <3>4
    <3> QED BY <3>5, <3>6, <3>7
  <2>2. ASSUME NEW q \in Requests, Push(q) \/ SetReqID(q) PROVE IdsRight'
    BY <2>2 DEF Push, SetReqID, table
  <2>3. CASE UNCHANGED <<m_token, reqVars>>
    BY <2>3 DEF reqVars
  <2>4. ASSUME NEW q \in Requests, Expire(q) PROVE UNCHANGED <<m_token, reqVars>>
    BY <2>4 DEF Expire, table
  <2>5. CASE NoScan \/ Scan \/ Dispatching
    BY <2>3, <2>5 DEF NoScan, Scan, Dispatching, DispatchTimeOut, TimeOutsDone,
              Drain, DispatchAck, DispatchSystem, SystemThrows, MessagesDone, table
  <2>6. CASE Sending \/ ReceiveSystem \/ \E a \in wire : Receive(a)
    BY <2>3, <2>6 DEF Sending, Flush, SendMessage, FlushDone, ReceiveSystem,
              Receive, table
  <2>7. CASE UNCHANGED vars
    BY <2>3, <2>7 DEF vars, table
  <2> QED BY <2>1, <2>2, <2>3, <2>4, <2>5, <2>6, <2>7 DEF Next, Sender
<1> QED BY <1>1, <1>2, TypeInvariant, PTL DEF Spec

\* Once a Request has a token it keeps it.
LEMMA TokensStay ==
  ASSUME TypeOK, IdsRight, [Next]_vars, NEW q \in Requests, token[q] # 0
  PROVE  token'[q] = token[q]
<1>1. ASSUME NEW p \in Requests, Sender(p) \/ Expire(p) PROVE token'[q] = token[q]
  BY <1>1 DEF Sender, Push, AddAckTimeOut, SetReqID, Expire, reqVars,
          TypeOK, IdsRight
<1>2. CASE NoScan \/ Scan \/ Dispatching
  BY <1>2 DEF NoScan, Scan, Dispatching, DispatchTimeOut, TimeOutsDone,
          Drain, DispatchAck, DispatchSystem, SystemThrows, MessagesDone, reqVars
<1>3. CASE Sending \/ ReceiveSystem \/ \E a \in wire : Receive(a)
  BY <1>3 DEF Sending, Flush, SendMessage, FlushDone, ReceiveSystem, Receive,
          reqVars
<1>4. CASE UNCHANGED vars
  BY <1>4 DEF vars, reqVars
<1> QED BY <1>1, <1>2, <1>3, <1>4 DEF Next

\* The messages on their way and in the queues carry such ids.
Carries(a) == a \in Acks => a.id \in {0, token[a.req]}

AnswersRight ==
  /\ \A a \in wire : Carries(a)
  /\ \A i \in 1 .. Len(m_deque) : Carries(m_deque[i])
  /\ \A i \in 1 .. Len(tDeque) : Carries(tDeque[i])

\* A message that carries its Request's id goes on doing so.
LEMMA CarriesStays ==
  ASSUME TypeOK, IdsRight, [Next]_vars, NEW a, Carries(a)
  PROVE  Carries(a)'
<1> SUFFICES ASSUME a \in Acks PROVE a.id \in {0, token'[a.req]}
  BY DEF Carries
<1>1. a.req \in Requests /\ a.id \in Nat /\ a.id \in {0, token[a.req]}
  BY DEF Carries, Acks
<1> QED BY <1>1, TokensStay

\* What a step does to the messages on their way and in the queues.
LEMMA QueueMoves ==
  ASSUME TypeOK, [Next]_vars
  PROVE  /\ \/ wire' \subseteq wire
            \/ \E q \in Requests : /\ wire' = wire \cup {AckOf(q, reqID[q])}
                                   /\ UNCHANGED <<token, reqID>>
         /\ \/ m_deque' = m_deque \/ m_deque' = <<>>
            \/ \E a \in wire \cup {System} : m_deque' = Append(m_deque, a)
         /\ \/ tDeque' = tDeque \/ tDeque' = <<>> \/ tDeque' = m_deque
            \/ tDeque # <<>> /\ tDeque' = Tail(tDeque)
<1>1. ASSUME NEW p \in Requests, Sender(p) \/ Expire(p)
      PROVE  UNCHANGED <<wire, m_deque, tDeque>>
  BY <1>1 DEF Sender, Push, AddAckTimeOut, SetReqID, Expire, loopVars
<1>2. CASE NoScan \/ Scan \/ Dispatching
  BY <1>2 DEF NoScan, Scan, Dispatching, DispatchTimeOut, TimeOutsDone,
          Drain, DispatchAck, DispatchSystem, SystemThrows, MessagesDone
<1>3. CASE Flush \/ FlushDone
  BY <1>3 DEF Flush, FlushDone, loopVars
<1>4. CASE SendMessage
  BY <1>4 DEF SendMessage, loopVars, reqVars, TypeOK
<1>5. CASE ReceiveSystem \/ \E a \in wire : Receive(a)
  BY <1>5 DEF ReceiveSystem, Receive, loopVars
<1>6. CASE UNCHANGED vars
  BY <1>6 DEF vars, loopVars
<1> QED BY <1>1, <1>2, <1>3, <1>4, <1>5, <1>6 DEF Next, Sending

LEMMA AnswersRightHolds == Spec => []AnswersRight
<1>1. Init => AnswersRight
  BY DEF Init, AnswersRight
<1>2. TypeOK /\ IdsRight /\ AnswersRight /\ [Next]_vars => AnswersRight'
  <2> SUFFICES ASSUME TypeOK, IdsRight, AnswersRight, [Next]_vars
               PROVE  AnswersRight'
    OBVIOUS
  <2> DEFINE Now(a) == a \in Acks => a.id \in {0, token'[a.req]}
  <2>1. \A a : Carries(a) => Now(a)
    BY CarriesStays DEF Carries
  <2>2. /\ \A a \in wire : Now(a)
        /\ \A i \in 1 .. Len(m_deque) : Now(m_deque[i])
        /\ \A i \in 1 .. Len(tDeque) : Now(tDeque[i])
    BY <2>1 DEF AnswersRight
  <2>3. Now(System)
    BY DEF System, Acks
  <2>4. \A q \in Requests : UNCHANGED <<token, reqID>> => Now(AckOf(q, reqID[q]))
    BY DEF AckOf, Acks, IdsRight
  <2>5. m_deque \in Seq(Messages) /\ tDeque \in Seq(Messages)
        /\ tSendDeque \subseteq Requests
    BY DEF TypeOK
  <2> HIDE DEF Now
  <2>6. \A a \in wire' : Now(a)
    BY <2>2, <2>4, <2>5, QueueMoves
  <2>7. \A i \in 1 .. Len(m_deque') : Now(m_deque'[i])
    <3>1. CASE \E a \in wire \cup {System} : m_deque' = Append(m_deque, a)
      BY <3>1, <2>2, <2>3, <2>5
    <3>2. CASE m_deque' = m_deque
      BY <3>2, <2>2
    <3>3. CASE m_deque' = <<>>
      BY <3>3
    <3> QED BY <3>1, <3>2, <3>3, QueueMoves
  <2>8. \A i \in 1 .. Len(tDeque') : Now(tDeque'[i])
    <3>1. CASE tDeque # <<>> /\ tDeque' = Tail(tDeque)
      BY <3>1, <2>2, <2>5
    <3>2. CASE tDeque' = tDeque \/ tDeque' = m_deque
      BY <3>2, <2>2
    <3>3. CASE tDeque' = <<>>
      BY <3>3
    <3> QED BY <3>1, <3>2, <3>3, QueueMoves
  <2> QED BY <2>6, <2>7, <2>8 DEF AnswersRight, Carries, Now
<1> QED BY <1>1, <1>2, TypeInvariant, IdsRightHolds, PTL DEF Spec

-----------------------------------------------------------------------------
(***************************************************************************)
(* The table.  HandledOnce and NotForgotten carry themselves only together *)
(* with what an entry of m_timeOut, and of tTimeOut, says of its Request:  *)
(* its handler has not run, and it is in one place only.                   *)
(***************************************************************************)
TableRight ==
  /\ \A k \in Tokens : m_timeOut[k] # None =>
       /\ token[m_timeOut[k]] = k /\ handled[m_timeOut[k]] = <<>>
       /\ m_timeOut[k] \notin tTimeOut
  /\ \A q \in tTimeOut : token[q] # 0 /\ handled[q] = <<>>
  /\ tTimeOut # {} => pc = "timeouts"
  /\ \A q \in Requests : token[q] = 0 => handled[q] = <<>>

TableInv == TableRight /\ HandledOnce /\ NotForgotten

\* An Ack is for the Request that m_timeOut has under its id.
LEMMA AckFindsItsRequest ==
  ASSUME TypeOK, IdsRight, AnswersRight, TableRight, pc = "messages",
         tDeque # <<>>, Head(tDeque).type = "Ack",
         Head(tDeque).id \in Tokens, m_timeOut[Head(tDeque).id] # None
  PROVE  /\ m_timeOut[Head(tDeque).id] = Head(tDeque).req
         /\ Head(tDeque).req \in Requests
<1> DEFINE a == Head(tDeque)
<1>1. a \in Messages /\ Carries(a)
  BY DEF AnswersRight, TypeOK
<1>2. a \in Acks
  BY <1>1 DEF Messages, System
<1>3. a.req \in Requests /\ a.id = token[a.req] /\ a.id # 0
  BY <1>1, <1>2 DEF Carries, Acks, Tokens
<1>4. m_timeOut[a.id] \in Requests /\ token[m_timeOut[a.id]] = a.id
  BY DEF TableRight, TypeOK
<1> QED BY <1>3, <1>4 DEF IdsRight

LEMMA TableSender ==
  ASSUME TypeOK, IdsRight, TableInv, NEW q \in Requests, Sender(q) \/ Expire(q)
  PROVE  TableInv'
<1> USE DEF TableInv, TableRight, HandledOnce, NotForgotten
<1>1. CASE Push(q) \/ SetReqID(q) \/ Expire(q)
  BY <1>1 DEF Push, SetReqID, Expire, table, reqVars, loopVars
<1>2. CASE AddAckTimeOut(q)
  <2>1. /\ token' = [token EXCEPT ![q] = m_token] /\ m_token \in Tokens
        /\ m_timeOut' = [m_timeOut EXCEPT ![m_token] = q]
        /\ token[q] = 0 /\ UNCHANGED <<pc, tTimeOut, handled>>
    BY <1>2 DEF AddAckTimeOut, IdsRight, loopVars
  <2>2. \A p \in Requests : token[p] # m_token /\ token[p] \in Nat
    BY <2>1 DEF IdsRight, TypeOK, Tokens
  <2>3. m_timeOut[m_token] = None
    BY <2>1, <2>2 DEF TypeOK
  <2>4. \A p \in Requests : token'[p] = IF p = q THEN m_token ELSE token[p]
    BY <2>1 DEF TypeOK
  <2>5. \A k \in Tokens : m_timeOut'[k] = IF k = m_token THEN q ELSE m_timeOut[k]
    BY <2>1 DEF TypeOK
  <2>6. m_token # 0 /\ q # None /\ q \notin tTimeOut
        /\ \A k \in Tokens : m_timeOut[k] # q
    BY <2>1, ConstantsAssumption DEF Tokens
  <2>7. TableRight'
    BY <2>1, <2>2, <2>3, <2>4, <2>5, <2>6, ConstantsAssumption DEF TypeOK
  <2>8. HandledOnce'
    BY <2>1
  <2>9. NotForgotten'
    <3> SUFFICES ASSUME NEW p \in Requests, token'[p] # 0, handled'[p] = <<>>
                 PROVE  p \in tTimeOut' \/ \E k \in Tokens : m_timeOut'[k] = p
      OBVIOUS
    <3>1. CASE p = q
      BY <3>1, <2>1, <2>5
    <3>2. CASE p # q
      BY <3>2, <2>1, <2>3, <2>4, <2>5, ConstantsAssumption
    <3> QED BY <3>1, <3>2
  <2> QED BY <2>7, <2>8, <2>9
<1> QED BY <1>1, <1>2 DEF Sender

LEMMA TableDispatching ==
  ASSUME TypeOK, IdsRight, AnswersRight, TableInv, NoScan \/ Scan \/ Dispatching
  PROVE  TableInv'
<1> USE DEF TableInv, TableRight, HandledOnce, NotForgotten
<1>1. CASE NoScan
  BY <1>1 DEF NoScan, table, reqVars
<1>2. CASE Scan
  <2>1. /\ tTimeOut' = {q \in due : \E k \in Tokens : m_timeOut[k] = q}
        /\ pc' = "timeouts" /\ tTimeOut = {}
        /\ UNCHANGED <<token, handled>>
    BY <1>2 DEF Scan, reqVars
  <2>2. \A k \in Tokens :
          m_timeOut'[k] = IF m_timeOut[k] \in due THEN None ELSE m_timeOut[k]
    BY <1>2 DEF Scan
  <2>3. due \subseteq Requests
    BY DEF TypeOK
  <2>4. \A k \in Tokens : m_timeOut'[k] # None =>
          m_timeOut'[k] = m_timeOut[k] /\ m_timeOut[k] \notin tTimeOut'
    BY <2>1, <2>2
  <2>5. \A q \in tTimeOut' : \E k \in Tokens : m_timeOut[k] = q /\ q # None
    BY <2>1, <2>3, ConstantsAssumption
  <2>6. \A q \in tTimeOut' : token[q] # 0 /\ handled[q] = <<>>
    BY <2>5 DEF Tokens
  <2>7. TableRight'
    BY <2>1, <2>4, <2>6
  <2>8. HandledOnce'
    BY <2>1
  <2>9. NotForgotten'
    <3> SUFFICES ASSUME NEW q \in Requests, token[q] # 0, handled[q] = <<>>
                 PROVE  q \in tTimeOut' \/ \E k \in Tokens : m_timeOut'[k] = q
      BY <2>1
    <3>1. PICK k \in Tokens : m_timeOut[k] = q
      BY <2>1
    <3>2. CASE q \in due
      BY <3>1, <3>2, <2>1
    <3>3. CASE q \notin due
      BY <3>1, <3>3, <2>2
    <3> QED BY <3>2, <3>3
  <2> QED BY <2>7, <2>8, <2>9
<1>3. CASE DispatchTimeOut
  <2> PICK q \in tTimeOut : /\ tTimeOut' = tTimeOut \ {q}
                            /\ handled' = [handled EXCEPT ![q] = Append(@, TimeOut)]
    BY <1>3 DEF DispatchTimeOut
  <2>1. pc' = pc /\ pc = "timeouts" /\ UNCHANGED <<m_timeOut, token>>
    BY <1>3 DEF DispatchTimeOut, table, reqVars
  <2>2. q \in Requests /\ handled[q] = <<>>
    BY DEF TypeOK
  <2>3. \A p \in Requests :
          handled'[p] = IF p = q THEN <<TimeOut>> ELSE handled[p]
    BY <2>2 DEF TypeOK
  <2>4. \A k \in Tokens : m_timeOut[k] # q
    BY ConstantsAssumption, <2>2
  <2>5. <<TimeOut>> # <<>> /\ tTimeOut \subseteq Requests
    BY DEF TypeOK
  <2>6. HandledOnce'
    BY <2>3
  <2>7. NotForgotten'
    BY <2>1, <2>3, <2>5
  <2>8. TableRight'
    BY <2>1, <2>2, <2>3, <2>4, <2>5 DEF TypeOK
  <2> QED BY <2>6, <2>7, <2>8
<1>4. CASE TimeOutsDone \/ Drain \/ DispatchSystem \/ SystemThrows \/ MessagesDone
  <2>1. UNCHANGED <<m_timeOut, token, handled, tTimeOut>> /\ tTimeOut = {}
    BY <1>4 DEF TimeOutsDone, Drain, DispatchSystem, SystemThrows,
                MessagesDone, table, reqVars
  <2> QED BY <2>1
<1>5. CASE DispatchAck
  <2> DEFINE a == Head(tDeque)
  <2>1. pc' = pc /\ pc = "messages" /\ UNCHANGED <<token, tTimeOut>> /\ tTimeOut = {}
    BY <1>5 DEF DispatchAck, reqVars
  <2>2. CASE a.id \in Tokens /\ m_timeOut[a.id] # None
    <3> DEFINE q == a.req
               k == a.id
    <3>1. m_timeOut[k] = q /\ q \in Requests /\ k \in Tokens
      BY <1>5, <2>1, <2>2, AckFindsItsRequest DEF DispatchAck
    <3>2. /\ m_timeOut' = [m_timeOut EXCEPT ![k] = None]
          /\ handled' = [handled EXCEPT ![q] = Append(@, q)]
      BY <1>5, <2>2, <3>1 DEF DispatchAck
    <3> HIDE DEF q, k
    <3>3. handled[q] = <<>> /\ token[q] = k /\ q # None /\ k # 0
      BY <3>1, ConstantsAssumption DEF Tokens
    <3>4. \A p \in Requests : handled'[p] = IF p = q THEN <<q>> ELSE handled[p]
      BY <3>1, <3>2, <3>3 DEF TypeOK
    <3>5. \A j \in Tokens : m_timeOut'[j] = IF j = k THEN None ELSE m_timeOut[j]
      BY <3>2 DEF TypeOK
    <3>6. \A j \in Tokens : j # k => m_timeOut[j] # q
      BY <3>1, <3>3
    <3>7. <<q>> # <<>>
      OBVIOUS
    <3>8. HandledOnce'
      BY <3>4
    <3>9. NotForgotten'
      BY <2>1, <3>1, <3>4, <3>5, <3>7
    <3>10. TableRight'
      BY <2>1, <3>3, <3>4, <3>5, <3>6 DEF TypeOK
    <3> QED BY <3>8, <3>9, <3>10
  <2>3. CASE ~(a.id \in Tokens /\ m_timeOut[a.id] # None)
    BY <1>5, <2>1, <2>3 DEF DispatchAck
  <2> QED BY <2>2, <2>3
<1> QED BY <1>1, <1>2, <1>3, <1>4, <1>5 DEF Dispatching

\* A DispatchMessage sends at one place of its loop only.
SendsAtFlush == sendPC = "sending" /\ ~single => pc = "flush"

LEMMA SendsAtFlushHolds == Spec => []SendsAtFlush
<1>1. Init => SendsAtFlush
  BY DEF Init, SendsAtFlush
<1>2. TypeOK /\ SendsAtFlush /\ [Next]_vars => SendsAtFlush'
  <2> SUFFICES ASSUME TypeOK, SendsAtFlush, [Next]_vars PROVE SendsAtFlush'
    OBVIOUS
  <2> USE DEF SendsAtFlush
  <2>1. ASSUME NEW q \in Requests, Sender(q) \/ Expire(q) PROVE SendsAtFlush'
    BY <2>1 DEF Sender, Push, AddAckTimeOut, SetReqID, Expire, loopVars, sendVars
  <2>2. CASE NoScan \/ Scan \/ Dispatching
    BY <2>2 DEF NoScan, Scan, Dispatching, DispatchTimeOut, TimeOutsDone, Drain,
                DispatchAck, DispatchSystem, SystemThrows, MessagesDone, sendVars
  <2>3. CASE Sending
    BY <2>3 DEF Sending, Flush, SendMessage, FlushDone, loopVars
  <2>4. CASE ReceiveSystem \/ UNCHANGED vars \/ \E a \in wire : Receive(a)
    BY <2>4 DEF ReceiveSystem, Receive, vars, loopVars, sendVars
  <2> QED BY <2>1, <2>2, <2>3, <2>4 DEF Next
<1> QED BY <1>1, <1>2, TypeInvariant, PTL DEF Spec

LEMMA TableInvHolds == Spec => []TableInv
<1>1. Init => TableInv
  BY DEF Init, TableInv, TableRight, HandledOnce, NotForgotten
<1>2. TypeOK /\ IdsRight /\ AnswersRight /\ SendsAtFlush /\ TableInv /\ [Next]_vars
        => TableInv'
  <2> SUFFICES ASSUME TypeOK, IdsRight, AnswersRight, SendsAtFlush, TableInv,
                      [Next]_vars
               PROVE  TableInv'
    OBVIOUS
  <2>1. CASE Sending
    <3>1. UNCHANGED <<m_timeOut, token, handled, tTimeOut>>
          /\ (pc' = pc \/ pc # "timeouts")
      BY <2>1 DEF SendsAtFlush, Sending, Flush, SendMessage, FlushDone, table,
                  reqVars, loopVars
    <3> QED BY <3>1 DEF TableInv, TableRight, HandledOnce, NotForgotten
  <2>2. CASE ReceiveSystem \/ UNCHANGED vars \/ \E a \in wire : Receive(a)
    <3>1. UNCHANGED <<m_timeOut, token, handled, tTimeOut, pc>>
      BY <2>2 DEF ReceiveSystem, Receive, vars, table, reqVars, loopVars
    <3> QED BY <3>1 DEF TableInv, TableRight, HandledOnce, NotForgotten
  <2> QED BY <2>1, <2>2, TableSender, TableDispatching DEF Next
<1> QED BY <1>1, <1>2, TypeInvariant, IdsRightHolds, AnswersRightHolds,
        SendsAtFlushHolds, PTL DEF Spec

\* No Ack handler runs twice, or with an answer to another Request.
THEOREM HandlersRunOnce == Spec => []HandledOnce
<1>1. TableInv => HandledOnce
  BY DEF TableInv
<1> QED BY <1>1, TableInvHolds, PTL

\* A Request that waits is in m_timeOut or on its way to its handler.
THEOREM NoRequestIsForgotten == Spec => []NotForgotten
<1>1. TableInv => NotForgotten
  BY DEF TableInv
<1> QED BY <1>1, TableInvHolds, PTL

-----------------------------------------------------------------------------
\* The two steps that end a Request, as they change handled.
LEMMA HandlersGiven ==
  ASSUME TypeOK, IdsRight, AnswersRight, TableInv, [Next]_vars
  PROVE  \/ handled' = handled
         \/ \E q \in Requests : \E h \in {q, TimeOut} :
              /\ token[q] # 0 /\ handled[q] = <<>> /\ token' = token
              /\ handled' = [handled EXCEPT ![q] = <<h>>]
<1>1. CASE DispatchTimeOut
  <2> PICK q \in tTimeOut : handled' = [handled EXCEPT ![q] = Append(@, TimeOut)]
    BY <1>1 DEF DispatchTimeOut
  <2>1. q \in Requests /\ token[q] # 0 /\ handled[q] = <<>> /\ token' = token
    BY <1>1 DEF DispatchTimeOut, TableInv, TableRight, TypeOK, reqVars
  <2>2. handled' = [handled EXCEPT ![q] = <<TimeOut>>]
    BY <2>1
  <2> QED BY <2>1, <2>2
<1>2. CASE DispatchAck
  <2> DEFINE q == Head(tDeque).req
  <2>1. CASE Head(tDeque).id \in Tokens /\ m_timeOut[Head(tDeque).id] # None
    <3>1. m_timeOut[Head(tDeque).id] = q /\ q \in Requests
      BY <1>2, <2>1, AckFindsItsRequest DEF DispatchAck, TableInv
    <3>2. handled' = [handled EXCEPT ![q] = Append(@, q)] /\ token' = token
      BY <1>2, <2>1, <3>1 DEF DispatchAck, reqVars
    <3>3. handled[q] = <<>> /\ token[q] # 0
      BY <2>1, <3>1 DEF TableInv, TableRight, Tokens
    <3>4. handled' = [handled EXCEPT ![q] = <<q>>]
      BY <3>2, <3>3
    <3> QED BY <3>1, <3>2, <3>3, <3>4
  <2>2. CASE ~(Head(tDeque).id \in Tokens /\ m_timeOut[Head(tDeque).id] # None)
    BY <1>2, <2>2 DEF DispatchAck
  <2> QED BY <2>1, <2>2
<1>3. ASSUME NEW q \in Requests, Sender(q) \/ Expire(q) PROVE handled' = handled
  BY <1>3 DEF Sender, Push, AddAckTimeOut, SetReqID, Expire
<1>4. CASE NoScan \/ Scan \/ TimeOutsDone \/ Drain \/ DispatchSystem
             \/ SystemThrows \/ MessagesDone
  BY <1>4 DEF NoScan, Scan, TimeOutsDone, Drain, DispatchSystem, SystemThrows,
              MessagesDone
<1>5. CASE Sending \/ ReceiveSystem \/ UNCHANGED vars \/ \E a \in wire : Receive(a)
  BY <1>5 DEF Sending, Flush, SendMessage, FlushDone, ReceiveSystem, Receive, vars
<1> QED BY <1>1, <1>2, <1>3, <1>4, <1>5 DEF Next, Dispatching

(***************************************************************************)
(* Dispatcher implements RequestOnce: AddAckTimeOut issues a Request, and  *)
(* the step that gives its handler an Ack or the timeout ends it.          *)
(***************************************************************************)
THEOREM ImplementsRequestOnce == Spec => IsRequestOnce
<1>1. Init => Once!Init
  BY DEF Init, Once!Init, OnceState
<1>2. TypeOK /\ IdsRight /\ AnswersRight /\ TableInv /\ [Next]_vars
        => [Once!Next]_OnceState
  <2> SUFFICES ASSUME TypeOK, IdsRight, AnswersRight, TableInv, [Next]_vars,
                      OnceState' # OnceState
               PROVE  Once!Next
    OBVIOUS
  <2>1. <<TimeOut>> # <<>> /\ \A q \in Requests : <<q>> # <<>> /\ <<q>> # <<TimeOut>>
    BY ConstantsAssumption
  <2>2. CASE handled' = handled
    <3>1. PICK q \in Requests : token'[q] # token[q]
      BY <2>2 DEF OnceState
    <3>2. AddAckTimeOut(q)
      <4>1. PICK p \in Requests : AddAckTimeOut(p)
        <5>1. ASSUME NEW p \in Requests, Push(p) \/ SetReqID(p) \/ Expire(p)
              PROVE  FALSE
          BY <5>1, <3>1 DEF Push, SetReqID, Expire, reqVars
        <5>2. ~(NoScan \/ Scan \/ Dispatching)
          BY <3>1 DEF NoScan, Scan, Dispatching, DispatchTimeOut, TimeOutsDone,
             Drain, DispatchAck, DispatchSystem, SystemThrows, MessagesDone, reqVars
        <5>3. ~(Sending \/ ReceiveSystem \/ UNCHANGED vars \/ \E a \in wire : Receive(a))
          BY <3>1 DEF Sending, Flush, SendMessage, FlushDone, ReceiveSystem,
             Receive, vars, reqVars
        <5> QED BY <5>1, <5>2, <5>3 DEF Next, Sender
      <4>2. p = q
        BY <3>1, <4>1 DEF AddAckTimeOut, TypeOK
      <4> QED BY <4>1, <4>2
    <3>3. /\ token' = [token EXCEPT ![q] = m_token] /\ m_token # 0
          /\ token[q] = 0 /\ handled[q] = <<>>
      BY <3>2 DEF AddAckTimeOut, Tokens, IdsRight, TableInv, TableRight
    <3>4. OnceState[q] = "idle"
      BY <2>1, <3>3 DEF OnceState
    <3>5. OnceState' = [OnceState EXCEPT ![q] = "pending"]
      BY <2>1, <2>2, <3>3 DEF OnceState, TypeOK
    <3> QED BY <3>4, <3>5 DEF Once!Next, Once!Issue
  <2>3. ASSUME NEW q \in Requests, NEW h \in {q, TimeOut},
               /\ token[q] # 0 /\ handled[q] = <<>> /\ token' = token
               /\ handled' = [handled EXCEPT ![q] = <<h>>]
        PROVE  Once!Next
    <3>1. OnceState[q] = "pending"
      BY <2>1, <2>3 DEF OnceState
    <3>2. \A p \in Requests :
            handled'[p] = IF p = q THEN <<h>> ELSE handled[p]
      BY <2>3 DEF TypeOK
    <3> DEFINE s == IF h = TimeOut THEN "timedout" ELSE "answered"
    <3>3. \A p \in Requests :
            OnceState'[p] = IF p = q THEN s ELSE OnceState[p]
      <4> TAKE p \in Requests
      <4>1. CASE p = q
        <5>1. handled'[p] = <<h>>
          BY <4>1, <3>2
        <5>2. handled'[p] # <<>> /\ Len(handled'[p]) = 1 /\ handled'[p][1] = h
          BY <5>1
        <5>3. OnceState'[p] = IF handled'[p][Len(handled'[p])] = TimeOut
                                THEN "timedout" ELSE "answered"
          BY <5>2 DEF OnceState
        <5> QED BY <4>1, <5>2, <5>3
      <4>2. CASE p # q
        BY <4>2, <2>3, <3>2 DEF OnceState
      <4> QED BY <4>1, <4>2
    <3>4. OnceState' = [OnceState EXCEPT ![q] = s]
      BY <3>3 DEF OnceState
    <3>5. CASE h = TimeOut
      <4>1. OnceState' = [OnceState EXCEPT ![q] = "timedout"]
        BY <3>5, <3>4
      <4> QED BY <3>1, <4>1 DEF Once!Next, Once!End
    <3>6. CASE h = q
      <4>1. OnceState' = [OnceState EXCEPT ![q] = "answered"]
        BY <3>6, <3>4, ConstantsAssumption
      <4> QED BY <3>1, <4>1 DEF Once!Next, Once!End
    <3> QED BY <3>5, <3>6
  <2> QED BY <2>2, <2>3, HandlersGiven
<1> QED BY <1>1, <1>2, TypeInvariant, IdsRightHolds, AnswersRightHolds,
        TableInvHolds, PTL DEF Spec, IsRequestOnce, Once!Spec
=============================================================================
