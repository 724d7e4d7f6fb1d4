------------------------------ MODULE Dispatcher ------------------------------
(***************************************************************************)
(* A dispatcher of CommBase/Network (DispatchBase, DispatchMessage and     *)
(* SingleDispatchThread): the queue of received messages, the queue of     *)
(* messages to send, and the table m_timeOut of Requests whose Ack is      *)
(* awaited.                                                                *)
(*                                                                         *)
(* AddSendMessage is three steps of the sending thread: the message is put *)
(* in m_sendDeque under m_sendLock, entered in m_timeOut under m_timeLock, *)
(* and given its id with no lock held.  The dispatcher's loop, on its own  *)
(* thread, may send the message between any two of them.                   *)
(*                                                                         *)
(* Requests and simple messages that are received change nothing here but  *)
(* through AddSendMessage; an exception in their handlers is caught there  *)
(* (DEF_SWITCH_TRY_DISPATCH).  The callbacks of a system message are not   *)
(* wrapped, so an exception in one ends the round.                         *)
(***************************************************************************)
EXTENDS Naturals, Sequences

CONSTANTS
  Requests,  \* the Requests that are sent, each one Message
  MaxToken,  \* the last token; GetToken's restart at 1 is not reached
  None,      \* no Request
  TimeOut,   \* what the handler is given when no Ack came: eReqTimeOut
  MaxQueue   \* bound of the model: a longer queue takes no system message

ASSUME ConstantsAssumption ==
  /\ MaxToken \in Nat /\ MaxQueue \in Nat
  /\ None \notin Requests /\ TimeOut \notin Requests /\ None # TimeOut

Tokens == 1 .. MaxToken

\* Messages of m_deque: the Ack of a Request carries the id it was sent with.
Acks     == [type : {"Ack"}, id : 0 .. MaxToken, req : Requests]
System   == [type |-> "System", id |-> 0, req |-> None]
Messages == Acks \cup {System}
AckOf(q, i) == [type |-> "Ack", id |-> i, req |-> q]

VARIABLES
  \* DispatchMgr::Init has made a SingleDispatchThread, not a DispatchMessage.
  single,
  \* DispatchBase.
  m_sendDeque, m_deque, m_timeOut, m_token,
  \* A Request: how far AddSendMessage is, its token, m_reqID, its time is up.
  stage, token, reqID, due,
  \* The dispatcher's loop and its local tTimeOut and tDeque.
  pc, tTimeOut, tDeque,
  \* The sending half of the loop and its local tSendDeque.
  sendPC, tSendDeque,
  \* What is on its way to the peer and back, and the history of what the
  \* Ack handlers were given: for each Request the Request that was answered,
  \* or TimeOut.
  wire, handled

table    == <<m_timeOut, m_token>>
reqVars  == <<stage, token, reqID>>
loopVars == <<pc, tTimeOut, tDeque>>
sendVars == <<m_sendDeque, sendPC, tSendDeque>>
vars == <<single, m_deque, table, reqVars, due, loopVars, sendVars, wire,
          handled>>

Init ==
  /\ single \in BOOLEAN
  /\ m_sendDeque = {} /\ m_deque = <<>>
  /\ m_timeOut = [k \in Tokens |-> None] /\ m_token = 1
  /\ stage = [q \in Requests |-> "new"]
  /\ token = [q \in Requests |-> 0] /\ reqID = [q \in Requests |-> 0]
  /\ due = {}
  /\ pc = "scan" /\ tTimeOut = {} /\ tDeque = <<>>
  /\ sendPC = "idle" /\ tSendDeque = {}
  /\ wire = {} /\ handled = [q \in Requests |-> <<>>]

-----------------------------------------------------------------------------
(***************************************************************************)
(* AddSendMessage, by whichever thread sends the Request.                  *)
(***************************************************************************)

\* The message enters m_sendDeque; m_sendLock is given up.
Push(q) ==
  /\ stage[q] = "new"
  /\ stage' = [stage EXCEPT ![q] = "pushed"]
  /\ m_sendDeque' = m_sendDeque \cup {q}
  /\ UNCHANGED <<single, m_deque, table, token, reqID, due, loopVars,
                 sendPC, tSendDeque, wire, handled>>

\* Broken variant: two senders may be given the same token.
AddAckTimeOut_SharesToken(q) ==
  /\ stage[q] = "pushed" /\ m_token \in Tokens
  /\ stage' = [stage EXCEPT ![q] = "registered"]
  /\ token' = [token EXCEPT ![q] = m_token]
  /\ m_timeOut' = [m_timeOut EXCEPT ![m_token] = q]
  /\ m_token' \in {m_token, m_token + 1}
  /\ UNCHANGED <<single, m_deque, reqID, due, loopVars, sendVars, wire,
                 handled>>

\* AddAckTimeOut up to its unlock: GetToken and the entry in m_timeOut.
AddAckTimeOut(q) ==
  /\ stage[q] = "pushed" /\ m_token \in Tokens
  /\ stage' = [stage EXCEPT ![q] = "registered"]
  /\ token' = [token EXCEPT ![q] = m_token]
  /\ m_timeOut' = [m_timeOut EXCEPT ![m_token] = q]
  /\ m_token' = m_token + 1
  /\ UNCHANGED <<single, m_deque, reqID, due, loopVars, sendVars, wire,
                 handled>>

\* Broken variant: reads the member again, without the lock.
SetReqID_ReadsMToken(q) ==
  /\ stage[q] = "registered"
  /\ stage' = [stage EXCEPT ![q] = "set"]
  /\ reqID' = [reqID EXCEPT ![q] = m_token]
  /\ UNCHANGED <<single, m_deque, table, token, due, loopVars, sendVars,
                 wire, handled>>

\* SetReqID, after the unlock.
SetReqID(q) ==
  /\ stage[q] = "registered"
  /\ stage' = [stage EXCEPT ![q] = "set"]
  /\ reqID' = [reqID EXCEPT ![q] = token[q]]
  /\ UNCHANGED <<single, m_deque, table, token, due, loopVars, sendVars,
                 wire, handled>>

\* The Request's time has come.
Expire(q) ==
  /\ token[q] # 0 /\ q \notin due
  /\ due' = due \cup {q}
  /\ UNCHANGED <<single, m_deque, table, reqVars, loopVars, sendVars, wire,
                 handled>>

-----------------------------------------------------------------------------
(***************************************************************************)
(* The dispatcher's loop.                                                  *)
(***************************************************************************)

\* Less than a second since the last scan.
NoScan ==
  /\ pc = "scan"
  /\ pc' = "drain"
  /\ UNCHANGED <<single, m_deque, table, reqVars, due, tTimeOut, tDeque,
                 sendVars, wire, handled>>

\* Broken variant: erases what it has looked at, due or not.
Scan_ErasesAll ==
  /\ pc = "scan"
  /\ pc' = "timeouts"
  /\ tTimeOut' = {q \in due : \E k \in Tokens : m_timeOut[k] = q}
  /\ m_timeOut' = [k \in Tokens |-> None]
  /\ UNCHANGED <<single, m_deque, m_token, reqVars, due, tDeque, sendVars,
                 wire, handled>>

\* Broken variant: the items that are due stay in m_timeOut.
Scan_ErasesNone ==
  /\ pc = "scan"
  /\ pc' = "timeouts"
  /\ tTimeOut' = {q \in due : \E k \in Tokens : m_timeOut[k] = q}
  /\ UNCHANGED <<single, m_deque, table, reqVars, due, tDeque, sendVars,
                 wire, handled>>

\* The scan, under m_timeLock: items that are due move to tTimeOut.
Scan ==
  /\ pc = "scan"
  /\ pc' = "timeouts"
  /\ tTimeOut' = {q \in due : \E k \in Tokens : m_timeOut[k] = q}
  /\ m_timeOut' = [k \in Tokens |->
                     IF m_timeOut[k] \in due THEN None ELSE m_timeOut[k]]
  /\ UNCHANGED <<single, m_deque, m_token, reqVars, due, tDeque, sendVars,
                 wire, handled>>

\* Dispatch of a timeout: the Ack handler, with eReqTimeOut.
DispatchTimeOut ==
  /\ pc = "timeouts"
  /\ \E q \in tTimeOut :
       /\ tTimeOut' = tTimeOut \ {q}
       /\ handled' = [handled EXCEPT ![q] = Append(@, TimeOut)]
  /\ UNCHANGED <<single, m_deque, table, reqVars, due, pc, tDeque,
                 sendVars, wire>>

TimeOutsDone ==
  /\ pc = "timeouts" /\ tTimeOut = {}
  /\ pc' = "drain"
  /\ UNCHANGED <<single, m_deque, table, reqVars, due, tTimeOut, tDeque,
                 sendVars, wire, handled>>

\* Everything received is taken out of m_deque.
Drain ==
  /\ pc = "drain"
  /\ pc' = "messages"
  /\ tDeque' = m_deque /\ m_deque' = <<>>
  /\ UNCHANGED <<single, table, reqVars, due, tTimeOut, sendVars, wire,
                 handled>>

\* Broken variant: the item stays, so its time will come.
DispatchAck_KeepsItem ==
  /\ pc = "messages" /\ tDeque # <<>> /\ Head(tDeque).type = "Ack"
  /\ tDeque' = Tail(tDeque)
  /\ LET a == Head(tDeque) IN
       IF a.id \in Tokens /\ m_timeOut[a.id] # None
         THEN handled' = [handled EXCEPT ![m_timeOut[a.id]] = Append(@, a.req)]
         ELSE UNCHANGED handled
  /\ UNCHANGED <<single, m_deque, table, reqVars, due, pc, tTimeOut,
                 sendVars, wire>>

\* Dispatch of an Ack: DelAckTimeOut finds the Request by the Ack's id and
\* erases it, then the handler gets the answer.  An unknown id is dropped.
DispatchAck ==
  /\ pc = "messages" /\ tDeque # <<>> /\ Head(tDeque).type = "Ack"
  /\ tDeque' = Tail(tDeque)
  /\ LET a == Head(tDeque) IN
       IF a.id \in Tokens /\ m_timeOut[a.id] # None
         THEN /\ m_timeOut' = [m_timeOut EXCEPT ![a.id] = None]
              /\ handled' = [handled EXCEPT
                              ![m_timeOut[a.id]] = Append(@, a.req)]
         ELSE UNCHANGED <<m_timeOut, handled>>
  /\ UNCHANGED <<single, m_deque, m_token, reqVars, due, pc, tTimeOut,
                 sendVars, wire>>

\* Dispatch of a system message.
DispatchSystem ==
  /\ pc = "messages" /\ tDeque # <<>> /\ Head(tDeque).type = "System"
  /\ tDeque' = Tail(tDeque)
  /\ UNCHANGED <<single, m_deque, table, reqVars, due, pc, tTimeOut,
                 sendVars, wire, handled>>

\* Its callback throws: DispatchMessage begins a new round, what was left of
\* tDeque is gone; SingleDispatchThread goes on with the next message.
SystemThrows ==
  /\ pc = "messages" /\ tDeque # <<>> /\ Head(tDeque).type = "System"
  /\ IF single THEN tDeque' = Tail(tDeque) /\ UNCHANGED pc
               ELSE tDeque' = <<>> /\ pc' = "scan"
  /\ UNCHANGED <<single, m_deque, table, reqVars, due, tTimeOut, sendVars,
                 wire, handled>>

\* SingleDispatchThread leaves the sending to its own thread.
MessagesDone ==
  /\ pc = "messages" /\ tDeque = <<>>
  /\ pc' = IF single THEN "scan" ELSE "flush"
  /\ UNCHANGED <<single, m_deque, table, reqVars, due, tTimeOut, tDeque,
                 sendVars, wire, handled>>

-----------------------------------------------------------------------------
\* Everything to be sent is taken out of m_sendDeque.
Flush ==
  /\ sendPC = "idle" /\ (single \/ pc = "flush")
  /\ sendPC' = "sending"
  /\ tSendDeque' = m_sendDeque /\ m_sendDeque' = {}
  /\ UNCHANGED <<single, m_deque, table, reqVars, due, loopVars, wire,
                 handled>>

\* CSessionMgr::AddMessage of one message: its head, with the id it has now,
\* goes to the session's buffer; without the session, or without room in its
\* buffer, the message is lost.
SendMessage ==
  /\ sendPC = "sending"
  /\ \E q \in tSendDeque :
       /\ tSendDeque' = tSendDeque \ {q}
       /\ wire' \in {wire, wire \cup {AckOf(q, reqID[q])}}
  /\ UNCHANGED <<single, m_deque, table, reqVars, due, loopVars,
                 m_sendDeque, sendPC, handled>>

FlushDone ==
  /\ sendPC = "sending" /\ tSendDeque = {}
  /\ sendPC' = "idle"
  /\ pc' = IF single THEN pc ELSE "scan"
  /\ UNCHANGED <<single, m_deque, table, reqVars, due, tTimeOut, tDeque,
                 m_sendDeque, tSendDeque, wire, handled>>

\* The peer's Ack, with the id the Request came with, is received.  It may
\* take any time, or never come.
Receive(a) ==
  /\ wire' = wire \ {a}
  /\ m_deque' = Append(m_deque, a)
  /\ UNCHANGED <<single, table, reqVars, due, loopVars, sendVars, handled>>

\* A session is built, breaks or cannot be built.
ReceiveSystem ==
  /\ Len(m_deque) < MaxQueue
  /\ m_deque' = Append(m_deque, System)
  /\ UNCHANGED <<single, table, reqVars, due, loopVars, sendVars, wire,
                 handled>>

Sender(q) == Push(q) \/ AddAckTimeOut(q) \/ SetReqID(q)

Dispatching == DispatchTimeOut \/ TimeOutsDone \/ Drain \/ DispatchAck
                 \/ DispatchSystem \/ SystemThrows \/ MessagesDone
Sending == Flush \/ SendMessage \/ FlushDone

Next ==
  \/ \E q \in Requests : Sender(q) \/ Expire(q)
  \/ NoScan \/ Scan \/ Dispatching
  \/ Sending
  \/ \E a \in wire : Receive(a)
  \/ ReceiveSystem

Spec == Init /\ [][Next]_vars

-----------------------------------------------------------------------------
TypeOK ==
  /\ single \in BOOLEAN
  /\ m_sendDeque \subseteq Requests /\ tSendDeque \subseteq Requests
  /\ m_deque \in Seq(Messages) /\ tDeque \in Seq(Messages)
  /\ m_timeOut \in [Tokens -> Requests \cup {None}]
  /\ m_token \in 1 .. MaxToken + 1
  /\ stage \in [Requests -> {"new", "pushed", "registered", "set"}]
  /\ token \in [Requests -> 0 .. MaxToken]
  /\ reqID \in [Requests -> 0 .. MaxToken]
  /\ due \subseteq Requests /\ tTimeOut \subseteq Requests
  /\ pc \in {"scan", "timeouts", "drain", "messages", "flush"}
  /\ sendPC \in {"idle", "sending"}
  /\ wire \subseteq Acks
  /\ handled \in [Requests -> Seq(Requests \cup {TimeOut})]

(***************************************************************************)
(* The handler of a Request's Ack runs at most once, with the answer to    *)
(* that Request or with the timeout: never both, and never the answer to   *)
(* another Request that had the same id.                                   *)
(***************************************************************************)
HandledOnce ==
  \A q \in Requests : handled[q] \in {<<>>, <<q>>, <<TimeOut>>}

(***************************************************************************)
(* A Request that has been entered in m_timeOut is still there, or on its  *)
(* way to its handler, until the handler has run: nobody waits for an      *)
(* answer that the dispatcher has forgotten, whatever messages are lost    *)
(* and whatever callbacks throw.                                           *)
(***************************************************************************)
NotForgotten ==
  \A q \in Requests :
    token[q] # 0 /\ handled[q] = <<>> =>
      q \in tTimeOut \/ \E k \in Tokens : m_timeOut[k] = q

\* What the dispatcher promises the senders: AddAckTimeOut issues a Request,
\* the step that gives its handler an Ack or the timeout ends it.
OnceState == [q \in Requests |->
  IF handled[q] = <<>>
    THEN IF token[q] # 0 THEN "pending" ELSE "idle"
    ELSE IF handled[q][Len(handled[q])] = TimeOut THEN "timedout"
                                                  ELSE "answered"]

Once == INSTANCE RequestOnce WITH state <- OnceState
IsRequestOnce == Once!Spec

(***************************************************************************)
(* Liveness: senders finish AddSendMessage, time passes, the loop runs and *)
(* scans again and again.  The peer and the network owe nothing.           *)
(***************************************************************************)
FairSpec ==
  /\ Spec
  /\ \A q \in Requests : WF_vars(AddAckTimeOut(q) \/ SetReqID(q))
  /\ \A q \in Requests : WF_vars(Expire(q))
  /\ WF_vars(NoScan \/ Scan \/ Dispatching) /\ WF_vars(Sending)
  /\ SF_vars(Scan)

\* Every Request that is sent ends: its handler runs.
EveryRequestEnds ==
  \A q \in Requests : stage[q] # "new" ~> handled[q] # <<>>
=============================================================================
