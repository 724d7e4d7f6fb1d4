------------------------------ MODULE RedisConn -------------------------------
(***************************************************************************)
(* The connections of CRedisConnPool, and CRedisInterface as their user.   *)
(*                                                                         *)
(* The server answers commands in order.  A command in a pipeline is only  *)
(* counted; its reply is read by GetReplyInPipeline, or by the next        *)
(* command that waits for a reply and takes the first it gets.  ReleaseConn*)
(* does not clear: replies that nobody read are left to the next user.     *)
(***************************************************************************)
EXTENDS ConnPool

CONSTANT MaxPending  \* bound of the model: replies outstanding on a connection

VARIABLES
  redis,     \* the state of every connection
  inherits   \* history: users whose connection came with replies of others

redisVars == <<poolVars, redis, inherits>>

\* Whose command a reply is of: its present user's, or an earlier user's.
Owners == {"mine", "old"}

\* m_reply, which the next command clears, is left out.
NewConn == [m_pending_reply_count |-> 0, outstanding |-> <<>>, broken |-> FALSE]

ConnStates == [m_pending_reply_count : 0 .. MaxPending,
               outstanding : Seq(Owners), broken : BOOLEAN]

RedisInit ==
  /\ PoolInit
  /\ redis = [c \in Conns |-> NewConn]
  /\ inherits = {}

Set(u, x) == redis' = [redis EXCEPT ![hand[u]] = x]

\* The connection is lost: hiredis keeps the error, and no reply comes again.
Lost(x) == [x EXCEPT !.broken = TRUE, !.outstanding = <<>>]

\* The pool's steps.  Connect throws, so AddConnecton deletes nothing.
RedisTake(u) ==
  /\ TakeConnection(u)
  /\ inherits' = IF redis[hand'[u]].outstanding # <<>> THEN inherits \cup {u}
                 ELSE inherits \ {u}
  /\ UNCHANGED redis

RedisAdd(u) == AddConnection(u) /\ UNCHANGED <<redis, inherits>>

RedisAddFails(u) == AddFails(u) /\ UNCHANGED <<redis, inherits>>

\* Replies that are left are another's for the next user.
LeftBehind(x) ==
  [x EXCEPT !.outstanding = [i \in 1 .. Len(x.outstanding) |-> "old"]]

RedisRelease(u) ==
  /\ ReleaseConn(u)
  /\ redis' = [redis EXCEPT ![hand[u]] = LeftBehind(@)]
  /\ UNCHANGED inherits

\* ExecuteCommand: Clear, send, and take the first reply that comes.
ExecuteCommand(u) ==
  LET x == redis[hand[u]] IN
  /\ Uses(u)
  /\ \/ /\ ~x.broken
        /\ Set(u, [x EXCEPT !.outstanding = Tail(Append(@, "mine"))])
     \/ Set(u, Lost(x))
  /\ UNCHANGED <<poolVars, inherits>>

\* ExecuteCommandInPipeline: the command is buffered, lost connection or not.
ExecuteCommandInPipeline(u) ==
  LET x == redis[hand[u]] IN
  /\ Uses(u) /\ x.m_pending_reply_count < MaxPending
  /\ Set(u, [x EXCEPT !.m_pending_reply_count = @ + 1,
                      !.outstanding = IF x.broken THEN @ ELSE Append(@, "mine")])
  /\ UNCHANGED <<poolVars, inherits>>

\* Broken variant: the reply stays counted as pending.
CountDown_Forgotten(x) == x

CountDown(x) == [x EXCEPT !.m_pending_reply_count = @ - 1]

\* GetReplyInPipeline: one is counted down whether or not the reply comes.
GetReplyInPipeline(u) ==
  LET x == redis[hand[u]]
      y == CountDown(x)
  IN
  /\ Uses(u) /\ x.m_pending_reply_count > 0
  /\ \/ /\ ~x.broken /\ x.outstanding # <<>>
        /\ Set(u, [y EXCEPT !.outstanding = Tail(@)])
     \/ Set(u, Lost(y))
  /\ UNCHANGED <<poolVars, inherits>>

RedisNext ==
  \E u \in Users :
    \/ RedisTake(u)
    \/ RedisAdd(u)
    \/ RedisAddFails(u)
    \/ RedisRelease(u)
    \/ ExecuteCommand(u)
    \/ ExecuteCommandInPipeline(u)
    \/ GetReplyInPipeline(u)

-----------------------------------------------------------------------------
RedisTypeOK ==
  /\ PoolTypeOK
  /\ redis \in [Conns -> ConnStates]
  /\ inherits \subseteq Users

\* The count of pending replies is the number that will come, through direct
\* commands that take another's reply and through changes of the user; and a
\* reply of an earlier user comes only to one whose connection had some left.
RepliesCounted ==
  /\ \A c \in Conns : ~redis[c].broken =>
       redis[c].m_pending_reply_count = Len(redis[c].outstanding)
  /\ \A u \in Users \ inherits : Uses(u) =>
       "old" \notin Range(redis[hand[u]].outstanding)
=============================================================================
