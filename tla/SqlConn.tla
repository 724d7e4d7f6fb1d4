------------------------------- MODULE SqlConn --------------------------------
(***************************************************************************)
(* The connections of CSqlConnPool, and CMysqlInterface as their user.     *)
(*                                                                         *)
(* The MySQL client refuses a statement while results of the last one are  *)
(* unread ("commands out of sync").  A SELECT has one result set, whose    *)
(* rows Operate stores; a CALL (ExecuteRet) has several and a status at    *)
(* the end.  Clear reads what is left, before the next statement and       *)
(* before the connection is idle.  Execute is for statements without rows, *)
(* as all its callers use it.                                              *)
(***************************************************************************)
EXTENDS ConnPool

VARIABLE conn  \* the state of every connection

sqlVars == <<poolVars, conn>>

\* m_results is set, m_isFunc, and the results after the current one.
NewConn == [m_results |-> FALSE, m_isFunc |-> FALSE, more |-> <<>>]

\* The results of a CALL whose procedure selects twice, after the first.
OfCall == <<"rows", "status">>

ConnStates == [m_results : BOOLEAN, m_isFunc : BOOLEAN, more : {<<>>, OfCall}]

SqlInit == PoolInit /\ conn = [c \in Conns |-> NewConn]

\* What a loop over mysql_next_result leaves that ends at a status, which has
\* no rows to store, or at the last result.
AfterStatus(more) ==
  LET ends == {i \in DOMAIN more : more[i] = "status"} IN
  IF ends = {} THEN <<>>
  ELSE SubSeq(more, (CHOOSE i \in ends : \A j \in ends : i <= j) + 1, Len(more))

\* Broken variant: the rows are freed, and the results after them stay.
Clear_FreesRows(x) == [NewConn EXCEPT !.more = x.more]

\* Clear: for a CALL it reads the results that follow; else it looks for rows
\* of the current result, and there are none any more.
Clear(x) == [NewConn EXCEPT !.more = IF x.m_isFunc THEN AfterStatus(x.more) ELSE x.more]

\* QuerySQL clears only what has a result stored, ExceSQL always.
BeforeQuery(x) == IF x.m_results THEN Clear(x) ELSE x
BeforeExce(x)  == Clear(x)

\* Operate: the results of the statement, or an exception, which a statement
\* out of sync always ends in.
Operate(u, x, isFunc, outcomes) ==
  \E y \in outcomes \cup {x} :
    /\ y # x => x.more = <<>>
    /\ conn' = [conn EXCEPT ![hand[u]] = [y EXCEPT !.m_isFunc = isFunc]]

Select(u) ==
  /\ Uses(u)
  /\ Operate(u, BeforeQuery(conn[hand[u]]), FALSE, {[NewConn EXCEPT !.m_results = TRUE]})
  /\ UNCHANGED poolVars

\* A CALL whose procedure selects nothing (eResError), or twice.
ExecuteRet(u) ==
  /\ Uses(u)
  /\ Operate(u, BeforeQuery(conn[hand[u]]), TRUE,
             {NewConn, [NewConn EXCEPT !.m_results = TRUE, !.more = OfCall]})
  /\ UNCHANGED poolVars

Execute(u) ==
  /\ Uses(u)
  /\ Operate(u, BeforeExce(conn[hand[u]]), FALSE, {NewConn})
  /\ UNCHANGED poolVars

\* The destructor of CMysqlInterface: ReleaseConn clears the connection.
SqlRelease(u) ==
  /\ ReleaseConn(u)
  /\ conn' = [conn EXCEPT ![hand[u]] = Clear(@)]

SqlNext ==
  \E u \in Users :
    \/ TakeConnection(u) /\ UNCHANGED conn
    \/ AddConnection(u) /\ UNCHANGED conn
    \/ AddFails(u) /\ UNCHANGED conn
    \/ Select(u)
    \/ ExecuteRet(u)
    \/ Execute(u)
    \/ SqlRelease(u)

-----------------------------------------------------------------------------
SqlTypeOK == PoolTypeOK /\ conn \in [Conns -> ConnStates]

\* Whatever a user has run, an idle connection has no result unread, and a
\* connection in use none that its next statement does not read first.
SqlInSync ==
  /\ \A c \in Range(m_idleConn) : conn[c].more = <<>>
  /\ \A c \in Conns : BeforeQuery(conn[c]).more = <<>> /\ BeforeExce(conn[c]).more = <<>>
=============================================================================
