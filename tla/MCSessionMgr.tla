---------------------------- MODULE MCSessionMgr ----------------------------
(* SessionMgr on small instances: three descriptors, and the servers with   *)
(* the numbers of connections the configurations choose.                    *)
EXTENDS SessionMgr, TLC

\* A game server with a group of two, and a login server with one connection.
OneGroup == (1 :> 2) @@ (2 :> 1)

\* A game server alone.
OneServer == (1 :> 2)

\* Two game servers with a group of two each.
TwoGroups == (1 :> 2) @@ (2 :> 2)

\* One epoll thread; two dispatch threads, chosen as GetDispatch does.
MCLoopOf       == [c \in Channels |-> 0]
MCDispatcherOf == [c \in Channels |-> c % 2]
=============================================================================
