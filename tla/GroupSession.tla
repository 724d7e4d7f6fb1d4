---------------------------- MODULE GroupSession ----------------------------
(***************************************************************************)
(* Groups of connections (CommBase/Network/GroupSession).  Two servers     *)
(* open several connections to each other, so that no send buffer is full  *)
(* too soon; together they are one group.  m_group gives the group of a    *)
(* remote server, m_groupChannel its members.  The id of a group is the    *)
(* file descriptor of the connection that founded it, and stays so when    *)
(* that connection has left and the descriptor is used again.              *)
(*                                                                         *)
(* Every operation holds m_groupLock for all it does.  A vector of members *)
(* is a set here: none is pushed twice (GroupMembersAreLive of SessionMgr  *)
(* says so), and the order only decides which member serves which key.     *)
(***************************************************************************)
EXTENDS Naturals, FiniteSets

CONSTANTS
  Channels,   \* file descriptors
  Remotes,    \* remote servers: (type << 8) | id
  GroupCount  \* how many connections each remote server opens

ASSUME GroupAssumption ==
  /\ Channels \subseteq Nat \ {0} /\ Remotes \subseteq Nat \ {0}
  /\ GroupCount \in [Remotes -> Nat \ {0}]

VARIABLES m_group, m_groupChannel

groups == <<m_group, m_groupChannel>>

None   == 0     \* no channel, no group (-1 in the code), no remote server
Groups == Channels \cup {None}

GroupSessionInfo == [channel : SUBSET Channels, count : Nat]
NoInfo           == [channel |-> {}, count |-> 0]

GroupTypeOK ==
  /\ m_group \in [Remotes -> Groups]
  /\ m_groupChannel \in [Channels -> GroupSessionInfo]

GroupInit ==
  /\ m_group = [k \in Remotes |-> None]
  /\ m_groupChannel = [c \in Channels |-> NoInfo]

Members(g) == m_groupChannel[g].channel
Size(g)    == Cardinality(Members(g))

\* AddGroupSession returns -2: the group has all its members.
GroupFull(k) ==
  m_group[k] # None /\ Size(m_group[k]) >= m_groupChannel[m_group[k]].count

\* What AddGroupSession returns, and its isSuccess, if it does not fail.
GroupOf(k, c) == IF m_group[k] = None THEN c ELSE m_group[k]

Completes(k) ==
  IF m_group[k] = None
  THEN GroupCount[k] = 1
  ELSE Size(m_group[k]) + 1 = m_groupChannel[m_group[k]].count

FoundGroup(k, c) ==
  /\ m_group[k] = None
  /\ m_group' = [m_group EXCEPT ![k] = c]
  /\ m_groupChannel' = [m_groupChannel EXCEPT
       ![c] = [channel |-> {c}, count |-> GroupCount[k]]]

JoinGroup(k, c) ==
  /\ m_group[k] # None /\ ~GroupFull(k)
  /\ m_groupChannel' = [m_groupChannel EXCEPT
       ![m_group[k]].channel = @ \cup {c}]
  /\ UNCHANGED m_group

AddGroupSession(k, c) == FoundGroup(k, c) \/ JoinGroup(k, c)

\* The first key of the map that names the group, if any.
FirstKey(g) ==
  {k \in Remotes : m_group[k] = g
                   /\ \A j \in Remotes : m_group[j] = g => k <= j}

\* Broken variant: a group whose last member leaves keeps its key's entry.
DeleteGroupSession_KeepsKey(g, c) ==
  /\ m_groupChannel' = [m_groupChannel EXCEPT ![g].channel = @ \ {c}]
  /\ UNCHANGED m_group

\* Broken variant: only an empty group loses a member.
DeleteGroupSession_KeepsMember(g, c) ==
  IF Members(g) = {c}
  THEN DeleteGroupSession_KeepsKey(g, c)
  ELSE UNCHANGED groups

DeleteGroupSession(g, c) ==
  LET left == Members(g) \ {c} IN
  /\ m_groupChannel' = [m_groupChannel EXCEPT ![g].channel = left]
  /\ m_group' = [k \in Remotes |->
       IF left = {} /\ k \in FirstKey(g) THEN None ELSE m_group[k]]

\* The channels that BindSession may give a key of the group: one of its
\* members, or, when it has none, the group's id itself.
BindSession(g) == IF Members(g) = {} THEN {g} ELSE Members(g)
=============================================================================
