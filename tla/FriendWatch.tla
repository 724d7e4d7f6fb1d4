------------------------------ MODULE FriendWatch -----------------------------
(***************************************************************************)
(* FriendMessage: who watches whom.  m_event_list has the watchers of a    *)
(* player, who are told of its changes; m_watch_list has those a player    *)
(* watches, from which clearWatch removes it when it goes offline.         *)
(* cancelWatch leaves m_watch_list alone.                                  *)
(***************************************************************************)
EXTENDS FiniteSets

CONSTANTS CharIDs

VARIABLES
  m_event_list, m_watch_list,  \* a character without an entry has the empty set
  wants    \* history: pairs of which the first asked to watch the second, since
           \* the first last went offline or cancelled it

watchVars == <<m_event_list, m_watch_list, wants>>

WatchInit ==
  /\ m_event_list = [c \in CharIDs |-> {}]
  /\ m_watch_list = [c \in CharIDs |-> {}]
  /\ wants = {}

watch(self, target) ==
  /\ m_event_list' = [m_event_list EXCEPT ![target] = @ \cup {self}]
  /\ m_watch_list' = IF self \in m_event_list[target] THEN m_watch_list
                     ELSE [m_watch_list EXCEPT ![self] = @ \cup {target}]
  /\ wants' = wants \cup {<<self, target>>}

cancelWatch(self, target) ==
  /\ m_event_list' = [m_event_list EXCEPT ![target] = @ \ {self}]
  /\ wants' = wants \ {<<self, target>>}
  /\ UNCHANGED m_watch_list

\* Broken variant: an entry that another watcher has, too, is left.
Unwatched_Last(watchers, c) == IF watchers = {c} THEN {} ELSE watchers

Unwatched(watchers, c) == watchers \ {c}

\* offline, and clearWatch.
offline(c) ==
  /\ m_event_list' = [t \in CharIDs |->
       IF t \in m_watch_list[c] THEN Unwatched(m_event_list[t], c) ELSE m_event_list[t]]
  /\ m_watch_list' = [m_watch_list EXCEPT ![c] = {}]
  /\ wants' = {w \in wants : w[1] # c}

\* Whom dispatchEvent calls onEvent for (GetFriendWatchSelf).
dispatchEvent(c) == m_event_list[c]

WatchNext ==
  \E c \in CharIDs :
    \/ \E d \in CharIDs : watch(c, d) \/ cancelWatch(c, d)
    \/ offline(c)

-----------------------------------------------------------------------------
WatchTypeOK ==
  /\ m_event_list \in [CharIDs -> SUBSET CharIDs]
  /\ m_watch_list \in [CharIDs -> SUBSET CharIDs]

\* Exactly those are told of a player who asked to watch it and have neither
\* cancelled that nor gone offline: offline finds each of them although
\* m_watch_list keeps what was cancelled.
WatchersWanted ==
  /\ \A c, d \in CharIDs : c \in dispatchEvent(d) <=> <<c, d>> \in wants
  /\ \A w \in wants : w[2] \in m_watch_list[w[1]]
=============================================================================
