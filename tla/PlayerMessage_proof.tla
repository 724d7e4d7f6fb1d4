------------------------- MODULE PlayerMessage_proof -------------------------
(***************************************************************************)
(* Proofs about ServerRegistry and PlayerMessage, for any channels, ids,   *)
(* server types and bounds.                                                *)
(***************************************************************************)
EXTENDS PlayerMessage, SequenceTheorems, TLAPS

(***************************************************************************)
(* The registry.  RegisteredServerIsListed is not inductive by itself: a   *)
(* new channel that is refused is closed, so it must not be registered;    *)
(* and an Ack registers a channel, so it must lead somewhere.              *)
(***************************************************************************)
Registered(c) == \/ \E s \in GateIDs : m_gateSvr[s] = c
                 \/ \E s \in DBIDs : m_dbSvr[s] = c

InFlight ==
  /\ \A c \in announced \cup asked \cup acked : remote[c] # None
  /\ \A c \in announced : c \notin asked \cup acked /\ ~Registered(c)

RegistryInv == RegistryTypeOK /\ RegisteredServerIsListed /\ InFlight

\* A remote server has an id of its type.
LEMMA IdsOfTypes ==
  ASSUME NEW r \in RemoteServers
  PROVE  /\ r.type = eGateServer => r.id \in GateIDs
         /\ r.type = eDBServer => r.id \in DBIDs
  BY RegistryAssumption DEF RemoteServers, eGateServer, eDBServer

\* What an item is made of.
LEMMA ItemsAre ==
  /\ \A r \in RemoteServers : [remote |-> r, serverID |-> None] \in Items
  /\ \A i \in Items, s \in GateIDs \cup DBIDs :
       [i EXCEPT !.serverID = s] \in Items /\ [i EXCEPT !.serverID = s].serverID = s
  BY DEF Items

LEMMA RegistryInitInv == RegistryInit => RegistryInv
<1> SUFFICES ASSUME RegistryInit PROVE RegistryInv
  OBVIOUS
<1>1. RegistryTypeOK
  BY RegistryAssumption DEF RegistryInit, RegistryTypeOK
<1>2. RegisteredServerIsListed /\ InFlight
  BY DEF RegistryInit, RegisteredServerIsListed, InFlight
<1> QED BY <1>1, <1>2 DEF RegistryInv

\* Channel c is unregistered, and perhaps others, but nothing is registered.
Unregisters(c) ==
  /\ \A s \in GateIDs : m_gateSvr'[s] \in {m_gateSvr[s], None} \ {c}
  /\ \A s \in DBIDs : m_dbSvr'[s] \in {m_dbSvr[s], None} \ {c}

\* A channel that is closed was not registered, or is not any more.
LEMMA ClosedStaysListed ==
  ASSUME RegistryTypeOK, RegisteredServerIsListed, NEW c \in Channels,
         CloseChannel(c), Unregisters(c),
         \A d \in Channels \ {c} : m_allSvr'[d] = m_allSvr[d]
  PROVE  RegisteredServerIsListed'
<1>1. \A d \in Channels \ {c} : remote'[d] = remote[d]
  BY DEF CloseChannel, RegistryTypeOK
<1>2. ASSUME NEW s \in GateIDs, m_gateSvr'[s] # None
      PROVE  IsListed(m_gateSvr[s], eGateServer, s)'
  <2>1. m_gateSvr'[s] = m_gateSvr[s] /\ m_gateSvr[s] \in Channels \ {c}
    BY <1>2 DEF RegistryTypeOK, Unregisters
  <2>2. IsListed(m_gateSvr[s], eGateServer, s)
    BY <1>2, <2>1 DEF RegisteredServerIsListed
  <2> QED BY <1>1, <2>1, <2>2 DEF IsListed
<1>3. ASSUME NEW s \in DBIDs, m_dbSvr'[s] # None PROVE IsListed(m_dbSvr[s], eDBServer, s)'
  <2>1. m_dbSvr'[s] = m_dbSvr[s] /\ m_dbSvr[s] \in Channels \ {c}
    BY <1>3 DEF RegistryTypeOK, Unregisters
  <2>2. IsListed(m_dbSvr[s], eDBServer, s)
    BY <1>3, <2>1 DEF RegisteredServerIsListed
  <2> QED BY <1>1, <2>1, <2>2 DEF IsListed
<1> QED BY <1>2, <1>3 DEF RegisteredServerIsListed

LEMMA BuildInv ==
  ASSUME RegistryInv, NEW c \in Channels, on_new_channel_build(c)
  PROVE  RegistryInv'
<1> USE DEF RegistryInv
<1>1. /\ c \in announced /\ remote[c] # None /\ c \notin asked \cup acked /\ ~Registered(c)
      /\ remote[c] \in RemoteServers
  BY DEF on_new_channel_build, InFlight, RegistryTypeOK
<1>2. /\ announced' = announced \ {c}
      /\ built' = built /\ acked' = acked /\ UNCHANGED registered
  BY DEF on_new_channel_build
<1>3. CASE BuildAsked(c) \/ BuildListed(c)
  <2>1. /\ remote' = remote /\ broken' = broken /\ m_pathSvr' = m_pathSvr
        /\ asked' \in {asked, asked \cup {c}}
        /\ m_allSvr[c] = None
        /\ m_allSvr' = [m_allSvr EXCEPT ![c] = [remote |-> remote[c], serverID |-> None]]
    BY <1>3 DEF BuildAsked, BuildListed
  <2>2. RegistryTypeOK'
    BY <1>1, <1>2, <2>1, ItemsAre DEF RegistryTypeOK, registered
  <2>3. InFlight'
    BY <1>1, <1>2, <2>1 DEF InFlight, Registered, registered
  <2>4. \A d \in Channels \ {c} : m_allSvr'[d] = m_allSvr[d]
    BY <2>1 DEF RegistryTypeOK
  <2>5. RegisteredServerIsListed'
    BY <1>1, <1>2, <2>1, <2>4 DEF RegisteredServerIsListed, IsListed, registered, RegistryTypeOK,
      Registered
  <2> QED BY <2>2, <2>3, <2>5
<1>4. CASE BuildPath(c)
  <2>1. /\ remote' = remote /\ broken' = broken /\ asked' = asked /\ m_allSvr' = m_allSvr
        /\ m_pathSvr' = c
    BY <1>4 DEF BuildPath
  <2>2. RegistryTypeOK'
    BY <1>2, <2>1 DEF RegistryTypeOK, registered
  <2>3. InFlight'
    BY <1>2, <2>1 DEF InFlight, Registered, registered
  <2>4. RegisteredServerIsListed'
    BY <1>2, <2>1 DEF RegisteredServerIsListed, IsListed, registered
  <2> QED BY <2>2, <2>3, <2>4
<1>5. CASE BuildRefused(c)
  <2>1. CloseChannel(c) /\ asked' = asked /\ m_allSvr' = m_allSvr /\ m_pathSvr' = m_pathSvr
    BY <1>5 DEF BuildRefused
  <2>2. RegistryTypeOK'
    BY <1>2, <2>1 DEF RegistryTypeOK, registered, CloseChannel
  <2>3. InFlight'
    BY <1>1, <1>2, <2>1 DEF InFlight, Registered, registered, CloseChannel, RegistryTypeOK
  <2>4. Unregisters(c)
    BY <1>1, <1>2, RegistryAssumption DEF Unregisters, Registered, registered
  <2>5. RegisteredServerIsListed'
    BY <2>1, <2>4, ClosedStaysListed
  <2> QED BY <2>2, <2>3, <2>5
<1> QED BY <1>3, <1>4, <1>5 DEF on_new_channel_build

\* An Ack enters the channel under the id that its server has.
LEMMA AckInv ==
  ASSUME RegistryInv, NEW c \in Channels, AckGatePushServerID(c) \/ AckDBPushServerID(c)
  PROVE  RegistryInv'
<1> USE DEF RegistryInv
<1> DEFINE s == remote[c].id
<1>1. /\ c \in acked /\ c \notin announced
      /\ remote[c] # None /\ remote[c] \in RemoteServers
      /\ acked' = acked \ {c} /\ asked' = asked /\ m_pathSvr' = m_pathSvr
      /\ UNCHANGED network
      /\ m_allSvr' = WithServerID(c, s)
  BY DEF AckGatePushServerID, AckDBPushServerID, InFlight, RegistryTypeOK
<1>2. s \in GateIDs \cup DBIDs
  BY <1>1, IdsOfTypes DEF AckGatePushServerID, AckDBPushServerID
<1>3. /\ m_allSvr' \in [Channels -> Items \cup {None}]
      /\ \A d \in Channels \ {c} : m_allSvr'[d] = m_allSvr[d]
      /\ m_allSvr[c] # None => m_allSvr'[c] # None /\ m_allSvr'[c].serverID = s
      /\ m_allSvr[c] = None => m_allSvr' = m_allSvr
  <2>1. CASE m_allSvr[c] = None
    BY <1>1, <2>1 DEF WithServerID, RegistryTypeOK
  <2>2. CASE m_allSvr[c] # None
    <3>1. m_allSvr[c] \in Items /\ m_allSvr \in [Channels -> Items \cup {None}]
      BY <2>2 DEF RegistryTypeOK
    <3>2. m_allSvr' = [m_allSvr EXCEPT ![c] = [m_allSvr[c] EXCEPT !.serverID = s]]
      BY <1>1, <2>2 DEF WithServerID
    <3>3. [m_allSvr[c] EXCEPT !.serverID = s] \in Items
      BY <1>2, <3>1, ItemsAre
    <3>4. [m_allSvr[c] EXCEPT !.serverID = s].serverID = s
      BY <1>2, <3>1, ItemsAre
    <3> HIDE DEF s
    <3> QED BY <2>2, <3>1, <3>2, <3>3, <3>4, RegistryAssumption
  <2> QED BY <2>1, <2>2
<1>4. ItemOf(c) \in {c, None} /\ (ItemOf(c) = c => m_allSvr[c] # None)
  BY RegistryAssumption DEF ItemOf
<1>5. CASE AckGatePushServerID(c)
  <2>1. /\ remote[c].type = eGateServer /\ s \in GateIDs
        /\ m_gateSvr' = [m_gateSvr EXCEPT ![s] = ItemOf(c)] /\ m_dbSvr' = m_dbSvr
    BY <1>1, <1>5, IdsOfTypes DEF AckGatePushServerID
  <2> HIDE DEF s
  <2>2. RegistryTypeOK'
    BY <1>1, <1>3, <1>4, <2>1 DEF RegistryTypeOK, network
  <2>3. InFlight'
    <3>1. \A d \in announced : d \in Channels \ {c, None} /\ ~Registered(d)
      BY <1>1, RegistryAssumption DEF InFlight, RegistryTypeOK
    <3>2. \A d \in announced : ~Registered(d)'
      BY <1>4, <2>1, <3>1 DEF Registered, RegistryTypeOK
    <3> QED BY <1>1, <3>2 DEF InFlight, network
  <2>4. ASSUME NEW g \in GateIDs, m_gateSvr'[g] # None
        PROVE  IsListed(m_gateSvr[g], eGateServer, g)'
    <3>1. CASE g = s
      <4>1. m_gateSvr'[g] = c /\ m_allSvr[c] # None
        BY <1>4, <2>1, <2>4, <3>1 DEF RegistryTypeOK
      <4> QED BY <1>1, <1>3, <2>1, <3>1, <4>1 DEF IsListed, network, s
    <3>2. CASE g # s
      <4>1. m_gateSvr'[g] = m_gateSvr[g] /\ m_gateSvr[g] # None /\ m_gateSvr[g] \in Channels
        BY <2>1, <2>4, <3>2 DEF RegistryTypeOK
      <4>2. IsListed(m_gateSvr[g], eGateServer, g)
        BY <4>1 DEF RegisteredServerIsListed
      <4>3. m_gateSvr[g] # c
        BY <3>2, <4>2 DEF IsListed, s
      <4> QED BY <1>1, <1>3, <4>1, <4>2, <4>3 DEF IsListed, network
    <3> QED BY <3>1, <3>2
  <2>5. ASSUME NEW d \in DBIDs, m_dbSvr'[d] # None
        PROVE  IsListed(m_dbSvr[d], eDBServer, d)'
    <3>1. IsListed(m_dbSvr[d], eDBServer, d) /\ m_dbSvr[d] \in Channels
      BY <2>1, <2>5 DEF RegisteredServerIsListed, RegistryTypeOK
    <3>2. m_dbSvr[d] # c
      BY <2>1, <3>1 DEF IsListed, eGateServer, eDBServer
    <3> QED BY <1>1, <1>3, <2>1, <3>1, <3>2 DEF IsListed, network
  <2> QED BY <2>2, <2>3, <2>4, <2>5 DEF RegisteredServerIsListed
<1>6. CASE AckDBPushServerID(c)
  <2>1. /\ remote[c].type = eDBServer /\ s \in DBIDs
        /\ m_dbSvr' = [m_dbSvr EXCEPT ![s] = ItemOf(c)] /\ m_gateSvr' = m_gateSvr
    BY <1>1, <1>6, IdsOfTypes DEF AckDBPushServerID
  <2> HIDE DEF s
  <2>2. RegistryTypeOK'
    BY <1>1, <1>3, <1>4, <2>1 DEF RegistryTypeOK, network
  <2>3. InFlight'
    <3>1. \A d \in announced : d \in Channels \ {c, None} /\ ~Registered(d)
      BY <1>1, RegistryAssumption DEF InFlight, RegistryTypeOK
    <3>2. \A d \in announced : ~Registered(d)'
      BY <1>4, <2>1, <3>1 DEF Registered, RegistryTypeOK
    <3> QED BY <1>1, <3>2 DEF InFlight, network
  <2>4. ASSUME NEW d \in DBIDs, m_dbSvr'[d] # None
        PROVE  IsListed(m_dbSvr[d], eDBServer, d)'
    <3>1. CASE d = s
      <4>1. m_dbSvr'[d] = c /\ m_allSvr[c] # None
        BY <1>4, <2>1, <2>4, <3>1 DEF RegistryTypeOK
      <4> QED BY <1>1, <1>3, <2>1, <3>1, <4>1 DEF IsListed, network, s
    <3>2. CASE d # s
      <4>1. m_dbSvr'[d] = m_dbSvr[d] /\ m_dbSvr[d] # None /\ m_dbSvr[d] \in Channels
        BY <2>1, <2>4, <3>2 DEF RegistryTypeOK
      <4>2. IsListed(m_dbSvr[d], eDBServer, d)
        BY <4>1 DEF RegisteredServerIsListed
      <4>3. m_dbSvr[d] # c
        BY <3>2, <4>2 DEF IsListed, s
      <4> QED BY <1>1, <1>3, <4>1, <4>2, <4>3 DEF IsListed, network
    <3> QED BY <3>1, <3>2
  <2>5. ASSUME NEW g \in GateIDs, m_gateSvr'[g] # None
        PROVE  IsListed(m_gateSvr[g], eGateServer, g)'
    <3>1. IsListed(m_gateSvr[g], eGateServer, g) /\ m_gateSvr[g] \in Channels
      BY <2>1, <2>5 DEF RegisteredServerIsListed, RegistryTypeOK
    <3>2. m_gateSvr[g] # c
      BY <2>1, <3>1 DEF IsListed, eGateServer, eDBServer
    <3> QED BY <1>1, <1>3, <2>1, <3>1, <3>2 DEF IsListed, network
  <2> QED BY <2>2, <2>3, <2>4, <2>5 DEF RegisteredServerIsListed
<1> QED BY <1>5, <1>6

\* An error takes the registration with it that its channel has.
LEMMA ErrorInv ==
  ASSUME RegistryInv, NEW c \in Channels, on_channel_error(c)
  PROVE  RegistryInv'
<1> USE DEF RegistryInv
<1>1. /\ c \notin announced \cup acked
      /\ CloseChannel(c)
      /\ asked' = asked \ {c} /\ announced' = announced /\ built' = built /\ acked' = acked
  BY DEF on_channel_error
<1>2. /\ \A s \in GateIDs : m_gateSvr[s] = c =>
           remote[c].type = eGateServer /\ m_allSvr[c] # None /\ m_allSvr[c].serverID = s
      /\ \A s \in DBIDs : m_dbSvr[s] = c =>
           remote[c].type = eDBServer /\ m_allSvr[c] # None /\ m_allSvr[c].serverID = s
  BY RegistryAssumption DEF RegisteredServerIsListed, IsListed
<1>3. /\ m_gateSvr' \in [GateIDs -> Channels \cup {None}]
      /\ m_dbSvr' \in [DBIDs -> Channels \cup {None}]
      /\ Unregisters(c)
      /\ m_allSvr' \in {m_allSvr, [m_allSvr EXCEPT ![c] = None]}
      /\ m_pathSvr' \in {m_pathSvr, None}
  <2>1. CASE ErrorOfGate(c)
    <3>1. /\ m_gateSvr' = Unregister(m_gateSvr, m_allSvr[c]) /\ m_dbSvr' = m_dbSvr
          /\ m_allSvr' = [m_allSvr EXCEPT ![c] = None] /\ m_pathSvr' = m_pathSvr
          /\ remote[c].type = eGateServer
      BY <2>1 DEF ErrorOfGate
    <3>2. /\ m_gateSvr' \in [GateIDs -> Channels \cup {None}]
          /\ \A s \in GateIDs : m_gateSvr'[s] \in {m_gateSvr[s], None} \ {c}
      BY <1>2, <3>1, RegistryAssumption DEF Unregister, RegistryTypeOK
    <3>3. \A s \in DBIDs : m_dbSvr[s] # c
      BY <1>2, <3>1 DEF eGateServer, eDBServer
    <3> QED BY <3>1, <3>2, <3>3 DEF Unregisters, RegistryTypeOK
  <2>2. CASE ErrorOfDB(c)
    <3>1. /\ m_dbSvr' = Unregister(m_dbSvr, m_allSvr[c]) /\ m_gateSvr' = m_gateSvr
          /\ m_allSvr' = [m_allSvr EXCEPT ![c] = None] /\ m_pathSvr' = m_pathSvr
          /\ remote[c].type = eDBServer
      BY <2>2 DEF ErrorOfDB
    <3>2. /\ m_dbSvr' \in [DBIDs -> Channels \cup {None}]
          /\ \A s \in DBIDs : m_dbSvr'[s] \in {m_dbSvr[s], None} \ {c}
      BY <1>2, <3>1, RegistryAssumption DEF Unregister, RegistryTypeOK
    <3>3. \A s \in GateIDs : m_gateSvr[s] # c
      BY <1>2, <3>1 DEF eGateServer, eDBServer
    <3> QED BY <3>1, <3>2, <3>3 DEF Unregisters, RegistryTypeOK
  <2>3. CASE ErrorOfPath(c) \/ ErrorOfManager(c) \/ ErrorOfOther(c)
    <3>1. /\ UNCHANGED registered
          /\ m_allSvr' \in {m_allSvr, [m_allSvr EXCEPT ![c] = None]}
          /\ m_pathSvr' \in {m_pathSvr, None}
      BY <2>3 DEF ErrorOfPath, ErrorOfManager, ErrorOfOther
    <3>2. remote[c].type \notin {eGateServer, eDBServer}
      BY <2>3 DEF ErrorOfPath, ErrorOfManager, ErrorOfOther, eGateServer, eDBServer,
        ePathServer, eManagerServer
    <3> QED BY <1>2, <3>1, <3>2 DEF Unregisters, RegistryTypeOK, registered
  <2> QED BY <2>1, <2>2, <2>3 DEF on_channel_error
<1>4. \A d \in Channels \ {c} : m_allSvr'[d] = m_allSvr[d]
  BY <1>3 DEF RegistryTypeOK
<1>5. RegistryTypeOK'
  BY <1>1, <1>3 DEF RegistryTypeOK, CloseChannel
<1>6. RegisteredServerIsListed'
  BY <1>1, <1>3, <1>4, ClosedStaysListed
<1>7. InFlight'
  <2>1. \A d \in Channels \ {c} : remote'[d] = remote[d]
    BY <1>1 DEF CloseChannel, RegistryTypeOK
  <2>2. announced \subseteq Channels \ {c} /\ asked' \cup acked' \subseteq Channels \ {c}
    BY <1>1 DEF RegistryTypeOK
  <2>3. \A d \in announced : ~Registered(d)'
    BY <1>3, <2>2, RegistryAssumption DEF InFlight, Registered, Unregisters
  <2> QED BY <1>1, <2>1, <2>2, <2>3 DEF InFlight
<1> QED BY <1>5, <1>6, <1>7

\* The network and PUSHSERVERID on its way.
LEMMA NetworkInv ==
  ASSUME RegistryInv, NEW c \in Channels,
         \/ \E r \in RemoteServers : ChannelBuilt(c, r)
         \/ ChannelBreaks(c)
         \/ PushServerID(c)
         \/ PushTimesOut(c)
  PROVE  RegistryInv'
<1> USE DEF RegistryInv
<1>1. CASE \E r \in RemoteServers : ChannelBuilt(c, r)
  <2>1. PICK r \in RemoteServers : ChannelBuilt(c, r)
    BY <1>1
  <2>2. /\ remote[c] = None
        /\ remote' = [remote EXCEPT ![c] = r]
        /\ announced' = announced \cup {c}
        /\ UNCHANGED <<broken, asked, acked, m_gateSvr, m_dbSvr, m_allSvr, m_pathSvr>>
        /\ built' \in 0 .. MaxBuilt
    BY <2>1, RegistryAssumption DEF ChannelBuilt, pushes, registered, RegistryTypeOK
  <2>3. ~Registered(c)
    BY <2>2, RegistryAssumption DEF Registered, RegisteredServerIsListed, IsListed
  <2>4. c \notin announced \cup asked \cup acked
    BY <2>2 DEF InFlight
  <2>5. RegistryTypeOK'
    BY <2>2 DEF RegistryTypeOK
  <2>6. InFlight'
    BY <2>2, <2>3, <2>4, RegistryAssumption DEF InFlight, Registered, RegistryTypeOK
  <2>7. \A d \in Channels \ {c} : remote'[d] = remote[d]
    BY <2>2 DEF RegistryTypeOK
  <2>8. RegisteredServerIsListed'
    BY <2>2, <2>3, <2>7 DEF RegisteredServerIsListed, IsListed, Registered, RegistryTypeOK
  <2> QED BY <2>5, <2>6, <2>8
<1>2. CASE ChannelBreaks(c)
  <2>1. /\ broken' = broken \cup {c}
        /\ UNCHANGED <<remote, announced, built, asked, acked, m_gateSvr, m_dbSvr, m_allSvr,
                       m_pathSvr>>
    BY <1>2 DEF ChannelBreaks, pushes, registered
  <2> QED BY <2>1 DEF RegistryTypeOK, RegisteredServerIsListed, IsListed, InFlight, Registered
<1>3. CASE PushServerID(c) \/ PushTimesOut(c)
  <2>1. /\ c \in asked /\ asked' = asked \ {c} /\ acked' \in {acked, acked \cup {c}}
        /\ UNCHANGED <<remote, announced, broken, built, m_gateSvr, m_dbSvr, m_allSvr,
                       m_pathSvr>>
    BY <1>3 DEF PushServerID, PushTimesOut, network, registered
  <2> QED BY <2>1 DEF RegistryTypeOK, RegisteredServerIsListed, IsListed, InFlight, Registered
<1> QED BY <1>1, <1>2, <1>3

LEMMA RegistryStepInv == RegistryInv /\ [RegistryNext]_registryVars => RegistryInv'
<1> SUFFICES ASSUME RegistryInv, [RegistryNext]_registryVars PROVE RegistryInv'
  OBVIOUS
<1>1. CASE RegistryNext
  BY <1>1, NetworkInv, BuildInv, AckInv, ErrorInv DEF RegistryNext
<1>2. CASE UNCHANGED registryVars
  BY <1>2 DEF registryVars, network, pushes, registered, RegistryInv, RegistryTypeOK,
    RegisteredServerIsListed, IsListed, InFlight, Registered
<1> QED BY <1>1, <1>2

-----------------------------------------------------------------------------
(***************************************************************************)
(* The players.                                                            *)
(***************************************************************************)
PlayersInv ==
  /\ m_PlayerCache \in [Keys -> Players \cup {None}]
  /\ m_allPlayer \in [Keys -> Players \cup {None}]
  /\ infoAsked \in [Ids -> 0 .. MaxAsked]
  /\ OnePlayerObject

\* A channel that is bound is a channel, or none.
LEMMA BindTypes ==
  ASSUME NEW g \in Channels \cup {None}, NEW db \in BindGroupChannel(g)
  PROVE  db \in Channels \cup {None}
  BY DEF BindGroupChannel

LEMMA AckPlayerInfoKeeps ==
  ASSUME RegistryTypeOK, PlayersInv, NEW id \in Ids, AckPlayerInfo(id)
  PROVE  PlayersInv'
<1>1. PICK k \in DBAnswers(id), db \in BindGroupChannel(GetDBChannelBySvrID(UnsetServer)) :
        m_PlayerCache' = IF IsOnline(k) THEN m_PlayerCache
                         ELSE [m_PlayerCache EXCEPT ![k] = [db |-> db, changed |-> FALSE]]
  BY DEF AckPlayerInfo
<1>2. /\ infoAsked[id] > 0 /\ infoAsked' = [infoAsked EXCEPT ![id] = infoAsked[id] - 1]
      /\ m_allPlayer' = m_allPlayer
  BY DEF AckPlayerInfo, exitVars, registryVars
<1>3. k \in Keys
  BY DEF DBAnswers, Keys
<1>4. GetDBChannelBySvrID(UnsetServer) \in Channels \cup {None}
  BY DEF GetDBChannelBySvrID, RegistryTypeOK
<1>5. [db |-> db, changed |-> FALSE] \in Players
  BY <1>4, BindTypes DEF Players
<1>6. infoAsked' \in [Ids -> 0 .. MaxAsked]
  BY <1>2, PlayerAssumption DEF PlayersInv
<1>7. m_PlayerCache' \in [Keys -> Players \cup {None}]
  BY <1>1, <1>3, <1>5 DEF PlayersInv
<1>8. OnePlayerObject'
  <2>1. CASE IsOnline(k)
    BY <1>1, <1>2, <2>1 DEF PlayersInv, OnePlayerObject, In
  <2>2. CASE ~IsOnline(k)
    <3>1. m_allPlayer[k] = None
      BY <1>3, <2>2 DEF IsOnline, In
    <3>2. \A j \in Keys \ {k} : m_PlayerCache'[j] = m_PlayerCache[j]
      BY <1>1, <2>2 DEF PlayersInv
    <3> QED BY <1>2, <3>1, <3>2 DEF PlayersInv, OnePlayerObject, In
  <2> QED BY <2>1, <2>2
<1> QED BY <1>2, <1>6, <1>7, <1>8 DEF PlayersInv

LEMMA ClientInKeeps ==
  ASSUME PlayersInv, NEW id \in Ids, ClientIn(id)
  PROVE  PlayersInv'
<1>1. /\ id \in Keys /\ m_PlayerCache[id] # None /\ m_PlayerCache[id] \in Players
      /\ m_PlayerCache' = [m_PlayerCache EXCEPT ![id] = None]
      /\ m_allPlayer' = [m_allPlayer EXCEPT ![id] = m_PlayerCache[id]]
      /\ infoAsked' = infoAsked
  BY DEF ClientIn, In, PlayersInv
<1>2. OnePlayerObject'
  <2>1. m_PlayerCache'[id] = None
    BY <1>1 DEF PlayersInv
  <2>2. \A j \in Keys \ {id} : m_PlayerCache'[j] = m_PlayerCache[j] /\ m_allPlayer'[j] = m_allPlayer[j]
    BY <1>1 DEF PlayersInv
  <2> QED BY <2>1, <2>2 DEF PlayersInv, OnePlayerObject, In
<1> QED BY <1>1, <1>2 DEF PlayersInv

LEMMA SynAttrKeeps ==
  ASSUME PlayersInv, NEW id \in Ids, SynAttr(id)
  PROVE  PlayersInv'
<1>1. /\ id \in Keys /\ m_allPlayer[id] # None /\ m_allPlayer[id] \in Players
      /\ m_allPlayer' = [m_allPlayer EXCEPT ![id] = [m_allPlayer[id] EXCEPT !.changed = TRUE]]
      /\ m_PlayerCache' = m_PlayerCache /\ infoAsked' = infoAsked
  BY DEF SynAttr, SetTypeValue, In, PlayersInv
<1>2. [m_allPlayer[id] EXCEPT !.changed = TRUE] \in Players
  BY <1>1 DEF Players
<1>3. \A j \in Keys : m_allPlayer'[j] = None <=> m_allPlayer[j] = None
  BY <1>1, <1>2, PlayerAssumption DEF PlayersInv
<1> QED BY <1>1, <1>2, <1>3 DEF PlayersInv, OnePlayerObject, In

\* A player who goes leaves one of the two maps.
LEMMA ExitKeepsPlayers ==
  ASSUME PlayersInv, NEW id \in Ids, PlayerExit(id)
  PROVE  PlayersInv'
<1>1. /\ infoAsked' = infoAsked
      /\ \/ UNCHANGED players
         \/ m_PlayerCache' = [m_PlayerCache EXCEPT ![id] = None] /\ m_allPlayer' = m_allPlayer
         \/ m_PlayerCache' = m_PlayerCache /\ m_allPlayer' = [m_allPlayer EXCEPT ![id] = None]
  BY DEF PlayerExit, ExitCached, ExitOnline, ExitUnknown
<1> QED BY <1>1 DEF PlayersInv, OnePlayerObject, In, players

LEMMA AskKeeps ==
  ASSUME PlayersInv, NEW id \in Ids, AskPlayerInfo(id) \/ PlayerInfoTimesOut(id)
  PROVE  PlayersInv'
<1>1. /\ UNCHANGED players
      /\ \/ infoAsked[id] < MaxAsked /\ infoAsked' = [infoAsked EXCEPT ![id] = infoAsked[id] + 1]
         \/ infoAsked[id] > 0 /\ infoAsked' = [infoAsked EXCEPT ![id] = infoAsked[id] - 1]
  BY DEF AskPlayerInfo, PlayerInfoTimesOut
<1>2. infoAsked' \in [Ids -> 0 .. MaxAsked]
  BY <1>1, PlayerAssumption DEF PlayersInv
<1> QED BY <1>1, <1>2 DEF PlayersInv, OnePlayerObject, In, players

-----------------------------------------------------------------------------
(***************************************************************************)
(* The exits.  ExitAccounted becomes inductive with Numbered: what is kept *)
(* of exits is of those that there were, and each save is of a player who  *)
(* was in one of the maps, so that its Ack finds the answer that waits.    *)
(***************************************************************************)
Numbered ==
  /\ saving \cup shadowed \cup unsent \subseteq 1 .. Len(exits)
  /\ \A n \in saving : exits[n] \in Keys
  /\ \A k \in Keys : m_saveDataList[k] <= Len(exits)
  /\ \A n \in Exits : n > Len(exits) => answers[n] = 0

ExitTypes ==
  /\ m_saveDataList \in [Keys -> 0 .. MaxExits]
  /\ saving \subseteq Exits
  /\ exits \in Seq(Ids) /\ Len(exits) <= MaxExits
  /\ answers \in [Exits -> Nat]
  /\ shadowed \subseteq Exits /\ unsent \subseteq Exits

ExitsInv == ExitTypes /\ ExitAccounted /\ Numbered

\* The sequence of exits with one more.
LEMMA OneMoreExit ==
  ASSUME NEW id \in Ids, PlayerExit(id), ExitTypes
  PROVE  /\ exits' \in Seq(Ids) /\ Len(exits') = Len(exits) + 1 /\ Number \in Exits
         /\ Len(exits) \in Nat /\ Len(exits') <= MaxExits
         /\ exits'[Number] = id
         /\ \A n \in 1 .. Len(exits) : exits'[n] = exits[n]
<1>1. exits \in Seq(Ids) /\ exits' = Append(exits, id) /\ Len(exits) < MaxExits
  BY DEF PlayerExit, ExitTypes
<1>2. /\ exits' \in Seq(Ids) /\ Len(exits') = Len(exits) + 1 /\ Len(exits) \in Nat
      /\ exits'[Len(exits) + 1] = id
      /\ \A n \in 1 .. Len(exits) : exits'[n] = exits[n]
  BY <1>1
<1> QED BY <1>1, <1>2, PlayerAssumption DEF Number, Exits

\* An exit of a player who is here: its answer waits, or finds another waiting.
LEMMA SavedExitKeeps ==
  ASSUME ExitsInv, NEW id \in Ids, PlayerExit(id), ExitCached(id) \/ ExitOnline(id)
  PROVE  ExitsInv'
<1>0. PICK N : N = Number
  OBVIOUS
<1>1. /\ exits' \in Seq(Ids) /\ Len(exits') = Len(exits) + 1 /\ N \in Exits
      /\ Len(exits) \in Nat /\ Len(exits') <= MaxExits
      /\ exits'[N] = id
      /\ \A n \in 1 .. Len(exits) : exits'[n] = exits[n]
      /\ N = Len(exits) + 1
  BY <1>0, OneMoreExit DEF ExitsInv, Number
<1>2. /\ id \in Keys /\ answers' = answers
      /\ AddSendDataCach(id)
      /\ \/ unsent' = unsent \cup {N} /\ saving' = saving
         \/ saving' = saving \cup {N} /\ unsent' = unsent
  BY <1>0 DEF ExitCached, ExitOnline, In, SaveAllPlayer
<1>3. /\ \A k \in Keys : m_saveDataList[k] \in 0 .. Len(exits)
      /\ saving \cup shadowed \cup unsent \subseteq 1 .. Len(exits)
      /\ answers[N] = 0
  BY <1>1 DEF ExitsInv, ExitTypes, Numbered, Exits
<1>4. CASE m_saveDataList[id] = 0
  <2>1. /\ m_saveDataList' = [m_saveDataList EXCEPT ![id] = N] /\ shadowed' = shadowed
    BY <1>0, <1>2, <1>4 DEF AddSendDataCach
  <2>2. /\ m_saveDataList'[id] = N
        /\ \A k \in Keys \ {id} : m_saveDataList'[k] = m_saveDataList[k]
    BY <1>2, <2>1 DEF ExitsInv, ExitTypes
  <2>3. ExitTypes'
    <3>1. N \in 0 .. MaxExits
      BY <1>1, PlayerAssumption DEF Exits
    <3> QED BY <1>1, <1>2, <2>1, <3>1 DEF ExitsInv, ExitTypes
  <2>4. Numbered'
    <3>1. saving' \cup shadowed' \cup unsent' \subseteq 1 .. Len(exits')
      BY <1>1, <1>2, <1>3, <2>1
    <3>2. \A n \in saving' : exits'[n] \in Keys
      BY <1>1, <1>2, <1>3 DEF ExitsInv, Numbered
    <3>3. \A k \in Keys : m_saveDataList'[k] <= Len(exits')
      BY <1>1, <1>3, <2>2
    <3>4. \A n \in Exits : n > Len(exits') => answers'[n] = 0
      BY <1>1, <1>2 DEF ExitsInv, Numbered, Exits
    <3> QED BY <3>1, <3>2, <3>3, <3>4 DEF Numbered
  <2>5. /\ Waits(N)'
        /\ \A n \in 1 .. Len(exits) : Waits(n)' <=> Waits(n)
    BY <1>1, <1>2, <1>4, <2>2 DEF Waits
  <2>6. ASSUME NEW n \in 1 .. Len(exits')
        PROVE  /\ answers'[n] \in {0, 1}
               /\ answers'[n] = 1 \/ Waits(n)' \/ n \in shadowed'
               /\ answers'[n] = 1 => ~Waits(n)' /\ n \notin shadowed'
               /\ ~(Waits(n)' /\ n \in shadowed')
    <3>1. CASE n = N
      BY <1>1, <1>2, <1>3, <2>1, <2>5, <3>1
    <3>2. CASE n # N
      BY <1>1, <1>2, <2>1, <2>5, <3>2 DEF ExitsInv, ExitAccounted
    <3> QED BY <3>1, <3>2
  <2>7. ASSUME NEW k \in Keys, m_saveDataList'[k] # 0
        PROVE  exits'[m_saveDataList'[k]] = k /\ m_saveDataList'[k] \in saving' \cup unsent'
    <3>1. CASE k = id
      BY <1>1, <1>2, <2>2, <3>1
    <3>2. CASE k # id
      BY <1>1, <1>2, <1>3, <2>2, <2>7, <3>2 DEF ExitsInv, ExitAccounted
    <3> QED BY <3>1, <3>2
  <2> QED BY <2>3, <2>4, <2>6, <2>7 DEF ExitsInv, ExitAccounted
<1>5. CASE m_saveDataList[id] # 0
  <2>1. /\ m_saveDataList' = m_saveDataList /\ shadowed' = shadowed \cup {N}
    BY <1>0, <1>2, <1>5 DEF AddSendDataCach
  <2>2. ExitTypes'
    BY <1>1, <1>2, <2>1 DEF ExitsInv, ExitTypes
  <2>3. Numbered'
    BY <1>1, <1>2, <1>3, <2>1 DEF ExitsInv, Numbered
  <2>4. /\ ~Waits(N)'
        /\ \A n \in 1 .. Len(exits) : Waits(n)' <=> Waits(n)
    BY <1>1, <1>3, <2>1 DEF Waits
  <2>5. ASSUME NEW n \in 1 .. Len(exits')
        PROVE  /\ answers'[n] \in {0, 1}
               /\ answers'[n] = 1 \/ Waits(n)' \/ n \in shadowed'
               /\ answers'[n] = 1 => ~Waits(n)' /\ n \notin shadowed'
               /\ ~(Waits(n)' /\ n \in shadowed')
    <3>1. CASE n = N
      BY <1>1, <1>2, <1>3, <2>1, <2>4, <3>1
    <3>2. CASE n # N
      BY <1>1, <1>2, <2>1, <2>4, <3>2 DEF ExitsInv, ExitAccounted
    <3> QED BY <3>1, <3>2
  <2>6. ASSUME NEW k \in Keys, m_saveDataList'[k] # 0
        PROVE  exits'[m_saveDataList'[k]] = k /\ m_saveDataList'[k] \in saving' \cup unsent'
    BY <1>1, <1>2, <1>3, <2>1, <2>6 DEF ExitsInv, ExitAccounted
  <2> QED BY <2>2, <2>3, <2>5, <2>6 DEF ExitsInv, ExitAccounted
<1> QED BY <1>4, <1>5

\* An exit of a player who is not here is answered at once.
LEMMA UnknownExitKeeps ==
  ASSUME ExitsInv, NEW id \in Ids, PlayerExit(id), ExitUnknown(id)
  PROVE  ExitsInv'
<1>0. PICK N : N = Number
  OBVIOUS
<1>1. /\ exits' \in Seq(Ids) /\ Len(exits') = Len(exits) + 1 /\ N \in Exits
      /\ Len(exits) \in Nat /\ Len(exits') <= MaxExits
      /\ \A n \in 1 .. Len(exits) : exits'[n] = exits[n]
      /\ N = Len(exits) + 1
  BY <1>0, OneMoreExit DEF ExitsInv, Number
<1>2. /\ UNCHANGED <<m_saveDataList, saving, shadowed, unsent>>
      /\ answers' = [answers EXCEPT ![N] = answers[N] + 1]
  BY <1>0 DEF ExitUnknown
<1>3. /\ \A k \in Keys : m_saveDataList[k] \in 0 .. Len(exits)
      /\ saving \cup shadowed \cup unsent \subseteq 1 .. Len(exits)
      /\ answers[N] = 0
  BY <1>1 DEF ExitsInv, ExitTypes, Numbered, Exits
<1>4. /\ answers'[N] = 1
      /\ \A n \in Exits \ {N} : answers'[n] = answers[n]
      /\ answers' \in [Exits -> Nat]
  BY <1>1, <1>2, <1>3 DEF ExitsInv, ExitTypes
<1>5. ExitTypes' /\ Numbered'
  <2>1. ExitTypes'
    BY <1>1, <1>2, <1>4 DEF ExitsInv, ExitTypes
  <2>2. \A n \in Exits : n > Len(exits') => answers'[n] = 0
    BY <1>1, <1>4 DEF ExitsInv, Numbered, Exits
  <2> QED BY <1>1, <1>2, <1>3, <2>1, <2>2 DEF ExitsInv, Numbered
<1>6. ~Waits(N)' /\ \A n \in 1 .. Len(exits) : Waits(n)' <=> Waits(n)
  BY <1>1, <1>2, <1>3 DEF Waits
<1>7. 1 .. Len(exits) \subseteq Exits \ {N}
  BY <1>1, PlayerAssumption DEF Exits
<1>8. ASSUME NEW n \in 1 .. Len(exits')
      PROVE  /\ answers'[n] \in {0, 1}
             /\ answers'[n] = 1 \/ Waits(n)' \/ n \in shadowed'
             /\ answers'[n] = 1 => ~Waits(n)' /\ n \notin shadowed'
             /\ ~(Waits(n)' /\ n \in shadowed')
  <2>1. CASE n = N
    BY <1>1, <1>2, <1>3, <1>4, <1>6, <2>1
  <2>2. CASE n # N
    BY <1>1, <1>2, <1>4, <1>6, <1>7, <2>2 DEF ExitsInv, ExitAccounted
  <2> QED BY <2>1, <2>2
<1>9. ASSUME NEW k \in Keys, m_saveDataList'[k] # 0
      PROVE  exits'[m_saveDataList'[k]] = k /\ m_saveDataList'[k] \in saving' \cup unsent'
  BY <1>1, <1>2, <1>3, <1>9 DEF ExitsInv, ExitAccounted
<1> QED BY <1>5, <1>8, <1>9 DEF ExitsInv, ExitAccounted

\* The Ack of a save answers the exit that waits for the player, if one does.
LEMMA AckSaveKeeps ==
  ASSUME ExitsInv, NEW n \in Exits, AckSave(n)
  PROVE  ExitsInv'
<1>1. /\ n \in saving /\ saving' = saving \ {n}
      /\ UNCHANGED <<exits, shadowed, unsent>>
      /\ m_saveDataList' = [m_saveDataList EXCEPT ![exits[n]] = 0]
  BY DEF AckSave
<1>2. PICK k \in Keys : k = exits[n]
  BY <1>1 DEF ExitsInv, Numbered
<1>3. PICK w \in 0 .. MaxExits : w = m_saveDataList[k]
  BY <1>2 DEF ExitsInv, ExitTypes
<1>4. /\ m_saveDataList'[k] = 0
      /\ \A j \in Keys \ {k} : m_saveDataList'[j] = m_saveDataList[j]
      /\ m_saveDataList' \in [Keys -> 0 .. MaxExits]
      /\ \A j \in Keys : m_saveDataList[j] \in 0 .. Len(exits) /\ m_saveDataList'[j] \in 0 .. Len(exits)
      /\ Len(exits) \in Nat /\ Len(exits) <= MaxExits
  <2>1. Len(exits) \in Nat /\ Len(exits) <= MaxExits
    BY DEF ExitsInv, ExitTypes
  <2> QED BY <1>1, <1>2, <2>1, PlayerAssumption DEF ExitsInv, ExitTypes, Numbered
<1>5. \A j \in Keys : j # k /\ m_saveDataList[j] # 0 =>
        m_saveDataList[j] # n /\ m_saveDataList[j] # w
  BY <1>2, <1>3 DEF ExitsInv, ExitAccounted
<1>6. CASE w = 0
  <2>1. answers' = answers
    BY <1>2, <1>3, <1>6 DEF AckSave
  <2>2. \A e \in 1 .. Len(exits) : Waits(e)' <=> Waits(e)
    BY <1>3, <1>4, <1>6 DEF Waits
  <2>3. ExitTypes' /\ Numbered'
    BY <1>1, <1>4, <2>1 DEF ExitsInv, ExitTypes, Numbered
  <2>4. ASSUME NEW e \in 1 .. Len(exits')
        PROVE  /\ answers'[e] \in {0, 1}
               /\ answers'[e] = 1 \/ Waits(e)' \/ e \in shadowed'
               /\ answers'[e] = 1 => ~Waits(e)' /\ e \notin shadowed'
               /\ ~(Waits(e)' /\ e \in shadowed')
    BY <1>1, <2>1, <2>2 DEF ExitsInv, ExitAccounted
  <2>5. ASSUME NEW j \in Keys, m_saveDataList'[j] # 0
        PROVE  exits'[m_saveDataList'[j]] = j /\ m_saveDataList'[j] \in saving' \cup unsent'
    BY <1>1, <1>4, <1>5, <2>5 DEF ExitsInv, ExitAccounted
  <2> QED BY <2>3, <2>4, <2>5 DEF ExitsInv, ExitAccounted
<1>7. CASE w # 0
  <2>1. w \in 1 .. Len(exits) /\ Waits(w)
    BY <1>3, <1>4, <1>7 DEF Waits
  <2>2. answers[w] = 0 /\ w \notin shadowed /\ w \in Exits
    BY <1>4, <2>1, PlayerAssumption DEF ExitsInv, ExitAccounted, Exits
  <2>3. answers' = [answers EXCEPT ![w] = answers[w] + 1]
    BY <1>2, <1>3, <1>7 DEF AckSave, DealWithSaveResult
  <2>4. /\ answers'[w] = 1
        /\ \A e \in Exits \ {w} : answers'[e] = answers[e]
        /\ answers' \in [Exits -> Nat]
    BY <2>2, <2>3 DEF ExitsInv, ExitTypes
  <2>5. ~Waits(w)' /\ \A e \in 1 .. Len(exits) : e # w => (Waits(e)' <=> Waits(e))
    BY <1>3, <1>4, <1>5, <1>7 DEF Waits
  <2>6. ExitTypes' /\ Numbered'
    <3>1. ExitTypes'
      BY <1>1, <1>4, <2>4 DEF ExitsInv, ExitTypes
    <3>2. \A e \in Exits : e > Len(exits) => answers'[e] = 0
      BY <1>4, <2>1, <2>4 DEF ExitsInv, Numbered, Exits
    <3> QED BY <1>1, <1>4, <3>1, <3>2 DEF ExitsInv, Numbered
  <2>7. 1 .. Len(exits) \subseteq Exits
    BY <1>4, PlayerAssumption DEF Exits
  <2>8. ASSUME NEW e \in 1 .. Len(exits')
        PROVE  /\ answers'[e] \in {0, 1}
               /\ answers'[e] = 1 \/ Waits(e)' \/ e \in shadowed'
               /\ answers'[e] = 1 => ~Waits(e)' /\ e \notin shadowed'
               /\ ~(Waits(e)' /\ e \in shadowed')
    <3>1. CASE e = w
      BY <1>1, <2>2, <2>4, <2>5, <3>1
    <3>2. CASE e # w
      BY <1>1, <2>4, <2>5, <2>7, <3>2 DEF ExitsInv, ExitAccounted
    <3> QED BY <3>1, <3>2
  <2>9. ASSUME NEW j \in Keys, m_saveDataList'[j] # 0
        PROVE  exits'[m_saveDataList'[j]] = j /\ m_saveDataList'[j] \in saving' \cup unsent'
    BY <1>1, <1>4, <1>5, <2>9 DEF ExitsInv, ExitAccounted
  <2> QED BY <2>6, <2>8, <2>9 DEF ExitsInv, ExitAccounted
<1> QED BY <1>6, <1>7

-----------------------------------------------------------------------------
(***************************************************************************)
(* All of it: each step changes the players, the exits or the registry.    *)
(***************************************************************************)
IInv == RegistryInv /\ PlayersInv /\ ExitsInv

LEMMA InitIInv == Init => IInv
<1> SUFFICES ASSUME Init PROVE IInv
  OBVIOUS
<1>1. RegistryInv
  BY RegistryInitInv DEF Init
<1>2. PlayersInv
  BY PlayerAssumption DEF Init, PlayersInv, OnePlayerObject, In
<1>3. exits = <<>> /\ exits \in Seq(Ids) /\ Len(exits) = 0
  BY DEF Init
<1>4. ExitsInv
  BY <1>3, PlayerAssumption DEF Init, ExitsInv, ExitTypes, ExitAccounted, Numbered, Waits, Exits
<1> QED BY <1>1, <1>2, <1>4 DEF IInv

LEMMA RegistryUnchanged ==
  ASSUME RegistryInv, UNCHANGED registryVars
  PROVE  RegistryInv'
  BY RegistryStepInv

LEMMA PlayersUnchanged ==
  ASSUME PlayersInv, UNCHANGED <<players, infoAsked>>
  PROVE  PlayersInv'
  BY DEF PlayersInv, players, OnePlayerObject, In

LEMMA ExitsUnchanged ==
  ASSUME ExitsInv, UNCHANGED exitVars
  PROVE  ExitsInv'
  BY DEF ExitsInv, exitVars, ExitTypes, ExitAccounted, Numbered, Waits

LEMMA StepIInv == IInv /\ [Next]_vars => IInv'
<1> SUFFICES ASSUME IInv, [Next]_vars PROVE IInv'
  OBVIOUS
<1>0. RegistryInv /\ RegistryTypeOK /\ PlayersInv /\ ExitsInv
  BY DEF IInv, RegistryInv
<1>1. ASSUME NEW id \in Ids, AskPlayerInfo(id) \/ PlayerInfoTimesOut(id) PROVE IInv'
  <2>1. UNCHANGED <<registryVars, exitVars>>
    BY <1>1 DEF AskPlayerInfo, PlayerInfoTimesOut
  <2> QED BY <1>0, <1>1, <2>1, AskKeeps, RegistryUnchanged, ExitsUnchanged DEF IInv
<1>2. ASSUME NEW id \in Ids, AckPlayerInfo(id) PROVE IInv'
  <2>1. UNCHANGED <<registryVars, exitVars>>
    BY <1>2 DEF AckPlayerInfo
  <2> QED BY <1>0, <1>2, <2>1, AckPlayerInfoKeeps, RegistryUnchanged, ExitsUnchanged DEF IInv
<1>3. ASSUME NEW id \in Ids, ClientIn(id) PROVE IInv'
  <2>1. UNCHANGED <<registryVars, exitVars>>
    BY <1>3 DEF ClientIn
  <2> QED BY <1>0, <1>3, <2>1, ClientInKeeps, RegistryUnchanged, ExitsUnchanged DEF IInv
<1>4. ASSUME NEW id \in Ids, SynAttr(id) PROVE IInv'
  <2>1. UNCHANGED <<registryVars, exitVars>>
    BY <1>4 DEF SynAttr
  <2> QED BY <1>0, <1>4, <2>1, SynAttrKeeps, RegistryUnchanged, ExitsUnchanged DEF IInv
<1>5. ASSUME NEW id \in Ids, PlayerExit(id) PROVE IInv'
  <2>1. UNCHANGED registryVars
    BY <1>5 DEF PlayerExit
  <2>2. ExitsInv'
    BY <1>0, <1>5, SavedExitKeeps, UnknownExitKeeps DEF PlayerExit
  <2> QED BY <1>0, <1>5, <2>1, <2>2, ExitKeepsPlayers, RegistryUnchanged DEF IInv
<1>6. ASSUME NEW n \in Exits, AckSave(n) PROVE IInv'
  <2>1. UNCHANGED <<registryVars, players, infoAsked>>
    BY <1>6 DEF AckSave
  <2> QED BY <1>0, <1>6, <2>1, AckSaveKeeps, RegistryUnchanged, PlayersUnchanged DEF IInv
<1>7. CASE RegistryNext /\ UNCHANGED playerVars
  <2>1. UNCHANGED <<players, infoAsked>> /\ UNCHANGED exitVars
    BY <1>7 DEF playerVars
  <2> QED BY <1>0, <1>7, <2>1, RegistryStepInv, PlayersUnchanged, ExitsUnchanged DEF IInv
<1>8. CASE UNCHANGED vars
  <2>1. UNCHANGED registryVars /\ UNCHANGED <<players, infoAsked>> /\ UNCHANGED exitVars
    BY <1>8 DEF vars, playerVars
  <2> QED BY <1>0, <2>1, RegistryUnchanged, PlayersUnchanged, ExitsUnchanged DEF IInv
<1> QED BY <1>1, <1>2, <1>3, <1>4, <1>5, <1>6, <1>7, <1>8 DEF Next, PlayerNext

\* The invariant of the handlers: it carries the theorems below.
THEOREM InvariantHolds == Spec => []IInv
  BY InitIInv, StepIInv, PTL DEF Spec

\* Every variable keeps its type.
THEOREM TypesHold == Spec => []TypeOK
<1>1. IInv => TypeOK
  BY DEF IInv, RegistryInv, PlayersInv, ExitsInv, ExitTypes, TypeOK
<1> QED BY <1>1, InvariantHolds, PTL

\* A player is never in m_PlayerCache and in m_allPlayer at once, however many
\* PLAYERINFO Requests wait for the DB server when the client is in.
THEOREM OneObjectOfAPlayer == Spec => []OnePlayerObject
<1>1. IInv => OnePlayerObject
  BY DEF IInv, PlayersInv
<1> QED BY <1>1, InvariantHolds, PTL

\* PLAYEREXIT is answered once, waits in m_saveDataList, or is forgotten; and
\* what waits has its save under way or had no channel for it.
THEOREM ExitsAreAccounted == Spec => []ExitAccounted
<1>1. IInv => ExitAccounted
  BY DEF IInv, ExitsInv
<1> QED BY <1>1, InvariantHolds, PTL

\* A channel that ServerConHandler hands out leads to the server that is
\* registered, whatever else the handlers of the players do.
THEOREM RegisteredServersAreListed == Spec => []RegisteredServerIsListed
<1>1. IInv => RegisteredServerIsListed
  BY DEF IInv, RegistryInv
<1> QED BY <1>1, InvariantHolds, PTL

\* The same of the registry by itself.
THEOREM RegistryListsServers == RegistrySpec => []RegisteredServerIsListed
<1>1. RegistrySpec => []RegistryInv
  BY RegistryInitInv, RegistryStepInv, PTL DEF RegistrySpec
<1>2. RegistryInv => RegisteredServerIsListed
  BY DEF RegistryInv
<1> QED BY <1>1, <1>2, PTL
=============================================================================
