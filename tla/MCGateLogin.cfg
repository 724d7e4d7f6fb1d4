\* One character, one game server and two descriptors: a client that connects
\* a second time, a descriptor used again, a server on one that a client left.
CONSTANTS
  Chars = {a}
  Servers = {1}
  Channels = {1, 2}
  None = None
  svr = svr
  MaxQueue = 1
  MaxConnect = 3
SPECIFICATION FairSpec
INVARIANTS TypeOK ChannelAccounted
PROPERTIES DeadClientIsClosed IdleClientIsClosed LoginEnds
