\* Two descriptors and the group of one server: no more is needed for a
\* descriptor that is used again while an error or an event still names it.
CONSTANTS
  Channels = {1, 2}
  Remotes = {1}
  GroupCount <- OneServer
  Loops = {0}
  LoopOf <- MCLoopOf
  Dispatchers = {0, 1}
  DispatcherOf <- MCDispatcherOf
  MaxQueue = 2
  MaxConnect = 5
SPECIFICATION FairSpec
INVARIANT HandshakeHasDeadline
PROPERTIES DeadChannelIsClosed HandshakeEnds
CHECK_DEADLOCK FALSE
