\* Two servers with a group each.
CONSTANTS
  Channels = {1, 2}
  Remotes = {1, 2}
  GroupCount <- TwoGroups
  Loops = {0}
  LoopOf <- MCLoopOf
  Dispatchers = {0, 1}
  DispatcherOf <- MCDispatcherOf
  MaxQueue = 1
  MaxConnect = 4
SPECIFICATION Spec
INVARIANTS BoundChannelIsOfServer
CHECK_DEADLOCK FALSE
