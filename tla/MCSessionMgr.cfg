\* Three descriptors, a group of two and a plain connection: a full group
\* refuses a third, and strangers use descriptors that were the group's.
CONSTANTS
  Channels = {1, 2, 3}
  Remotes = {1, 2}
  GroupCount <- OneGroup
  Loops = {0}
  LoopOf <- MCLoopOf
  Dispatchers = {0, 1}
  DispatcherOf <- MCDispatcherOf
  MaxQueue = 2
  MaxConnect = 3
SPECIFICATION Spec
INVARIANTS TypeOK EveryDescriptorHasOneOwner GroupMembersAreLive
  BoundChannelIsOfServer
CHECK_DEADLOCK FALSE
