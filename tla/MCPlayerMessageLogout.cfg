\* One DB server; its id 0 keeps the gate's names free of a server id, so that
\* the maps find the players.
CONSTANTS
  Channels = {1, 2}
  GateIDs = {}
  DBIDs = {0}
  OtherTypes = {}
  None = None
  Null = Null
  MaxBuilt = 3
  Ids <- OneName
  MaxAsked = 2
  MaxExits = 2
SPECIFICATION Spec
PROPERTY LogoutIsSent
CHECK_DEADLOCK FALSE
