\* A player whom gates name with two server ids, the DB server 0 that has him,
\* and the DB server 65535 that a new player's id -1 stands for; and servers of
\* every other type in the registry.
CONSTANTS
  Channels = {1, 2}
  GateIDs = {1}
  DBIDs = {0, 65535}
  OtherTypes = {"ePathServer", "eWorldServer", "eManagerServer", "eUnknown"}
  None = None
  Null = Null
  MaxBuilt = 3
  Ids <- TwoNames
  MaxAsked = 2
  MaxExits = 2
SPECIFICATION FairSpec
INVARIANTS TypeOK RegisteredServerIsListed OnePlayerObject ExitAccounted
PROPERTY ExitIsAnswered
CHECK_DEADLOCK FALSE
