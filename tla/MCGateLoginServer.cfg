\* A descriptor that a client leaves is given to a game server.
CONSTANTS
  Chars = {a}
  Servers = {1}
  Channels = {1, 2}
  None = None
  svr = svr
  MaxQueue = 2
  MaxConnect = 2
SPECIFICATION Spec
INVARIANTS RegisteredServerIsConnected
