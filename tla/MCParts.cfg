CONSTANTS
  Nothing = Nothing
  NoObject = NoObject
  NoEvent = NoEvent
  NoLua = NoLua
  Streams <- SmallStreams
  HEAD = 3
  FIRST = 2
  TcpSlots = {1}
  TCPQUEUE_NODE = 2
  MaxTcpMsgs = 4
  MaxIds = 2
  LoginNames = {"a", "b"}
  LoginGroup <- LoginGroups
  Clients = {1, 2}
  DBConnections = 1
  TimerAsks = {}
  LogTimers = {2}
  Seconds = {0, 1, 2, 4}
  LOGDAY = 5
  PERIOD = 3
  Steps <- Differences
  MaxTimes = 8
  SocketIDs = {1, 2, 3}
  Remotes = {1, 2}
  GroupCount <- Groups
  ConfigOf <- Configs
  ReConnect = {1}
  Chars = {11, 12}
  ClientChannels = {1}
  ClientAsks = {"CLIENTIN", "SYN_ATTR", "HEARTBEAT"}
  MaxQueue = 1
  MaxAsked = 1
  MaxConnect = 2
  Lengths = {0, 5, 6}
  HEADER = 2
  DIGEST = 1
  MAX = 8
  MaxFrames = 2
  Keys = {"a1", "a2", "a3", "b1"}
  STRHASH_CAP_MAX = 3
  IndexOf <- ChainOf
  Values = {1, 2, 3}
  NoValue = 0
  Lists = {1, 2}
  ListNodes = {1, 2, 3}
  ListNULL = 0
  HandlersOf <- OneGroup
  ThreadsNum = {2, 3}
  WaitTries = 2
  MaxHandlerMsgs = 2
  Users = {1, 2}
  PoolSize = 1
  m_rate = 1
  MaxSqlConns = 6
  MaxRedisConns = 2
  MaxPending = 2
  Timers = {1}
  SLOT_COUNT = 3
  SLOT_CHANGE_TIME = 2
  StartTimes = {4, 9}
  Intervals = {7}
  MaxLate = 2
  MaxLag = 4
  MemThreads = {1, 2}
  Requests = {16, 17, 65537}
  block_number_ = 2
  MaxOwned = 3
  PtrThreads = {1, 2}
  Mine <- Pointers
  Shared = 0
  Objects = {10, 11}
  LogTypes = {"INFO", "BASE"}
  MaxLines = 2
  m_singleLogSize = 2
  MaxLogged = 4
  m_dwThreadNum = 3
  MaxTasks = 4
  EventNames = {"a", "b"}
  SlotIDs = {1, 2}
  EventGroups = {1, 2}
  MaxNested = 2
  LuaUsers = {1, 2}
  LuaContent = 0
  Rate = 2
  MaxLua = 2
  MaxStack = 2
  MaxShort = 1
  CharIDs = {1, 2, 3}
  Pushers = {1, 2}
  Poppers = {3, 4}
  SQUEUE_NODE_SIZE = 2
  MaxItems = 2
SPECIFICATION FairSpec
INVARIANTS TypeOK ResourcesAccounted TimersInPlace
  QueuesInOrder SubscribersAreCalled NetworkInOrder
PROPERTY WorkIsDone
\* Threads and pools may come to rest, and the counters have bounds.
CHECK_DEADLOCK FALSE
