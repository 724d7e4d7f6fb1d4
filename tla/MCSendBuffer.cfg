CONSTANTS
  Threads = {t1, t2}
  ClientCap = 6
  ServerCap = 7
  MaxLen = 3
  Horizon = 14
SPECIFICATION FairSpec
INVARIANTS TypeOK BytesInPlace NoLostWakeup
PROPERTIES IsByteStream BytesGoOut
CHECK_DEADLOCK FALSE
