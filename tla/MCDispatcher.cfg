CONSTANTS
  Requests = {q1, q2}
  MaxToken = 2
  None = None
  TimeOut = TimeOut
  MaxQueue = 1
SPECIFICATION FairSpec
INVARIANTS TypeOK HandledOnce NotForgotten
PROPERTIES IsRequestOnce EveryRequestEnds
