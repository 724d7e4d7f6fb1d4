CONSTANTS
  Chars = {c1}
  Threads = {t1, t2}
  Values = {v1, v2}
  Blank = Blank
  Null = Null
  NoRow = NoRow
  Empty = Empty
  None = None
SPECIFICATION FairSpec
INVARIANTS TypeOK WriteBackScheduled Durable RetainedStaysCached
PROPERTIES LoginReadsLastSave ChangeIsWrittenBack
