CONSTANTS
  Chars = {c1}
  Threads = {t1}
  Values = {v1, v2}
  Blank = Blank
  Null = Null
  NoRow = NoRow
  Empty = Empty
  None = None
SPECIFICATION Spec
PROPERTY EvictionSaves
