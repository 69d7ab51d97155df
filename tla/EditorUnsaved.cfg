SPECIFICATION Spec
CONSTANTS
  None = None
  Nodes = {n1}
  Titles = {t1}
  HistoryLimit = 2
  MaxStamp = 3
  QueueBound = 2
  ActBound = 3
INVARIANTS EverythingSaved
CHECK_DEADLOCK FALSE
