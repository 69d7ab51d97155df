SPECIFICATION Spec
CONSTANTS
  None = None
  Nodes = {n1}
  Titles = {t1, t2}
  HistoryLimit = 2
  MaxStamp = 3
  QueueBound = 2
  ActBound = 3
SYMMETRY Symmetry
INVARIANTS SavedMeansSaved NothingLoadsUnwatched PreviewIsApart
PROPERTIES TimelineKept 
CHECK_DEADLOCK FALSE
