SPECIFICATION Spec
CONSTANTS
  Count = 2
  BatchBound = 1
  MountBound = 2
  FailBound = 1
  ChainBound = 2
  None = None
  Pending = Pending
  Failed = Failed
INVARIANTS
  
  TasksAreKeptUnraced
  
  NothingWaitsForNothing
CHECK_DEADLOCK FALSE
