SPECIFICATION Spec
CONSTANTS
  alice = alice
  draw = draw
  None = None
  Tasks = {1, 2, 3, 4}
  Users = {alice}
  Models = {draw}
  Workers = {w1, w2}
  Owner <- OneOwner
  ModelOf <- OneModel
  Cost <- CostTwo
  Metered = {}
  Usage = {}
  Limit <- LimitOne
  MaxQueuedPerUser = 2
  RecoverBatch = 1
  InitialCredits <- CreditsEight
  Instances = 1
  AdminCredits = {}
  MayDelete = {}
  MayBan = {}
  MayToggle = FALSE
  MayExpire = {}
  MayPurge = {}
SYMMETRY Symmetry
ACTION_CONSTRAINT FillerFirst
INVARIANTS PositionsNotUnderstated MinuteLimitSlack
PROPERTIES DispatchInOrder
CHECK_DEADLOCK FALSE
