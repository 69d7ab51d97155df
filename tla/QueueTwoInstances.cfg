SPECIFICATION Spec
CONSTANTS
  alice = alice
  draw = draw
  None = None
  Tasks = {1, 2}
  Users = {alice}
  Models = {draw}
  Workers = {w1, w2}
  Owner <- OneOwner
  ModelOf <- OneModel
  Cost <- CostTwo
  Metered = {}
  Usage = {}
  Limit <- LimitOne
  MaxQueuedPerUser = 1
  RecoverBatch = 1
  InitialCredits <- CreditsFour
  Instances = 2
  AdminCredits = {0}
  MayDelete = {}
  MayBan = {}
  MayToggle = TRUE
  MayExpire = {}
  MayPurge = {}
SYMMETRY Symmetry
ACTION_CONSTRAINT TaskOneHangs
PROPERTIES ExecutesOnce
CHECK_DEADLOCK FALSE
