SPECIFICATION FairSpec
CONSTANTS
  alice = alice
  draw = draw
  None = None
  Tasks = {1, 2}
  Users = {alice}
  Models = {draw}
  Workers = {w1, w2}
  Owner <- OneOwner
  ModelOf <- OneModel
  Cost <- CostTwo
  Metered = {}
  Usage = {}
  Limit <- LimitOne
  MaxQueuedPerUser = 1
  RecoverBatch = 1
  InitialCredits <- CreditsFour
  Instances = 1
  AdminCredits = {}
  MayDelete = {}
  MayBan = {}
  MayToggle = FALSE
  MayExpire = {}
  MayPurge = {}
PROPERTIES ChargesClose
CHECK_DEADLOCK FALSE
