SPECIFICATION Spec
CONSTANTS
  alice = alice
  draw = draw
  None = None
  Tasks = {1, 2}
  Users = {alice}
  Models = {draw}
  Workers = {w1, w2}
  Owner <- OneOwner
  ModelOf <- OneModel
  Cost <- CostTwo
  Metered = {2}
  Usage = {1, 3}
  Limit <- LimitOne
  MaxQueuedPerUser = 1
  RecoverBatch = 1
  InitialCredits <- CreditsFour
  Instances = 1
  AdminCredits = {}
  MayDelete = {alice}
  MayBan = {alice}
  MayToggle = FALSE
  MayExpire = {1, 2}
  MayPurge = {1, 2}
SYMMETRY Symmetry
INVARIANTS Accounts RowsHavePayloads
PROPERTIES LedgerSpec
CHECK_DEADLOCK FALSE
