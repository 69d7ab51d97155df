SPECIFICATION Spec
CONSTANTS
  alice = alice
  bob = bob
  asset = asset
  history = history
  copy = copy
  None = None
  Files = {1, 2}
  Users = {alice, bob}
  Holders = {asset, history, copy}
  Requests = {r1}
  Cleaner = cleaner
  Owner <- AliceOwns
  Size <- UnitSize
  Kind <- SecondIsPayload
  Quota = 2
  UserOf <- HolderUser
  RightsOf <- CheckedUser
  Histories = {history}
  Batch = 1
  ReadCommitted = TRUE
  Undeletable = {}
ACTION_CONSTRAINT StraightUploads
INVARIANTS RetainedFilesKept RowsHaveObjects
CHECK_DEADLOCK FALSE
