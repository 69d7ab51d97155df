SPECIFICATION FairSpec
CONSTANTS
  alice = alice
  bob = bob
  asset = asset
  history = history
  copy = copy
  None = None
  Files = {1, 2}
  Users = {alice, bob}
  Holders = {history}
  Requests = {}
  Cleaner = cleaner
  Owner <- AliceOwns
  Size <- UnitSize
  Kind <- AllMedia
  Quota = 1
  UserOf <- HolderUser
  RightsOf <- CheckedUser
  Histories = {history}
  Batch = 1
  ReadCommitted = FALSE
  Undeletable = {}
INVARIANTS QuotaHeld ObjectsAccounted
 
CHECK_DEADLOCK FALSE
