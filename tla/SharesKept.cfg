SPECIFICATION Spec
CONSTANTS
  author = author
  reader = reader
  one = one
  other = other
  None = None
  Users = {author, reader}
  Calls = {c1, c2}
  Workflows = {w1, w2}
  Shares = {s1}
  Posts = {p1}
  Contents = {one, other}
  FilesOf <- OneFile
  InitialCredits <- CreditOne
  MaxVersion = 3
SYMMETRY Symmetry
ACTION_CONSTRAINT SharesOrPosts
INVARIANTS ShownIsLive ReferencesMatch CopiesHoldTheirVersion
PROPERTIES CopiesNeverGoBack RevocationsHold BansHold HistorySpec
CHECK_DEADLOCK FALSE
