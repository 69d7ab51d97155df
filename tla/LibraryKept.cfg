SPECIFICATION Spec
CONSTANTS
  Users = {a, b}
  Guest = Guest
  Calls = {c1, c2}
  SessionBound = 5
  AssetBound = 2
  ChangeBound = 2
  Files = {f1}
  NoFile = NoFile
SYMMETRY Symmetry
INVARIANTS ShownIsServed ListsApart ShownIsStored RegisteredAreListed
PROPERTY AssetsSurviveUnswitched
CHECK_DEADLOCK FALSE
