SPECIFICATION Spec
CONSTANTS
  Pics = {p, q}
  NoPic = NoPic
  Given = 1
  CountBound = 2
  IdBound = 5
  OpBound = 3
SYMMETRY Symmetry
INVARIANTS FileIsOfPicture InOneGroup GroupsAgree MainIsShown  HiddenCanBeShown
CHECK_DEADLOCK FALSE
