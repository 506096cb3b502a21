CONSTANTS
  Instance = {i1, i2}
  Path = {p1, p2}
  None = None
  N = 1
  MayDie = {i1}
SPECIFICATION FairSpec
INVARIANTS NameHeld CountsFromZero
PROPERTY AllOver
CHECK_DEADLOCK FALSE
