SPECIFICATION FairSpec
CONSTANTS
  Servers = {s1, s2}
  Clients = {c1, c2}
  NULL = NULL
CHECK_DEADLOCK FALSE
INVARIANTS MapsWhole RefusesOnlyEarly
PROPERTY EndsWhenAsked
