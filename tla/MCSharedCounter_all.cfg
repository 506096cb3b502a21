SPECIFICATION FairSpec
CONSTANTS
  N = 4
  INT_MAX = 2147483647
  Builds = {TRUE, FALSE}
  MayDie = {"parent", "child"}
CHECK_DEADLOCK FALSE
INVARIANTS TypeOK MutualExclusion AllCounted CountsAlone
PROPERTIES ImplementsAtomic Ends
