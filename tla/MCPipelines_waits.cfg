SPECIFICATION OneSpec
CONSTANTS
  Programs = {"pipeline2"}
  Count = 2
  Started <- Usual
  MayFail = {}
  MayQuit = {2}
  Items = 3
  Capacity = 1
CHECK_DEADLOCK FALSE
INVARIANT WaitsForAll
