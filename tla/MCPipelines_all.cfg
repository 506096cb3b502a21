SPECIFICATION OneSpec
CONSTANTS
  Programs = {"pipeline", "pipeline2"}
  Count = 3
  Started <- Tables
  MayFail = {2}
  MayQuit = {1, 2, 3}
  Items = 3
  Capacity = 1
CHECK_DEADLOCK FALSE
INVARIANTS BothWired Delivered ReapsKnown
PROPERTY AllEnd
