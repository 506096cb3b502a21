SPECIFICATION FairSpec
CONSTANTS
  UserVars = TRUE
  Sources <- Tiny
PROPERTY Terminates
CHECK_DEADLOCK FALSE
