SPECIFICATION Spec
CONSTANTS
  Words <- AllWords
  NameLike <- Names
  Quoted <- InQuotes
  Slashed <- Paths
  Dirs <- DirsOf
  Inputs <- BadInputs
  Buffered = 3
  Files <- AllFiles
  NotExec <- NoExec
  MaxChanges = 0
CHECK_DEADLOCK FALSE
INVARIANT EachLineOnce
