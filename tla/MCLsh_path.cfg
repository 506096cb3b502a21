SPECIFICATION Spec
CONSTANTS
  Words <- AllWords
  NameLike <- Names
  Quoted <- InQuotes
  Slashed <- Paths
  Dirs <- DirsOf
  Inputs <- PathInputs
  Buffered = 2
  Files <- AllFiles
  NotExec <- NoExec
  MaxChanges = 0
CHECK_DEADLOCK FALSE
INVARIANT NotInPathNotRun
