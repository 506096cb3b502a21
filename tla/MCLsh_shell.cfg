SPECIFICATION FairSpec
CONSTANTS
  Words <- AllWords
  NameLike <- Names
  Quoted <- InQuotes
  Slashed <- Paths
  Dirs <- DirsOf
  Inputs <- AllInputs
  Buffered = 2
  Files <- AllFiles
  NotExec <- NoExec
  MaxChanges = 1
CHECK_DEADLOCK FALSE
INVARIANTS Foreground EachLineOnce InternalsStay FirstInPath
PROPERTY ShellEnds
