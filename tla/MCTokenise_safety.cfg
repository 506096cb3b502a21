SPECIFICATION FairSpec
CONSTANTS
  UserVars = TRUE
  Sources <- AllLines
INVARIANTS TypeOK SlicesOrdered NothingLost AssertTypeDefined MatchesGrammar
PROPERTIES TerminatesUnlessEscaped
CHECK_DEADLOCK FALSE
