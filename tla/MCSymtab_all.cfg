SPECIFICATION FairSpec
CONSTANTS
  PATH = PATH
  PS1 = PS1
  exit = exit
  v1 = v1
  v2 = v2
  halt = halt
  c1 = c1
  c2 = c2
  c3 = c3
  NULL = NULL
  Names <- AllNames
  Values <- AllValues
  Funcs <- AllFuncs
  Addr <- AllAddr
CHECK_DEADLOCK FALSE
PROPERTIES ImplementsDictionary CallsReturn
INVARIANTS NoDanglingWalk ListSound
