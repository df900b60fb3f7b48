SPECIFICATION Spec
CONSTANTS
  Name <- Names
  Lower <- LowerOf
  Table <- CommandTable
  Libs <- Paths
  Lib <- Libraries
  NULL = NULL
  BitsCount = 7
  MaxLines = 2
  MaxLoads = 3
INVARIANT NotLoadedServesNothing
CHECK_DEADLOCK FALSE
