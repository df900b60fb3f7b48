SPECIFICATION BootSpec
CONSTANTS
  Name <- Names
  Lower <- LowerOf
  Table <- CommandTable
  Libs <- Paths
  Lib <- Libraries
  NULL = NULL
  Rule <- Rules
  Symbol <- Symbols
  Lines <- AllLines
  File <- Files
  Starts <- StartSet
  BitsCount = 7
  MaxLines = 3
  MaxLoads = 3
INVARIANTS
  IdsIndexTheBitmap
  LoadedModuleOwnsItsCommands
  ServesWithAllModules
  OpenIffLoaded
  
  
CHECK_DEADLOCK FALSE
