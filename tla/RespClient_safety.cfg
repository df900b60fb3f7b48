SPECIFICATION Spec
CONSTANTS
  KnownNames <- Names
  QuitName <- Quit
  MaxMultiBulk = 3
  MaxBulk = 3
  BigArg = 2
  InlineMax = 4
  sds_split_args <- SplitArgs
  Streams <- FaultyThenValid
  LinefeedGarbage <- AnyGarbage
  Script <- Sent
  MaxConnections = 2
INVARIANTS TypeOK  ArgvFits
PROPERTIES QuitIsFinal ErrorIsFinal
CHECK_DEADLOCK FALSE
