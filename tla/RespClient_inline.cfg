SPECIFICATION Spec
CONSTANTS
  KnownNames <- Names
  QuitName <- Quit
  MaxMultiBulk = 3
  MaxBulk = 3
  BigArg = 2
  InlineMax = 4
  sds_split_args <- SplitArgs
  Streams <- InlineScript
  LinefeedGarbage <- AnyGarbage
  Script <- Sent
  MaxConnections = 1
INVARIANT InlineLinesInOrder
CHECK_DEADLOCK FALSE
