SPECIFICATION Spec
CONSTANTS
  KnownNames <- Names
  QuitName <- Quit
  MaxMultiBulk = 3
  MaxBulk = 3
  BigArg = 2
  InlineMax = 4
  sds_split_args <- SplitArgs
  Streams <- UnknownThenKnown
  LinefeedGarbage <- NoGarbage
  Script <- Sent
  MaxConnections = 1
INVARIANT NoAssertFails
CHECK_DEADLOCK FALSE
