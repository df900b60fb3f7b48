SPECIFICATION FairSpec
CONSTANTS
  KnownNames <- Names
  QuitName <- Quit
  MaxMultiBulk = 3
  MaxBulk = 3
  BigArg = 2
  InlineMax = 4
  sds_split_args <- SplitArgs
  Streams <- AllStreams
  LinefeedGarbage <- NoGarbage
  Script <- Sent
  MaxConnections = 1
INVARIANTS ExecutedInOrder NothingLeftBehind
PROPERTIES AllExecuted ReadsDoNotMatter
CHECK_DEADLOCK FALSE
