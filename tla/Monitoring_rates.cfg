SPECIFICATION FairSpec
CONSTANTS
  slowlog_log_slower_than = 2
  slowlog_max_len = 1
  Samples = 3
  Factor = 2
  Durations = {1, 2}
  Times = {1, 2, 4}
  MaxCommands = 4
INVARIANTS
  SlowlogHoldsTheFirst
  
  RingHoldsLastIntervals
PROPERTY
  EveryCommandSampled
