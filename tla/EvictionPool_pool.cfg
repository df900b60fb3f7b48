SPECIFICATION Spec
CONSTANTS
  EVPOOL_SIZE = 3
  Key = {short, long}
  Long = {long}
  Sds = {p1, p2, p3, p4, p5}
  Dbid = {0, 1}
  Counter = {0, 5, 255}
  Deadline = {1, 3}
  ULLONG_MAX = 1000
  LRU_CLOCK_MAX = 3
  LRU_CLOCK_RESOLUTION = 10
  MaxTick = 5
  NULL = NULL
  EMPTY = EMPTY
SYMMETRY Interchangeable
INVARIANTS
  PoolIsSorted
  EntriesOwnTheirKeys
  
PROPERTY
  ImplementsIdlestKeys
CHECK_DEADLOCK FALSE
