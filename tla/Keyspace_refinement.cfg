SPECIFICATION ObjectSpec
CONSTANTS
  k1 = k1
  k2 = k2
  k3 = k3
  Key = {k1, k2}
  Val = {a, b}
  NULL = NULL
  NotAnInteger = NotAnInteger
  Seconds <- SecondsArgs
  CString <- PlainNames
  MsPerSec = 2
  LLongMax = 1000
  MaxTime = 5
  ClockMayStepBack = FALSE
  Object = {o1, o2, o3, o4}
  MaxLost = 1
SYMMETRY Interchangeable
INVARIANTS
  NoAssertCrash
  
  
  EntriesPointToValues

  
