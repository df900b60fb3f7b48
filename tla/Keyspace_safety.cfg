SPECIFICATION Spec
CONSTANTS
  k1 = k1
  k2 = k2
  k3 = k3
  Key = {k1, k2, k3}
  Val = {a, b}
  NULL = NULL
  NotAnInteger = NotAnInteger
  Seconds <- SecondsArgs
  CString <- CutNames
  MsPerSec = 2
  LLongMax = 6
  MaxTime = 4
  ClockMayStepBack = TRUE
INVARIANTS
  ExpiresOnlyForKeys
  GetAnswersLiveValue
  AckedSetIsAlive
PROPERTIES
  DeadlineNeverMoves
  OnlyDueKeysDie
CHECK_DEADLOCK FALSE
