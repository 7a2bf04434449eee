CONSTANTS
  MaxProc = 2
  Radix = 10
  MAXSLICE = 1
  TimerLine = TRUE
  StaleWords <- FreshMemory
SPECIFICATION Spec
INVARIANTS NoWaitOnEnded
