CONSTANTS
  MaxProc = 4
  Radix = 10
  MAXSLICE = 1
  TimerLine = TRUE
  StaleWords <- FreshMemory
SPECIFICATION Spec
INVARIANTS ProcEntriesListed
