CONSTANTS
  MaxProc = 3
  Radix = 2
  MAXSLICE = 2
  TimerLine = TRUE
  StaleWords <- FreshMemory
SPECIFICATION Spec
INVARIANTS TypeOK ListsWellFormed OneRunning BlockedAreWaiting SliceBudget ProcShowsAll PicStuckOnlyAtBoot
PROPERTIES GoneIsForever WaitSound ExitWakesWaiter
