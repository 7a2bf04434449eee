CONSTANTS
  MaxProc = 2
  Radix = 10
  MAXSLICE = 2
  TimerLine = FALSE
  StaleWords <- FreshMemory
SPECIFICATION FairSpec
PROPERTIES ExitYields
