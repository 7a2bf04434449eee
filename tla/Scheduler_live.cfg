CONSTANTS
  MaxProc = 2
  Radix = 10
  MAXSLICE = 2
  TimerLine = TRUE
  StaleWords <- ReusedMemory
SPECIFICATION FairSpec
PROPERTIES NoStarvation
