CONSTANTS
  Sleepers = {p}
  MaxSeconds = 2
  MaxStart = 40
  MaxTicks = 1100
SPECIFICATION FairSpec
INVARIANTS TypeOK ClockExact
PROPERTIES SleepExact SleepEnds
