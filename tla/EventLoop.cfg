SPECIFICATION FairLoopSpec
CONSTANTS
  MaxTid = 1
  MaxTime = 1
  MaxStops = 1
  MaxCnt = 2
  Delays = {0}
  None = None
INVARIANTS
  TtsTnextExact
  NotBeforeItsTime
  InOrderOfTime
  SleepsNotPastDue
PROPERTIES
  DueIsSent
