SPECIFICATION AgentTimersSpec
CONSTANTS
  MaxTid = 2
  MaxTime = 1
  MaxStops = 1
  MaxPid = 2
  MaxDepth = 2
  MaxLeftover = 1
  States = {wait}
  Startup = Startup
  Nil = Nil
INVARIANTS
  ArmedExactly
  NoExpiryMissed
  OneSignalPerTimer
  TimeoutIsOnItsWay
  TimersOfTheLiving
PROPERTIES
  DiscardsOnlyStopped
  ReceiverManagesTheTimer
CHECK_DEADLOCK FALSE
