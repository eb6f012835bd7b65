SPECIFICATION FairEngineSpec
CONSTANTS
  MaxPid = 2
  MaxDepth = 2
  MaxLeftover = 1
  States = {wait}
  Startup = Startup
  Nil = Nil
  Ids = {a, b}
  PrioLevels = 1
  NoSignal = NoSignal
PROPERTIES
  TriggerReturns
  SystemStops
