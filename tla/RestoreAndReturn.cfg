SPECIFICATION EngineSpec
CONSTANTS
  MaxPid = 3
  MaxDepth = 2
  MaxLeftover = 1
  States = {wait}
  Startup = Startup
  Nil = Nil
  Ids = {a}
  PrioLevels = 1
  NoSignal = NoSignal
PROPERTIES
  DiscardsOnlyForTheStopped
