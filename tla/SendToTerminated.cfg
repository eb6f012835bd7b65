SPECIFICATION AgentsSpec
CONSTANTS
  MaxPid = 3
  MaxDepth = 3
  MaxLeftover = 1
  States = {wait}
  Startup = Startup
  Nil = Nil
INVARIANTS
  SendFindsInputPriority
