SPECIFICATION AgentsSpec
CONSTANTS
  MaxPid = 4
  MaxDepth = 3
  MaxLeftover = 1
  States = {wait}
  Startup = Startup
  Nil = Nil
INVARIANTS
  SwitchBackSafe
  EnvMatchesCallStack
  TreeConsistent
  NothingLeaks
PROPERTIES
  NoZombie
  InnermostProcedureRuns
