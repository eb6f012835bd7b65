SPECIFICATION Spec
CONSTANTS
  MaxPid = 2
  MaxDepth = 2
  MaxLeftover = 1
  States = {wait}
  Startup = Startup
  Nil = Nil
  Socks = {a, b}
  Writers = {0, 2}
  NoInfo = NoInfo
SYMMETRY AnySocket
INVARIANTS
  MonitoredExactly
PROPERTIES
  CalledInTheEnvOfTheAdder
