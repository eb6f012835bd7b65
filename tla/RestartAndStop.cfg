SPECIFICATION TimersSpec
CONSTANTS
  MaxTid = 2
  MaxTime = 2
  MaxStops = 2
PROPERTIES
  StoppedIsDiscarded
