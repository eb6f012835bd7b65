SPECIFICATION FairOrderSpec
CONSTANTS
  Signals = {s1, s2, s3}
  PrioLevels = 2
INVARIANTS
  DrainedBetweenTriggers
  CountersSeeEveryQueue
PROPERTIES
  ImplementsRounds
  EveryScheduledSignalIsDispatched
