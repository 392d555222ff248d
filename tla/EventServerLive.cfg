SPECIFICATION FairRunSpec
CONSTANTS
  Workers = {w1, w2}
  Propagator <- OnePropagator
  NSlots = 1
  NEvents = 2
  Primaries <- FirstOfFour
  NperBasket = 2
  PriorityThr = 60
  MaxTracks = 2
  Null = Null
PROPERTY AllExit
INVARIANTS PriorityCounted WaitsForAll WakeUpMissed
