SPECIFICATION Spec
CONSTANTS
  Workers = {w1, w2}
  Propagator <- OnePropagator
  NSlots = 1
  NEvents = 2
  Primaries <- OneEach
  NperBasket = 1
  PriorityThr = 0
  MaxTracks = 1
  Null = Null
INVARIANTS NeverAllAsleep
