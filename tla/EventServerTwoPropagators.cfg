SPECIFICATION Spec
CONSTANTS
  Workers = {w1, w2}
  Propagator <- TwoPropagators
  NSlots = 1
  NEvents = 2
  Primaries <- FirstOfTwo
  NperBasket = 1
  PriorityThr = 0
  MaxTracks = 2
  Null = Null
INVARIANTS NeverAllAsleep
