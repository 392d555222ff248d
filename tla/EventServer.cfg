SPECIFICATION Spec
CONSTANTS
  Workers = {w1, w2}
  Propagator <- OnePropagator
  NSlots = 2
  NEvents = 3
  Primaries <- FirstOfTwo
  NperBasket = 1
  PriorityThr = 0
  MaxTracks = 2
  Null = Null
SYMMETRY Symmetry
INVARIANTS TypeOK SlotConservation EventConservation TrackAccounting TrackFindsEvent EndsOnce NeverAllAsleep
