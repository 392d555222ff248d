SPECIFICATION Spec
CONSTANTS
  p1 = p1  s1 = s1  s2 = s2  e1 = e1  w1 = w1  w2 = w2  Null = Null
  Tracks = {p1, s1, s2}
  Events = {e1}
  PrimaryOf <- OnePrimary
  Charged = {p1}
  AtRestCandidates = {p1}
  fDoFastSim = FALSE
  fNstepsKillThr = 1
  MaxGeneration = 1
  Workers = {w1, w2}
  Basketized <- PhysicsVectorized
  fThreshold = 2
  CheckPeriod = 1
  Bsize = 1
  fNlanes = 2
  fNmaxBuffSpill = 1
  kFlushThreshold = 0
  kShareThreshold = 3
  ShareDenominator = 2
SYMMETRY Symmetry
INVARIANTS TypeOK OnePlace BufferMatchesStage LastLaneHolds FlushedHoldsNothing LeftInBasketizer TracksAccounted TransportedIsOver StoppedGoesNowhere
CHECK_DEADLOCK FALSE
