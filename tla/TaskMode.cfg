SPECIFICATION Spec
CONSTANTS
  t1 = t1  t2 = t2  t3 = t3  e1 = e1  e2 = e2  e3 = e3  e4 = e4
  x1 = x1  x2 = x2  x3 = x3  x4 = x4  d1 = d1  d2 = d2  Null = Null
  Tasks = {t1, t2, t3}
  EventsOf <- TwoOfFirst
  TracksOf <- OneEach
  TaskData = {d1, d2}
  Garbage = {e3}
  fNperBasket = 2
  kShareThreshold = 2
INVARIANTS TypeOK TaskDataExclusive ReturnsWhenTransported LeavesNoStack
 
CHECK_DEADLOCK FALSE
