SPECIFICATION Spec
CONSTANTS
  Tasks = {t1, t2, t3}
  fSize = 2
  NFree = 1
  queue_buff_size = 2
  MaxBlocks = 2
  MaxRaced = 1
  MaxUsers = 1
  NoBlock = NoBlock
CHECK_DEADLOCK FALSE
CONSTRAINT Bounds
SYMMETRY Symmetry
INVARIANTS TypeOK ExclusiveUnlessRaced FreshUnlessRaced ConservedUnlessRaced
