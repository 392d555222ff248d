SPECIFICATION Spec
CONSTANTS
  Tasks = {t1, t2}
  fSize = 1
  NFree = 2
  queue_buff_size = 4
  MaxBlocks = 3
  MaxRaced = 1
  MaxUsers = 1
  NoBlock = NoBlock
CHECK_DEADLOCK FALSE
CONSTRAINT Bounds
SYMMETRY Symmetry
INVARIANTS BlockIsFresh
