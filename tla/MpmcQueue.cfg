SPECIFICATION Spec
CONSTANTS
  Threads = {t1, t2, t3}
  Values = {v1, v2}
  NoValue = NoValue
  Capacity = 2
  MaxTicket = 3
SYMMETRY Symmetry
INVARIANTS TypeOK CellExclusive SizeExact IInv
PROPERTIES RefusalHonest ImplementsFifo
