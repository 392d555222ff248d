SPECIFICATION Spec
CONSTANTS
  Threads = {t1, t2, t3}
  fBsize = 2
  NBaskets = 2
  MaxBook = 6
  FlushAnyTime = FALSE
  Null = Null
SYMMETRY Symmetry
INVARIANTS TypeOK ExclusiveBasket AtRest
PROPERTIES ImplementsPool
