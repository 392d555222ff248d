SPECIFICATION FairSpec
CONSTANTS
  Threads = {t1, t2}
  fBsize = 2
  NBaskets = 2
  MaxBook = 6
  FlushAnyTime = FALSE
  Null = Null
PROPERTIES CallsReturn
