SPECIFICATION Spec
CONSTANTS
  Threads = {t1}
  MaxConn = 2
  MinConn = 1
  Attempts = 2
INVARIANTS UpdateIsRetried
