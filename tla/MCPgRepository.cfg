SPECIFICATION Spec
CONSTANTS
  Threads = {t1, t2, t3}
  MaxConn = 2
  MinConn = 1
  Attempts = 3
SYMMETRY Symmetry
INVARIANTS TypeOK PoolBounded OkIsStored
