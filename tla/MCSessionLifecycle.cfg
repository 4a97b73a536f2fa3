SPECIFICATION Spec
CONSTANTS
  Sessions = {s1}
  Workers = {w1, w2}
  CallerKinds = {"serial", "overlap"}
  MaxBusinessTurns = 2
  WarningTurns = 1
  MaxMinutes = 2
  WarningMinutes = 1
  Ttl = 2
  MaxTurns = 2
INVARIANTS TypeOK SerialCountsTurns EndedIsGone OpenSurvives RowFirst
PROPERTIES LimitStays
SYMMETRY WorkerSymmetry
