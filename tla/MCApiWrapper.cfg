SPECIFICATION FairSpec
CONSTANTS
  Callers = {t1, t2}
  MaxRetries = 1
  MinCalls = 2
  Window = 2
  OpenFor = 1
  Traffic = 2
  None = None
INVARIANTS TypeOK OpenKnowsSince
PROPERTIES ImplementsCall Recovers
