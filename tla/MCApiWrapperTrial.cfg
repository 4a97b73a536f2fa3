SPECIFICATION Spec
CONSTANTS
  Callers = {t1}
  MaxRetries = 2
  MinCalls = 3
  Window = 2
  OpenFor = 1
  Traffic = 3
  None = None
PROPERTIES FailedTrialReopens
