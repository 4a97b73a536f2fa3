SPECIFICATION Spec
CONSTANTS
  Workers = {w1, w2}
  Sessions = {s1}
  Texts <- FlowTexts
  Plans = {light, standard}
  InitialPlan = standard
  Addons = {share, insurance}
  Cancelable = {share}
  Backend = "fake"
  Overlap = TRUE
  Cap = 0
  None = None
  NoCurrent = NoCurrent
PROPERTIES CancelledFlowChangesNothing
