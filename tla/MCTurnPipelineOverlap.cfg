SPECIFICATION Spec
CONSTANTS
  Workers = {w1, w2}
  Sessions = {s1}
  Texts <- FlowTexts
  Plans = {light, standard}
  InitialPlan = standard
  Addons = {share}
  Cancelable = {share}
  Backend = "fake"
  Overlap = TRUE
  Cap = 0
  None = None
  NoCurrent = NoCurrent
INVARIANTS FlowHasItsData
SYMMETRY Symmetric
