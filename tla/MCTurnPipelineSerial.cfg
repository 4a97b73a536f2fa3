SPECIFICATION FairSpec
CONSTANTS
  Workers = {w1}
  Sessions = {s1}
  Texts <- AllTexts
  Plans = {light, standard}
  InitialPlan = standard
  Addons = {share, insurance}
  Cancelable = {share}
  Backend = "anytelecom"
  Overlap = FALSE
  Cap = 0
  None = None
  NoCurrent = NoCurrent
INVARIANTS TypeOK SwitchHasFlow AnswerIsTrue
PROPERTIES ImplementsFlow LimitEndsSession EveryTurnAnswered
