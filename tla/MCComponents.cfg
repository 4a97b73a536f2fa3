SPECIFICATION Spec
CONSTANTS
  Services = {w1, w2}
  Jtis = {j1}
  CacheTtl = 1
  JwtTtl = 2
  MaxNow = 2
  MaxVersion = 2
  Piis = {p1, p2}
  Tokens = {t1, t2, t3}
  PiiThreads = {w1, w2}
  PiiCallers = {"serial", "overlap"}
  MaxKey = 2
  NoToken = NoToken
  Callers = {c1}
  AuthThreads = {w1, w2}
  AuthModes = {"serial", "overlap"}
  MaxAttempts = 2
  MaxAsks = 3
  Days = 8
  HolidayChoices <- HolidayChoicesDef
  Asked = {0, 1, 20}
  NoTime = NoTime
  KeyTimeout = 1
  KeyTtl = 2
  MaxKeys = 2
  NoCapture = NoCapture
  NoScore = NoScore
  MaxWords = 3
  Letters = {"a", "b"}
  Fields <- FieldsDef
  MaxText = 5
  MaxValue = 2
  MaxRetries = 3
  MaxParts = 5
  MaxLength = 2
  KeyedDigits = {0, 1, 7}
  MaxDigits = 9
  Sentences = {x, y, z}
  CacheSize = 2
  CacheThreads = {w1, w2}
  CacheModes = {"serial", "overlap"}
SYMMETRY ServiceSymmetry
INVARIANTS TypeOK RevokedRefused CurrentVerifies TokensRestore SerialOneToken CountsHold NextOpenIsNext BookedAsAgreed NarrowWins MaskRestores SplitIsPlayable GivesUpInTime FactsAreChecked AmountReads KeepsRecent
PROPERTY TypingSurvives
CHECK_DEADLOCK FALSE
