SPECIFICATION FairSpec
CONSTANTS
  Calls = {c1, c2}
  Streams = {s1, s2}
  SessionLimits = {1, 2}
  Pool = 1
  None = None
INVARIANTS TypeOK StreamsOwned HandleIsLive
PROPERTIES GoneCallsEnd
