SPECIFICATION Spec
CONSTANTS
  Calls = {c1, c2}
  Streams = {s1, s2}
  SessionLimits = {1}
  Pool = 1
  None = None
INVARIANTS NoStream
