SPECIFICATION AuthSpec
CONSTANTS Callers = {c1} AuthThreads = {w1} AuthModes = {"serial"} MaxAttempts = 3 MaxAsks = 4
INVARIANT AttemptsEnd
CHECK_DEADLOCK FALSE
