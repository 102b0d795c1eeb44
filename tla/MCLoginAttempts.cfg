\* Two attempts.  The session may rest: no deadlock check.
SPECIFICATION Spec
CONSTANTS
  MaxAttempts = 2
  MaxQR = 1
  MaxReports = 0
  MaxConns = 1
  Faults = {"publicKey", "beginAuth"}
INVARIANTS TypeOK NotStartedNotPolling LogOnIsHeard CachedFlagAwaitsAnswer
CHECK_DEADLOCK FALSE
