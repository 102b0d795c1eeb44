\* No fault at all: a failed poll leaves bIsLogonStarted set.
SPECIFICATION Spec
CONSTANTS
  MaxAttempts = 1
  MaxQR = 1
  MaxReports = 0
  MaxConns = 1
  Faults = {}
INVARIANT AllowedAfterFail
CHECK_DEADLOCK FALSE
