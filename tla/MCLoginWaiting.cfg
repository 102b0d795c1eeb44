\* No fault at all: the end of the logon overtakes the report of its success.
SPECIFICATION Spec
CONSTANTS
  MaxAttempts = 1
  MaxQR = 1
  MaxReports = 0
  MaxConns = 1
  Faults = {}
INVARIANT WaitsForLogon
CHECK_DEADLOCK FALSE
