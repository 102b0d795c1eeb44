\* No fault at all: the token of a poll in flight arrives after the cancel.
SPECIFICATION Spec
CONSTANTS
  MaxAttempts = 1
  MaxQR = 1
  MaxReports = 0
  MaxConns = 1
  Faults = {}
PROPERTY NoLogOnAfterCancel
CHECK_DEADLOCK FALSE
