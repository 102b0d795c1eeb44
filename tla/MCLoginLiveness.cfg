\* Every event delivered twice once a slot is connected twice; all replies arrive but those in Faults.
SPECIFICATION Spec
CONSTANTS
  MaxAttempts = 1
  MaxQR = 1
  MaxReports = 0
  MaxConns = 2
  Faults = {"publicKey", "beginQR"}
PROPERTIES CancelReenablesInput AnswerReenablesInput
CHECK_DEADLOCK FALSE
