\* One lost connection.
SPECIFICATION Spec
CONSTANTS
  MaxWindows = 0
  MaxLosses = 1
PROPERTY ReconnectIsReported
CHECK_DEADLOCK FALSE
