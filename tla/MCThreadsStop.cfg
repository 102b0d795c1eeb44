\* No main window and no lost connection are needed to see it.
SPECIFICATION Spec
CONSTANTS
  MaxWindows = 0
  MaxLosses = 0
INVARIANT StoppedBeforeRelease
CHECK_DEADLOCK FALSE
