\* Two main windows and two lost connections.  The program stops: no deadlock check.
SPECIFICATION Spec
CONSTANTS
  MaxWindows = 2
  MaxLosses = 2
INVARIANTS TypeOK UsedOnceCreated EveryWorkerAsked
PROPERTY ShutdownEnds
CHECK_DEADLOCK FALSE
