\* Four starts, dry or not, killed anywhere.  No deadlock check: after the last start the process is gone.
SPECIFICATION Spec
CONSTANTS
  MaxStarts = 4
  Options = {"none", "restore", "dryRun"}
INVARIANTS TypeOK UpdatesOwnInstall RunsAsOpenSteam NeverStopsHalfway RunsComplete
PROPERTIES ValveFilesSurvive BootEnds
CHECK_DEADLOCK FALSE
