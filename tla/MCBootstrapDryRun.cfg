\* A first start, as a dry run or not.
SPECIFICATION Spec
CONSTANTS
  MaxStarts = 1
  Options = {"none", "dryRun"}
PROPERTY DryRunAltersNothing
CHECK_DEADLOCK FALSE
