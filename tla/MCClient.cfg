\* Every part within its own bounds, at which it stops: no deadlock check.
SPECIFICATION ClientSpec
CONSTANTS
  App = {a1, a2}
  Hash = {h1, h2}
  NoHash = NoHash
  MaxLoads = 2
  MaxIconChanges = 3
  Titles = {1, 2}
  SameName = {1, 2}
  MaxChanges = 2
  MaxReloads = 2
  Names = {0, 1, 2, 3}
  Libraries <- MCLibraries
  Searches <- MCSearches
  Games = {g1, g2}
  GameStates <- MCGameStates
  MaxGameStates = 1
  MaxInstalls = 2
  MaxCalls = 3
  Paths = {f1, f2, f3}
  MaxSettingsWindows = 2
  MaxInstallDialogs = 2
  MaxFolderChanges = 3
  Procs = {q1, q2, q3, q4}
  CommandLines <- MCCommandLines
  WebTypes = {"store", "community"}
  MaxTabs = 3
  MaxTokens = 3
  MaxHeader = 3
  MaxBody = 3
  KeyOrder <- MCKeyOrder
  Number <- MCNumber
  OptionKinds <- MCOptionKinds
  MaxFields = 7
  WindowsTools = {"proton_8", "proton_9"}
  MaxToolChanges = 4
  MaxToolWindows = 2
  Pids = {p1, p2}
  MaxRestarts = 1
INVARIANTS ClientTypeOK IconIsInCache LoneReplyGivesIcon FilesOfOwnApp QueueIsCurrent OnlyMatchesShown NoMatchLost SortedButLast AskerTellsOnce LaunchesWhatWasChosen RegisteredRunsAlone ReaperOutlivesTheGame NoPageForgotten BoldIsShown ReadsJustTheMessage LaunchesByItsNumber LastUsedShowsTool
PROPERTIES RepliesDrain DeletesNoOther InstallsWhereItSays IsAGamesLife
CHECK_DEADLOCK FALSE
