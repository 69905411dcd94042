SPECIFICATION FairSpec
CONSTANTS
  Versions = {1, 2, 3, 4}
  Initial = 1
  Released = {2, 3, 4}
  Broken = {2}
  Frail = {3}
  MaxAttempts = 2
  KeepVersions = 3
  Callers = {"auto"}
  LateFailure = FALSE
  RestartMayFail = FALSE
  RemovalMayFail = FALSE
  MaxDiskFails = 0
  MaxCrashes = 0
PROPERTIES
  NoSwapRevertLoop
CHECK_DEADLOCK FALSE
