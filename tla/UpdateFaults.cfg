SPECIFICATION FairSpec
CONSTANTS
  Versions = {1, 2, 3, 4}
  Initial = 1
  Released = {2, 3, 4}
  Broken = {2}
  Frail = {3}
  MaxAttempts = 2
  KeepVersions = 3
  Callers = {"owner", "auto"}
  LateFailure = FALSE
  RestartMayFail = TRUE
  RemovalMayFail = TRUE
  MaxDiskFails = 1
  MaxCrashes = 1
INVARIANTS
  TypeOK
  RevertTargetKept
  UnblessedBootsBounded
PROPERTIES
  ReportsAreTrue
  VersionsInUseStayWhole
  ServesAgain
