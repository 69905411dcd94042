SPECIFICATION FairSpec
CONSTANTS
  o1 = o1
  o2 = o2
  o3 = o3
  t1 = t1
  t2 = t2
  Original = Original
  None = None
  Ops = {o1, o2}
  Targets = {t1, t2}
  Plans <- LivePlans
  MaxUnattended = 1
  VerifyMayReject = FALSE
  MaxCrashes = 1
CHECK_DEADLOCK FALSE
PROPERTIES
  LockedOperationsEnd
