SPECIFICATION FairSpec
CONSTANTS
  Clients = {c1}
  Titles = {"powering off", "shutdown needed", "still on low battery", "on battery", "back on line power"}
  Sources = {"ups"}
  DatabaseMayFail = TRUE
  None = None
  MaxChanges = 3
  MaxBoots = 2
  MaxInFlight = 2
INVARIANTS
  TypeOK
  NothingWithheld
  PhoneHears
PROPERTIES
  NoShutdownLoop
  LowBatteryIsHandled
