SPECIFICATION Spec
CONSTANTS
  None = None
  Starting = Starting
  Actors = {a1, a2}
  Drafts = {g1, b}
  Good = {g1}
  RepairThreshold = 2
  MaxRepairAttempts = 3
  MaxWriteAttempts = 2
  MaxRegenerations = 3
  MaxFaults = 0
INVARIANTS
  LiveWasValidated
