SPECIFICATION FairSpec
CONSTANTS
  None = None
  Starting = Starting
  Actors = {a1, a2}
  Drafts = {g1, b}
  Good = {g1}
  RepairThreshold = 2
  MaxRepairAttempts = 1
  MaxWriteAttempts = 1
  MaxRegenerations = 2
  MaxFaults = 1
INVARIANTS
  TypeOK
  PinMatchesDisk
  SessionRunsPromotedCode
  AttemptsBounded
  InProgressHasOwner
  NothingLeftOfADraft
PROPERTIES
  CallsEnd
