SPECIFICATION Spec
CONSTANTS
  Clients = {c1}
  Jobs = {j1}
  None = None
INVARIANTS
  SecretsWereTyped
CHECK_DEADLOCK FALSE
