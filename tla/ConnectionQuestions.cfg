SPECIFICATION Spec
CONSTANTS
  Clients = {c1, c2}
  Jobs = {j1, j2}
  None = None
INVARIANTS
  ConsentIsTyped
  AskersCanBeAnswered
  ResolversAreLive
CHECK_DEADLOCK FALSE
