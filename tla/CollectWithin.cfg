SPECIFICATION Spec
CONSTANTS
  Count = 3
  Deadline = 2
  v1 = v1
  v2 = v2
  Values <- MCValues
  None = None
  Running = Running
  Panicked = Panicked
INVARIANTS
  TypeOK
  OwnSlot
  NoEarlyLoss
  NeverWaitsForNobody
PROPERTIES
  GatherSpec
  Returns
CHECK_DEADLOCK FALSE
