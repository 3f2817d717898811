SPECIFICATION LedgerSpec
CONSTANTS
  None = None
  c1 = c1
  c2 = c2
  x1 = x1
  x2 = x2
  i1 = i1
  i2 = i2
  j1 = j1
  j2 = j2
  Jobs = {j1, j2}
  Creates = {c1, c2}
  Transitions = {x1, x2}
  Instances = {i1, i2}
  InstanceOf <- Processes
  JobOf <- Requests
  Handoffs <- Pending
INVARIANTS
  LedgerTypeOK
  OneWinner
PROPERTIES
  OneOwner
  CallsAnswer
CHECK_DEADLOCK FALSE
