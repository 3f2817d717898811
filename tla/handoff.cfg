SPECIFICATION HandoffSpec
CONSTANTS
  None = None
  u1 = u1
  u2 = u2
  h1 = h1
  h2 = h2
  Turns = {u1, u2}
  Threads = {h1}
  ThreadOf <- OneThread
  MaxEvents = 2
  MaxOthers = 1
INVARIANTS
  HandoffTypeOK
  NoContinuationInTurn
PROPERTIES
  WaitMissesOnlyDropped
  MarkerIsNotMissed
  BindingIsKept
CHECK_DEADLOCK FALSE
