SPECIFICATION HandoffSpec
CONSTANTS
  None = None
  u1 = u1
  u2 = u2
  h1 = h1
  h2 = h2
  Turns = {u1, u2}
  Threads = {h1, h2}
  ThreadOf <- TwoThreads
  MaxEvents = 2
  MaxOthers = 0
INVARIANTS
  InterruptsOwnTurn
CHECK_DEADLOCK FALSE
