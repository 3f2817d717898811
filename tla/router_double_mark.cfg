SPECIFICATION AloneSpec
CONSTANTS
  None = None
  r1 = r1
  r2 = r2
  r3 = r3
  a1 = a1
  t1 = t1
  i1 = i1
  e1 = e1
  Routes = {r1, r2, r3}
  Acks = {}
  Retries = {}
  Instances = {i1}
  Events = {e1}
  Threads = {th1}
  InstanceOf <- OneInstance
  EventOf <- OneEvent
INVARIANTS
  InFlightRejectsClaim
CHECK_DEADLOCK FALSE
