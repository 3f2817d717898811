SPECIFICATION Spec
CONSTANTS
  None = None
  Supervisors = {s1}
  Recoveries = {r1}
  Deliveries = {d1}
  Cancels = {}
  Acks = {a1}
  Retries = {t1}
INVARIANTS
  TypeOK
  AnnouncedHasResult
  NoInventedExit
PROPERTIES
  NeverBackwards
CHECK_DEADLOCK FALSE
