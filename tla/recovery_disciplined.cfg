SPECIFICATION DisciplinedSpec
CONSTANTS
  None = None
  Supervisors = {s1}
  Recoveries = {r1, r2}
  Deliveries = {d1}
  Cancels = {}
  Acks = {a1}
  Retries = {}
INVARIANTS
  UnconfirmedIsPublished
PROPERTIES
  RecoveryReconciles
  ResultIsWrittenOnce
  AckSurvives
  RecoveryEnds
CHECK_DEADLOCK FALSE
