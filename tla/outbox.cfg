SPECIFICATION OutboxSpec
CONSTANTS
  None = None
  Supervisors = {s1}
  Recoveries = {}
  Deliveries = {d1, d2, d3}
  Acks = {a1}
  Retries = {t1}
INVARIANTS
  OneInFlightUnlessRetried
  NoUnaskedDuplicate
PROPERTIES
  AckedIsFinal
  ClaimIsReleased
CHECK_DEADLOCK FALSE
