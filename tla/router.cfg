SPECIFICATION AloneSpec
CONSTANTS
  None = None
  r1 = r1
  r2 = r2
  r3 = r3
  a1 = a1
  t1 = t1
  i1 = i1
  e1 = e1
  Routes = {r1, r2}
  Acks = {a1}
  Retries = {t1}
  Instances = {i1}
  Events = {e1}
  Threads = {th1, th2}
  InstanceOf <- OneInstance
  EventOf <- OneEvent
INVARIANTS
  RouterTypeOK
  OneAttemptUnlessReopened
  TurnsAreCounted
  TurnsStayOnThread
  ClaimHasAnAttempt
PROPERTIES
  OnlyAttemptsUndoAcks
  CallsEnd
CHECK_DEADLOCK FALSE
