SPECIFICATION SupervisionSpec
CONSTANTS
  None = None
  Supervisors = {s1, s2}
  Recoveries = {}
  Cancels = {c1}
INVARIANTS
  CancelledForCause
  TerminalHasResult
PROPERTIES
  RecordedCommandIsNotRepeated
  EndedCommandIsSettled
  KilledCommandIsSettled
CHECK_DEADLOCK FALSE
