SPECIFICATION Spec
CONSTANTS
  None = None
  Supervisors = {s1}
  Recoveries = {r1}
  Deliveries = {}
  Cancels = {}
  Acks = {}
  Retries = {}
INVARIANT LiveJobIsNotClaimed
CHECK_DEADLOCK FALSE
