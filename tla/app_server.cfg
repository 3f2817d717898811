SPECIFICATION AppSpec
CONSTANTS
  Requests = {}
  MaxSpawns = 2
  MaxRestarts = 1
  Frail = {1}
INVARIANTS
  AppTypeOK
  WaitersMissNoAnswer
  CrashReachesWaiters
  StraysWereAccused
PROPERTIES
  CrashIsOfTheCurrent
  OwnerReturns
CHECK_DEADLOCK FALSE
