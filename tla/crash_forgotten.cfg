SPECIFICATION AppSpec
CONSTANTS
  Requests = {}
  MaxSpawns = 1
  MaxRestarts = 0
  Frail = {}
INVARIANTS
  CrashIsNotForgotten
CHECK_DEADLOCK FALSE
