CONSTANTS
  r1 = r1  r2 = r2  Nothing = Nothing
  Request = {r1, r2}
  Hooks <- MCHooks
  MaxWorkers = 2
  HangBound = 1
SPECIFICATION Spec
PROPERTY HooksRun
CHECK_DEADLOCK FALSE
