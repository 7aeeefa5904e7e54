CONSTANTS
  main = main  worker = worker
  Thread = {main, worker}
  Main = main
  Seconds = 3
  Strict = FALSE
  Depth = 3
SPECIFICATION Spec
INVARIANTS AlarmsAreExpected
PROPERTY NobodyIsCutShort
