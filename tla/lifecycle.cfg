CONSTANTS
  p1 = p1  p2 = p2
  Process = {p1, p2}
  Fields <- MCTwo
  Defined <- MCBoth
  Initial <- MCInitial
  Moved <- MCMoved
  Null = Null
  InTransaction = TRUE
SPECIFICATION LifecycleSpec
INVARIANT CreatedIsReady
PROPERTY ReadyInTheEnd
CHECK_DEADLOCK FALSE
