CONSTANTS
  c1 = c1  c2 = c2  object = object  open = open  won = won  lost = lost  filed = filed
  winning = winning  losing = losing  filing = filing
  leader = leader  manager = manager  closed = closed  clerk = clerk
  NotGiven = NotGiven  None = None
  Call = {c1, c2}
  Object = object
  State = {open, won, lost, filed}
  InitialState = open
  Transition = {winning, losing, filing}
  Source <- MCSource
  Destination <- MCDestination
  Iteration <- MCIteration
  Approval = {leader, manager, closed, clerk}
  TransitionOf <- MCTransitionOf
  Priority <- MCPriority
  MaySign <- MCMaySign
  Given = {NotGiven, won, lost, filed}
  Databases = {"snapshot", "statement"}
  CallBound = 4
SPECIFICATION Spec
INVARIANTS SerializedIsFullySigned SerializedAuditMatches SerializedHistory OnlyChoicesDeadlock
PROPERTY SerializedStaysClosed
CHECK_DEADLOCK FALSE
