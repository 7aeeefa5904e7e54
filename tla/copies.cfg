SPECIFICATION CopiesSpec
CONSTANTS
  State <- SmallState
  InitialState = "a"
  Label <- SmallLabel
  Meta <- SmallMeta
  Source <- SmallSource
  Destination <- SmallDestination
  Rule <- SmallRule
  RuleMeta <- SmallRules
  Priority <- SmallPriority
  User = {"u1"}
  Matches <- SmallMatches
  Given = {}
  NotGiven = "not given"
  NoObject = "no object"
  NoApproval = "no approval"
  RowBound = 9
  Deletable <- SmallRule
  Copy = {"c1", "c2"}
  HooksMayRaise = TRUE
INVARIANT AuditMatchesRows
PROPERTY ClosedStaysClosed
CHECK_DEADLOCK FALSE
