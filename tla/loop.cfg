SPECIFICATION Spec
CONSTANTS
  State <- LoopState
  InitialState = "a"
  Label <- LoopLabel
  Meta <- LoopMeta
  Source <- LoopSource
  Destination <- LoopDestination
  Rule <- LoopRule
  RuleMeta <- LoopRuleMeta
  Priority <- LoopPriority
  User = {"u1", "u2"}
  Matches <- LoopMatches
  Given = {"c"}
  NotGiven = "not given"
  NoObject = "no object"
  NoApproval = "no approval"
  RowBound = 11
  Deletable = {"ac1"}
INVARIANTS TypeOK DoneIsFullySigned SignedInOrder OpenTransitionsCanBeSigned ApprovalsFollowTransition AuditMatchesRows NotStranded
PROPERTIES ClosedStaysClosed StateChangesAreAudited CancellationIsClosed ImplementsLedger
CHECK_DEADLOCK FALSE
