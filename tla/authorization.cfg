CONSTANTS
  ann = ann  bob = bob  g1 = g1  g2 = g2  p1 = p1  p2 = p2  r1 = r1  r2 = r2  o1 = o1
  None = None
  User = {ann, bob}
  Superuser = {}
  Group = {g1, g2}
  Permission = {p1, p2}
  Name <- MCName
  GroupPermission <- MCGroupPermission
  Rule = {r1, r2}
  Priority <- MCPriority
  Policy <- MCPolicy
  Object = {o1}
SPECIFICATION Spec
INVARIANTS DriversAgree TurnIsKept
CHECK_DEADLOCK FALSE
SYMMETRY MCSymmetry
