CONSTANTS
  p1 = p1  p2 = p2  ann = ann  bob = bob  b1 = b1  b2 = b2
  NoOne = NoOne  NoRow = NoRow
  Process = {p1, p2}
  User = {ann, bob}
  Reviewer = {ann, bob}
  SelfReviewer = {bob}
  Body = {b1, b2}
  CodeBody <- MCCodeBody
  RevisionBound = 3
  DisturbedBound = 1
SPECIFICATION Spec
INVARIANTS ApprovedBodyWasReviewed RunsItsBody RevisionsAreEdits
PROPERTY ApprovalIsRecorded
CHECK_DEADLOCK FALSE
