CONSTANTS
  Signatures <- MCSignatures
  Strict = TRUE
  HookDoes = {"raise", "db_error", "approve", "receiver"}
  DepthBound = 3
SPECIFICATION Spec
INVARIANTS StateFollowsSignatures PostMeansSaved
 
CHECK_DEADLOCK FALSE
