CONSTANTS
  canary = canary
  plain = plain
  Reviews = {canary, plain}
  CanaryReviews = {canary}
  MaxVersion = 2
  MaxLosses = 1
  MaxFailures = 1
SPECIFICATION FairSpec
CHECK_DEADLOCK FALSE
INVARIANTS
  ApprovalBoundToReadVersion
  CanaryNeedsArm
PROPERTIES
  DenialLeavesNoTrace
  RevokedApprovalKept
  HandlingEnds
