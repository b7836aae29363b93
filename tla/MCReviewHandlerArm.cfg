CONSTANTS
  canary = canary
  plain = plain
  Reviews = {canary, plain}
  CanaryReviews = {canary}
  MaxVersion = 2
  MaxLosses = 1
  MaxFailures = 1
SPECIFICATION Spec
CHECK_DEADLOCK FALSE
PROPERTY ArmSpentUnderAuthority
