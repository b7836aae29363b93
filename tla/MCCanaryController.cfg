CONSTANTS
  p = p
  q = q
  x = x
  y = y
  Readings = {x, y}
  Invocations = {p, q}
  Plan <- MCPlan
  BarCloses = {0, 2}
  SessionDeadline = 4
  SnapshotMaxAge = 2
  ClockSkew = 1
  LastTime = 4
  MaxRetries = 1
  NoReview = NoReview
SYMMETRY MCSymmetry
SPECIFICATION Spec
CHECK_DEADLOCK FALSE
INVARIANTS
  ApprovedInsideSession
  OneApprovalPerAttempt
PROPERTIES
  PreparedWhileFlat
  SubmittedWhileFlat
  DecidedByPresentClock
