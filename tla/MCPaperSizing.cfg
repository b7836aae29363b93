CONSTANTS
  X = X
  Y = Y
  Z = Z
  NoIdea = NoIdea
  Symbols = {X, Y, Z}
  Strategies = {"trend", "canary"}
  CanaryStrategy = "canary"
  Reviews <- MCReviews
  Venues <- MCVenues
  Allocations <- MCAllocations
  Funds <- MCFunds
  Prices = {99, 103}
  TradeBps = 25
  TotalBps = 40
  LeveragePct = 150
  MaxNotional = 800
  MinNotional = 150
  MaxDrawdownPct = 10
SPECIFICATION SizingSpec
INVARIANTS
  SizingTypeOK
  SizingFitsBudget
PROPERTIES
  CeilingKeptOnApproval
  CapsKeptOnApproval
