CONSTANTS
  X = X
  Y = Y
  NoSnapshot = NoSnapshot
  NoAllocation = NoAllocation
  NoDecision = NoDecision
  Symbols = {X, Y}
  AllowedSymbols = {X}
  HardLeverage = 10
  SafeLeverage = 5
  MaxLeverage = 8
  MaxDrawdownPct = 3
  RiskPct = 20
  MaxPosition = 200
  MinNotional = 20
  Commands <- MCCommands
  AccountMessages <- MCAccountMessages
  AllocationMessages <- MCAllocationMessages
  Modes = {"NORMAL", "LOCAL_QUANT_MODE"}
  AccountMaxAge = 1
  AllocationMaxAge = 1
  Fallback <- MCFallback
  MaxTime = 3
  i1 = i1
  i2 = i2
  i3 = i3
  LiveIdeas = {i1, i2, i3}
  VenueSymbolOf <- MCVenueSymbolOf
  Quotes <- MCQuotes
  Allocations <- MCAllocations
  Equities = {70, 90}
  FirstLimits <- MCLimits
  Policies <- MCBudgets
  VenueMinimums = {8}
  Whole = 10
  FloatGrid = 2
  Cent = 4
  EvidenceMaxAge = 0
  LiveLastTime = 1
  MaxScopes = 2
SYMMETRY MCSymmetry
SPECIFICATION MCSpec
INVARIANTS
  DailyLossBounded
PROPERTIES
  AccountNewestWins
  AllocationNewestWins
  OrderNeedsAuthority
  EntryNeedsAllocation
  EntryWithinCaps
  CeilingsHoldAtApproval
  LimitsOnlyTighten
