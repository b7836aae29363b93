CONSTANTS
  a = a
  b = b
  c = c
  X = X
  Y = Y
  Reviews = {a, b}
  CanaryReviews = {}
  Symbols = {X}
  SymbolOf <- MCSymbolOf
  ExpiresAt <- MCExpiresAt
  Snapshots <- MCSnapshots
  VenueIds = {1}
  Times = {0}
  NoVenue = 0
  RiskCap = 3
  PerTradeRisk = 2
  AccountMaxAge = 2
  VenueMaxAge = 3
  CacheSize = 1
  VenueStamps = {0}
  HandlerDelay = 1
  MaxTime = 1
  MaxSeq = 2
  MaxDisruptions = 1
SPECIFICATION ExposureSpec
CHECK_DEADLOCK FALSE
INVARIANT OneIdeaPerSymbol
