CONSTANTS
  a = a
  b = b
  c = c
  X = X
  Y = Y
  Reviews = {a, b, c}
  CanaryReviews = {a, c}
  Symbols = {X, Y}
  SymbolOf <- MCSymbolOf
  ExpiresAt <- MCExpiresAt
  Snapshots <- MCSnapshots
  VenueIds = {1, 2}
  Times = {1, 2}
  NoVenue = 0
  RiskCap = 3
  PerTradeRisk = 2
  AccountMaxAge = 1
  VenueMaxAge = 1
  CacheSize = 1
SPECIFICATION Spec
INVARIANTS
  TypeOK
  ReplayIdentityRetained
  AuthorityIsNewest
PROPERTIES
  ReleasedOnlyWithProof
  AuthorityNewestWins
  VenueNewestWins
