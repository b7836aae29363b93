CONSTANTS
  a = a
  b = b
  c = c
  X = X
  Y = Y
  Z = Z
  NoVenue = NoVenue
  Unbound = Unbound
  Poisoned = Poisoned
  NoAnswer = NoAnswer
  Reviews = {a, b, c}
  CanaryReviews = {c}
  Symbols = {X, Y, Z}
  SymbolOf <- MCSymbolOf
  ExpiresAt <- MCExpiresAt
  Snapshots <- MCSnapshots
  Messages <- MCMessages
  VenueIds = {1}
  Times = {1, 2}
  RiskCap = 2
  PerTradeRisk = 1
  AccountMaxAge = 1
  VenueMaxAge = 1
  CacheSize = 1
SPECIFICATION RegimeSpec
PROPERTY AcceptedBindingIsKept
