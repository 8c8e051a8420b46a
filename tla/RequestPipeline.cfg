SPECIFICATION Spec
CONSTANTS
  MaxInt64 = 8
  MaxHeight = 2
  h1 = h1
  h2 = h2
  Handlers <- MCHandlers
  Calls <- CacheCalls
  RoutingConfig <- MCRoutingConfig
  Switches <- OnAndOff
  AllowOrigin <- MCAllowOrigin
  URLs <- MCURLs
SYMMETRY Symmetry
INVARIANTS
  TypeOK
  CacheHoldsSettledAnswers
  HitIsSettled
  HitAllowsBrowsers
  MetricsMatchAnswers
