SPECIFICATION Spec
CONSTANTS
  MaxInt64 = 8
  MaxHeight = 2
  h1 = h1
  h2 = h2
  Handlers <- MCHandlers
  Calls <- GatewayCalls
  RoutingConfig <- MCRoutingConfig
  Switches <- BothOrNeither
  AllowOrigin <- MCAllowOrigin
  URLs <- MCURLs
PROPERTIES
  ImplementsGateway
  RequestIsFinished
