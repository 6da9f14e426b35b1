\* Does the gateway know what to compute for every channel it publishes?
SPECIFICATION CatSpec
CHECK_DEADLOCK FALSE
CONSTANTS
  None = None
  Checkouts <- MCCheckouts
INVARIANT
  GatewayKnowsWhat
