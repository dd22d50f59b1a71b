SPECIFICATION PollingFairSpec
CONSTANTS
  MaxOps = 5
  Transports = {"http", "mqtt"}
INVARIANTS CallbackOwned
PROPERTIES RequestEnds ClosingAnswered
CHECK_DEADLOCK FALSE
