CONSTANTS
  Clients = {"device", "module"}
  Sessions <- AllSessions
  MaxCalls = 4
  MaxLosses = 2
  MaxEvents = 4
  MaxTries = 2
  MaxPatches = 1
SPECIFICATION ClientSpec
INVARIANT RegisteredIsEnabled
INVARIANT CacheIsHub
PROPERTY EveryOpAnswered
CHECK_DEADLOCK FALSE
