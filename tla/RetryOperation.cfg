SPECIFICATION FairSpec
CONSTANTS
  Normal <- MCNormal
  Throttled <- MCThrottled
  ImmediateFirstRetry = TRUE
  OperationTimeout = 30000
  Durations = {2500, 7000}
  Randoms = {0, 99}
  RetryLateness = 50
INVARIANTS StartedBeforeLimit
PROPERTIES BackoffRespected EventuallyFinal
CHECK_DEADLOCK FALSE
