CONSTANTS
  Kinds = {"mqtt", "amqp", "http", "tpm", "provider", "registration", "plain"}
  MaxCalls = 3
  MaxLosses = 1
  MaxTimers = 2
SPECIFICATION Spec
INVARIANTS KeyIsKnown
PROPERTIES ImplementsOperations EveryCallAnswered
CHECK_DEADLOCK FALSE
