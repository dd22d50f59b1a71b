CONSTANTS
  Pages = 2
  MaxCalls = 3
  MaxPolls = 1
  MaxMessages = 2
SPECIFICATION Spec
INVARIANTS ReceiverStops ToldWhatIs
PROPERTIES EveryCallAnswered
CHECK_DEADLOCK FALSE
