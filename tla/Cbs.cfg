CONSTANTS
  MaxCalls = 3
  MaxEvents = 2
SPECIFICATION FairSpec
CHECK_DEADLOCK FALSE
INVARIANTS TimerWatchesTokens TokenAnsweredRightly
PROPERTIES EveryCallAnswered
