CONSTANTS
  Repertoires <- AllRepertoires
  MaxRequests = 3
  MaxConns = 2
  MaxTroubles = 2
SPECIFICATION FairSpec
CHECK_DEADLOCK FALSE
INVARIANTS AnsweredOnce ConnectedMeansUp
PROPERTIES EveryCallAnswered
