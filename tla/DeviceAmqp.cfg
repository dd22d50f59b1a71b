CONSTANTS
  Sessions = {{"sendEvent", "disconnect"}, {"getTwin", "disableTwin", "disconnect", "x509"}, {"enableMethods", "disableMethods", "respond", "disconnect", "x509"}, {"enableC2D", "disableC2D", "settle", "disconnect", "x509"}, {"connect", "renew", "newToken", "disconnect"}}
  MaxCalls = 3
  MaxLosses = 1
SPECIFICATION Spec
INVARIANTS AnsweredOnce LinksAreCurrent
PROPERTIES EveryCallAnswered
CHECK_DEADLOCK FALSE
