SPECIFICATION Spec
CONSTANTS
  Sessions = {{"connect", "disconnect", "send", "enable", "disable", "respond", "updateSas"},
              {"connect", "disconnect", "twin", "enableTwin", "disableTwin"}}
  Providers = {"sas", "sak", "edge"}
  MaxOps = 3
  MaxRenewals = 1
INVARIANTS NoCallbackLost NothingLeftWaiting ConnectedAbove
CHECK_DEADLOCK FALSE
