SPECIFICATION FairSpec
CONSTANTS
  Kinds = {"connect", "disconnect", "publish", "subscribe", "updateSas"}
  MaxOps = 4
INVARIANTS NoCallbackLost OneConnection
PROPERTIES LossReported EveryCallAnswered
CHECK_DEADLOCK FALSE
