SPECIFICATION FairSpec
CONSTANTS
  Kinds = {"attach", "detach", "forceDetach", "send"}
  CallbackKinds = {"attach", "detach", "send"}
  MaxOps = 4
  MaxDeferred = 1
INVARIANTS SendAnsweredOnce SentInOrder DetachNotLost
PROPERTIES EverySendAnswered
CHECK_DEADLOCK FALSE
