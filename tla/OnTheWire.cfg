SPECIFICATION Spec
CONSTANTS
  TimerCheck = 2
  MinTimeout = 2
  MaxTimeout = 3
  MaxLate = 500
  MaxKey = 3
  MaxTime = 5
  Millis = {0, 499, 500, 999}
INVARIANTS TypeOK AnsweredOnce TimerArmed BoundedWait
PROPERTY NeverEarly
