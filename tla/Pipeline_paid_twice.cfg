\* Two targets and three attempts, safety only.  Serve has returned when the run stops.
CONSTANTS
  t1 = t1
  t2 = t2
  Targets <- TwoTargets
  MaxAttempts = 3
SPECIFICATION Spec
INVARIANTS
  NoSecondBill
CHECK_DEADLOCK FALSE
