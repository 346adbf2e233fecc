SPECIFICATION Spec
CONSTANTS
  c1 = c1
  c2 = c2
  k1 = k1
  k2 = k2
  Calls = {c1, c2}
  Keys = {k1}
  KeyOf <- SharedKey
  Workers = {ticker, flush}
  Tokens = {1, 2, 3}
  NoToken = 0
  MaxAttempts = 2
  BatchSize = 2
  Timeout = 1
  LeaseFloor = 1
  Ceiling = 1
  MaxCrashes = 1
  MaxRevives = 1
INVARIANTS
  TypeOK
  NoSilentLoss
  DeadExactlyWhenSpent
PROPERTIES
  FailureCountedOnce
  KeepsCustody
CHECK_DEADLOCK FALSE
