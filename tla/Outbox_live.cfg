SPECIFICATION FairSpec
CONSTANTS
  c1 = c1
  c2 = c2
  k1 = k1
  k2 = k2
  Calls = {c1, c2}
  Keys = {k1, k2}
  KeyOf <- KeyPerCall
  Workers = {ticker}
  Tokens = {1, 2, 3}
  NoToken = 0
  MaxAttempts = 2
  BatchSize = 2
  Timeout = 0
  LeaseFloor = 1
  Ceiling = 1
  MaxCrashes = 1
  MaxRevives = 0
PROPERTIES
  EveryRowResolved
CHECK_DEADLOCK FALSE
