SPECIFICATION Spec
CONSTANTS
  key1 = key1
  key2 = key2
  wiped = wiped
  Slots = {0}
  Keys <- MCKeys
  ValidPrivate <- MCValidPrivate
  Wiped = wiped
  TableBackends = {}
  MaxEpoch = 1
  MaxBatch = 1
  MaxAnswers = 2
INVARIANT FailuresCounted
CHECK_DEADLOCK FALSE
