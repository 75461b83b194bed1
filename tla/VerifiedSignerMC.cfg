SPECIFICATION Spec
CONSTANTS
  key1 = key1
  key2 = key2
  digest1 = digest1
  digest2 = digest2
  wiped = wiped
  Slots = {0, 1}
  Keys <- MCKeys
  ValidPrivate <- MCKeys
  Wiped = wiped
  MaxEpoch = 3
  Digests <- MCDigests
  MaxBatch = 2
INVARIANTS
  ReturnedBatchVerifies
  GrantNamesOneKey
  PinsMatchSlots
  NoFalseQuarantine
SYMMETRY MCSymmetry
