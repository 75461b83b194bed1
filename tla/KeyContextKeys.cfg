SPECIFICATION Spec
CONSTANTS
  key1 = key1
  key2 = key2
  wiped = wiped
  Slots <- MCSlots
  Keys <- MCKeys
  ValidPrivate <- MCValidPrivate
  Wiped = wiped
  TableBackends = {"comb_w8"}
  MaxEpoch = 2
  MaxBatch = 2
  MaxAnswers = 2
INVARIANTS
  SlotHoldsItsGeneration
  EpochNamesOneKey
  AnswerNamesKeyUsed
  NoSharedAesKey
  CountersMatchReports
  SelectedTableUploaded
PROPERTIES
  EpochsOnlyAdvance
CHECK_DEADLOCK FALSE
