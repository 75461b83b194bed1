SPECIFICATION HandleSpec
CONSTANTS
  t1 = t1
  t2 = t2
  t3 = t3
  NoThread = NoThread
  Threads <- TwoThreads
  Small = {"load_key"}
  MaxItems = 1
  MaxNest = 2
INVARIANTS
  ContextIsOwned
  AnswersAreWhole
PROPERTIES
  LockIsReleased
CHECK_DEADLOCK FALSE
