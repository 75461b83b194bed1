SPECIFICATION MCSpec
CONSTANTS
  Parts = {"connections", "pipeline", "waves"}
  b1 = b1
  b2 = b2
  b3 = b3
  c1 = c1
  c2 = c2
  c3 = c3
  w1 = w1
  w2 = w2
  w3 = w3
  Borrowers = {b1, b2, b3}
  Connections = {c1, c2, c3}
  PoolSizes = {0, 2}
  NoDb = NoDb
  Signers = {w1, w2}
  Offered = 3
  BatchSize = 2
  Minimum = 2
  Capacity = 2
  Options <- MCOptions
  Crew = {w1, w2, w3}
  MaxJobs = 3
INVARIANTS
  ConnectionsAccounted
  NoMissedWakeup
  NoWorkLost
PROPERTIES
  EveryThreadEnds
CHECK_DEADLOCK FALSE
