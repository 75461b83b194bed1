SPECIFICATION MCSpec
CONSTANTS
  c1 = c1
  c2 = c2
  NoToken = NoToken
  Scenarios = {"retries", "admission", "mixed"}
  Clients = {c1, c2}
  Calls <- MCCalls
  Kids = {1, 2}
  Attempts = 2
  CacheSize = 1
  MaxFaults = 2
  Lines = 3
INVARIANTS
  OneChargePerCall
  SpentTokensVerified
PROPERTIES
  CallsAndExitEnd
CHECK_DEADLOCK FALSE
