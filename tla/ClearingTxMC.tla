------------------------------ MODULE ClearingTxMC ------------------------------
(* Small instances of ClearingTx for TLC.                                         *)
EXTENDS ClearingTx

CONSTANTS alice, pub, res, req1, req2, edition, book1, book2, auth, proc1, proc2, none

\* A buyer with three units, and a publisher who offers one resource for one.
MCOffer == [edition |-> edition, units |-> 1, validUntil |-> 3]

MCStart ==
  LET seeded == AfterSeed(EmptyDb, alice, 3)
  IN AfterSetOffer(seeded, pub, res, MCOffer)

MCIssueCalls ==
  {[buyer |-> alice, publisher |-> pub, resources |-> {res}, maxUnits |-> 1,
    request |-> request, ttl |-> MaxTtl] : request \in Requests}

MCPurchaseCalls ==
  {[buyer |-> alice, publisher |-> pub, resource |-> res, edition |-> edition,
    maxUnits |-> 1, request |-> request] : request \in Requests}

MCSymmetry == Permutations(BookIds) \cup Permutations(Callers)
================================================================================
