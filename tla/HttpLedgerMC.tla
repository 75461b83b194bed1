----------------------------- MODULE HttpLedgerMC -----------------------------
(* Small instances of HttpLedger for TLC.                                      *)
EXTENDS HttpLedger, TLC

CONSTANTS w1, w2, alice, bob, req1, req2, res1, res2, book1, book2

VARIABLE scenario

\* The first resource costs one unit, the second two.
MCCatalog == (res1 :> 1) @@ (res2 :> 2)
CheapCatalog == (res1 :> 1)

\* A book of both resources, and two books of one resource each.
MCBatches == {<<{res1, res2}>>, <<{res1}, {res2}>>}
OneBook   == {<<{res1}>>}

MCSymmetry == Permutations({w1, w2}) \cup Permutations({book1, book2})
MCBookSymmetry == Permutations({book1, book2})

\* One buyer, two requests and two workers under rotation and revocation; or two
\* buyers with one request id each and one issuance at a time.
Scenarios == {"issues", "parties"}

Calls == {x.call : x \in db.issues \cup db.receipts \cup db.cancellations}
         \cup {pending[w].call : w \in {v \in Workers : pending[v] # Idle}}

InScenario ==
  \/ /\ scenario = "issues"
     /\ db.accounts[bob].initial = 0
     /\ \A c \in Calls : c.buyer = alice
     /\ \A x \in db.cancellations : x.call.request = req1
  \/ /\ scenario = "parties"
     /\ keys.epoch = 1 /\ db.revoked = {}
     /\ \A c \in Calls : c.request = req1
     /\ \A v, w \in Workers : pending[v] = Idle \/ pending[w] = Idle \/ v = w

MCInit == Init /\ scenario \in Scenarios
MCNext == UNCHANGED scenario /\ Next /\ InScenario'
MCSpec == MCInit /\ [][MCNext]_<<vars, scenario>>
===============================================================================
