----------------------------- MODULE AccessBookMC -----------------------------
(* Small instances of AccessBook for TLC.                                      *)
EXTENDS AccessBook, TLC

CONSTANTS alice, bob, pub1, pub2, res1, res2, req1, req2, book1, book2, auth1, auth2, old, new, none

\* One offer in two editions, the second dearer and sooner to lapse.
MCOffers == {[edition |-> old, units |-> 1, validUntil |-> 3],
             [edition |-> new, units |-> 2, validUntil |-> 2]}

MCBooks == {book1, book2}
MCSymmetry == Permutations(MCBooks)
===============================================================================
