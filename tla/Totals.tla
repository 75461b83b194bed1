-------------------------------- MODULE Totals --------------------------------
(***************************************************************************)
(* The sum of the naturals f[x] over a finite set, SUM(...) in the SQL of  *)
(* the ledgers.  It is written as the size of a disjoint union, f[x]       *)
(* tallies for each x, and not by recursion, so that a proof can use it.   *)
(***************************************************************************)
EXTENDS Integers, FiniteSets

Tallies(f, x) == {x} \X (1 .. f[x])

Total(f, S) == Cardinality(UNION {Tallies(f, x) : x \in S})
===============================================================================
