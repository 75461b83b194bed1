---------------------------- MODULE PrepaidAccess ----------------------------
(***************************************************************************)
(* What a buyer with a prepaid balance is promised, whatever keeps the     *)
(* books: units are available, reserved or spent, and the step that spends *)
(* them is the one that grants the receipt, one for each of the buyer's    *)
(* requests.  Both clearing services of the examples implement this        *)
(* (src/examples/access_book/engine.py, src/examples/http_access/ledger.py)*)
(***************************************************************************)
EXTENDS Naturals

CONSTANTS
  Buyers, Requests,
  Amounts   \* the units a step may move, naturals

VARIABLES
  funds,   \* the account of each buyer
  granted  \* the receipts: who paid how much for which request

vars == <<funds, granted>>

Unopened == [available |-> 0, reserved |-> 0, spent |-> 0]

Init ==
  /\ funds = [u \in Buyers |-> Unopened]
  /\ granted = {}

\* Nothing is taken that is not there.
Move(u, from, to, n) ==
  /\ n <= funds[u][from]
  /\ funds' = [funds EXCEPT ![u][from] = @ - n, ![u][to] = @ + n]

\* A request is granted once, for the units that are spent with it.
Grant(u, q, n) ==
  /\ \A x \in granted : x.buyer # u \/ x.request # q
  /\ granted' = granted \cup {[buyer |-> u, request |-> q, units |-> n]}

Deposit(u, n) ==
  /\ funds[u] = Unopened
  /\ funds' = [funds EXCEPT ![u].available = n]
  /\ UNCHANGED granted

Reserve(u, n) == Move(u, "available", "reserved", n) /\ UNCHANGED granted

Release(u, n) == Move(u, "reserved", "available", n) /\ UNCHANGED granted

SpendReserved(u, q, n) == Move(u, "reserved", "spent", n) /\ Grant(u, q, n)

SpendAvailable(u, q, n) == Move(u, "available", "spent", n) /\ Grant(u, q, n)

Next ==
  \E u \in Buyers, n \in Amounts :
    \/ Deposit(u, n)
    \/ Reserve(u, n)
    \/ Release(u, n)
    \/ \E q \in Requests : SpendReserved(u, q, n) \/ SpendAvailable(u, q, n)

Spec == Init /\ [][Next]_vars
===============================================================================
