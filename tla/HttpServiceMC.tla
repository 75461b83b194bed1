----------------------------- MODULE HttpServiceMC -----------------------------
(* HttpService on small sets of calls. *)
EXTENDS HttpService

CONSTANTS
  c1, c2,
  Scenarios  \* what the clients may ask, and how much may go wrong

VARIABLE scenario

Token(kid, buyer, book) == [genuine |-> TRUE, kid |-> kid, buyer |-> buyer, book |-> book]
Access(buyer, request, ask, token) ==
  [path |-> "/access", buyer |-> buyer, request |-> request, ask |-> ask, token |-> token]

\* One client with a book entry, or with its account only.
OneAccess == {Access("buyer", "q1", "b1", Token(1, "buyer", "b1")), Access("buyer", "q1", "b1", NoToken)}

\* Two clients: the same request, the same entry under another request, another
\* buyer with the same token, a forged one, one of the next key, and none.
Admissions ==
  {Access("buyer", "q1", "b1", Token(1, "buyer", "b1")),
   Access("buyer", "q2", "b1", Token(1, "buyer", "b1")),
   Access("other", "q1", "b1", Token(1, "buyer", "b1")),
   Access("buyer", "q2", "b1", [Token(1, "buyer", "b1") EXCEPT !.genuine = FALSE]),
   Access("other", "q2", "b2", Token(2, "other", "b2")),
   Access("buyer", "q1", "b1", NoToken)}

\* Two clients that issue, cancel and buy under one request id; the second asks
\* for what the first does or for something else.
Issue(ask) == [path |-> "/issue", buyer |-> "buyer", request |-> "q1", ask |-> ask, token |-> NoToken]
MixedFirst  == {Issue("b1"), Access("buyer", "q1", "b1", NoToken)}
MixedSecond == {Issue("b1"), Issue("b2"), [Issue("b1") EXCEPT !.path = "/cancel-many"]}

MCCalls == OneAccess \cup Admissions \cup MixedFirst \cup MixedSecond

\* The retries of one client at both levels, tokens of all kinds through a cache
\* of one while keys rotate, and calls of all kinds side by side.
CallsIn(c) ==
  CASE scenario = "retries" -> IF c = c1 THEN OneAccess ELSE {}
    [] scenario = "admission" -> Admissions
    [] scenario = "mixed" -> IF c = c1 THEN MixedFirst ELSE MixedSecond

MCInit ==
  /\ Init
  /\ scenario \in Scenarios
  /\ scenario # "admission" => pins = {1}

\* One fault among two clients.
MCNext ==
  /\ Next
  /\ UNCHANGED scenario
  /\ \A c \in Clients : client'[c] = Ready \/ client'[c].call \in CallsIn(c)
  /\ scenario # "admission" => UNCHANGED pins
  /\ scenario = "admission" => faults' = MaxFaults
  /\ scenario = "mixed" => faults' >= MaxFaults - 1

MCSpec == MCInit /\ [][MCNext]_<<vars, scenario>> /\ Fairness
===============================================================================
