------------------------------ MODULE HttpService ------------------------------
(***************************************************************************)
(* The two HTTP roles of src/examples/http_access/service.py and what      *)
(* calls them: rpc() with its exact retries, do_POST, dispatch, the nested *)
(* call of the publisher to the issuer, the dropped responses of the       *)
(* tests, Fixture.__exit__, and the publisher's Consumer of signing.py.    *)
(* Every exchange has a thread of its own at the server, which runs on     *)
(* when its caller gave up.  The ledger (HttpLedger) is its rows: a        *)
(* request that has one is answered from it.                               *)
(***************************************************************************)
EXTENDS Integers, Sequences, SequencesExt, FiniteSets

CONSTANTS
  Clients,
  Calls,       \* what the clients may ask: [path, buyer, request, ask, token]
  Kids,        \* keys of the issuer
  Attempts,    \* of rpc()
  CacheSize,   \* tokens a consumer remembers
  MaxFaults,   \* bound: timeouts, drops and failures of the ledger
  Lines,       \* bound: connections of a client at once, given up ones included
  NoToken

ASSUME HttpServiceAssumption ==
  /\ Attempts \in Nat \ {0} /\ CacheSize \in Nat \ {0}
  /\ MaxFaults \in Nat /\ Lines \in Nat /\ MaxFaults < Lines
  /\ \A call \in Calls : call.path \in {"/access", "/issue", "/cancel-many"}

VARIABLES
  client,  \* of each client: its call, the attempts of this rpc, its line, the outcome
  link,    \* of each exchange: where it is and what came of it
  rows,    \* the ledger
  pins, cache, \* of the consumer
  exit,    \* how far __exit__ has come
  faults   \* left

vars == <<client, link, rows, pins, cache, exit, faults>>

\* An exchange <<c, i>> is a client's, <<c, i, j>> that of the publisher's handler
\* of <<c, i>> with the issuer.
Outer == Clients \X (1 .. Lines)
Inner == Clients \X (1 .. Lines) \X (1 .. Attempts)

CallOf(x) == client[x[1]].call
Role(x)   == IF Len(x) = 2 /\ CallOf(x).path = "/access" THEN "publisher" ELSE "issuer"

\* sent: in the backlog; spending: in the nested rpc, at attempt tries; ran, with
\* a status; lost: no answer will come.  caller: waits, is late (its
\* timeout has passed) or gone on.
Unused == [at |-> "unused", status |-> 0, caller |-> "waits", tries |-> 0]
Served == {"working", "spending", "ran"}
Ended  == {"answered", "lost"}

Serving(role) == {x \in Outer \cup Inner : link[x].at \in Served /\ Role(x) = role}

-------------------------------------------------------------------------------
Ready == [call |-> NoToken, tries |-> 0, line |-> 1, outcome |-> "none"]

Init ==
  /\ client = [c \in Clients |-> Ready]
  /\ link = [x \in Outer \cup Inner |-> Unused]
  /\ rows = {}
  /\ pins \in {{k} : k \in Kids} /\ cache = {}
  /\ exit = "open"
  /\ faults = MaxFaults

Accepting(role) == exit = "open" \/ (role = "publisher" /\ exit = "issuer")

\* A new connection, refused by a server that is shut down.
Sent(role) == [Unused EXCEPT !.at = IF Accepting(role) THEN "sent" ELSE "lost"]

RoleOfPath(path) == IF path = "/access" THEN "publisher" ELSE "issuer"

\* A line with nothing left of an earlier exchange.
Free(c) ==
  {i \in 1 .. Lines : link[<<c, i>>] = Unused /\ \A j \in 1 .. Attempts : link[<<c, i, j>>] = Unused}
FreeLine(c) == CHOOSE i \in Free(c) : TRUE

\* A client begins a call, or one that failed again with the same arguments.
Start(c, call) ==
  /\ client[c] = Ready \/ (client[c].outcome = "failed" /\ call = client[c].call)
  /\ Free(c) # {}
  /\ client' = [client EXCEPT ![c] = [call |-> call, tries |-> 1, line |-> FreeLine(c), outcome |-> "none"]]
  /\ link' = [link EXCEPT ![<<c, FreeLine(c)>>] = Sent(RoleOfPath(call.path))]
  /\ UNCHANGED <<rows, pins, cache, exit, faults>>

Fault == faults > 0 /\ faults' = faults - 1

\* A caller waits 15 seconds at most: its attempt fails, the handler runs on.
TimeOut(x) ==
  /\ link[x].at \in {"sent"} \cup Served /\ link[x].caller = "waits"
  /\ Fault
  /\ link' = [link EXCEPT ![x].caller = "late"]
  /\ UNCHANGED <<client, rows, pins, cache, exit>>

Accept(x) ==
  /\ link[x].at = "sent" /\ Accepting(Role(x))
  /\ link' = [link EXCEPT ![x].at = "working"]
  /\ UNCHANGED <<client, rows, pins, cache, exit, faults>>

-------------------------------------------------------------------------------
(* The issuer. *)

\* Mutant: each attempt is a request of its own.
RowOf_PerAttempt(x) == [path |-> CallOf(x).path, buyer |-> CallOf(x).buyer, ask |-> CallOf(x).ask,
                        request |-> ToString(x), token |-> CallOf(x).token]

\* What an exchange asks the ledger for; rpc() sends the same body every time.
RowOf(x) == CallOf(x)

\* Mutant: a request that is repeated is judged as if it were new.
Recorded_Never(row) == FALSE

Recorded(row) == row \in rows

SameId(row) == {r \in rows : r.path = row.path /\ r.buyer = row.buyer /\ r.request = row.request}

\* The ledger compares the token with the one it issued.
Issued(row) ==
  row.token # NoToken => row.token.genuine /\ row.token.buyer = row.buyer /\ row.token.book = row.ask

\* A book entry is spent once; an account buys as often as it is asked.
ItemSpent(row) ==
  row.path = "/access" /\ row.token # NoToken /\ \E r \in rows : r.ask = row.ask /\ r.token = row.token

\* The ledger answers an exact retry, refuses (also for want of funds, or after
\* expiry or revocation), commits, or fails without a trace.
IssuerRuns(x) ==
  /\ link[x].at = "working" /\ Role(x) = "issuer"
  /\ \/ /\ Recorded(RowOf(x))
        /\ link' = [link EXCEPT ![x].at = "ran", ![x].status = 200]
        /\ UNCHANGED <<rows, faults>>
     \/ /\ ~Recorded(RowOf(x)) /\ SameId(RowOf(x)) = {}
        /\ Issued(RowOf(x)) /\ ~ItemSpent(RowOf(x))
        /\ link' = [link EXCEPT ![x].at = "ran", ![x].status = 200]
        /\ rows' = rows \cup {RowOf(x)}
        /\ UNCHANGED faults
     \/ /\ ~Recorded(RowOf(x))
        /\ link' = [link EXCEPT ![x].at = "ran", ![x].status = 400]
        /\ UNCHANGED <<rows, faults>>
     \/ /\ Fault
        /\ link' = [link EXCEPT ![x].at = "ran", ![x].status = 503]
        /\ UNCHANGED rows
  /\ UNCHANGED <<client, pins, cache, exit>>

-------------------------------------------------------------------------------
(* The publisher. *)

\* Mutant: a token that is remembered is not compared with the request.
Named_NotOnHit(token, call) == token \in cache \/ (token.buyer = call.buyer /\ token.book = call.ask)

Named(token, call) == token.buyer = call.buyer /\ token.book = call.ask

\* A signature of a pinned key over the claims the profile requires.
Verifies(token) == token.genuine /\ token.kid \in pins

Admitted(call) ==
  call.token # NoToken => (call.token \in cache \/ Verifies(call.token)) /\ Named(call.token, call)

Room == IF Cardinality(cache) >= CacheSize THEN {} ELSE cache

Remembered(call) ==
  IF call.token = NoToken \/ call.token \in cache \/ ~Verifies(call.token) THEN cache
  ELSE Room \cup {call.token}

\* /access: the token, if there is one, then the first attempt of the spend.
PublisherRuns(x) ==
  /\ link[x].at = "working" /\ Role(x) = "publisher"
  /\ cache' = Remembered(CallOf(x))
  /\ link' = IF Admitted(CallOf(x))
             THEN [link EXCEPT ![x].at = "spending", ![x].tries = 1, ![Append(x, 1)] = Sent("issuer")]
             ELSE [link EXCEPT ![x].at = "ran", ![x].status = 400]
  /\ UNCHANGED <<client, rows, pins, exit, faults>>

\* The response goes out, or it is the one the fixture drops, after the commit.
Reply(x) ==
  /\ link[x].at = "ran"
  /\ \/ /\ link' = IF link[x].caller = "gone" THEN [link EXCEPT ![x] = Unused] ELSE [link EXCEPT ![x].at = "answered"]
        /\ UNCHANGED faults
     \/ /\ link[x].status = 200 /\ link[x].caller = "waits" /\ Fault
        /\ link' = [link EXCEPT ![x].at = "lost"]
  /\ UNCHANGED <<client, rows, pins, cache, exit>>

-------------------------------------------------------------------------------
(* rpc(), for a client and for the publisher's handler. *)

\* A lost answer, a timeout or a 503 is tried again, up to the last attempt.
Again(x, tries) ==
  /\ tries < Attempts
  /\ link[x].caller = "late" \/ link[x].at = "lost" \/ link[x].status = 503

\* Mutant: a connection that breaks is waited for.
Over_Answered(x) == link[x].at = "answered" \/ link[x].caller = "late"

Over(x) == link[x].at \in Ended \/ link[x].caller = "late"

\* Mutant: whatever is answered is taken for a result.
Succeeded_Any(x) == link[x].caller = "waits" /\ link[x].at = "answered"

Succeeded(x) == link[x].caller = "waits" /\ link[x].at = "answered" /\ link[x].status = 200

\* What a caller leaves of an exchange: its handler, if that is still at work.
Behind(x) == IF link[x].at \in Ended THEN Unused ELSE [link[x] EXCEPT !.caller = "gone"]

\* The client's rpc goes on, or returns or raises.
ClientReturns(c) ==
  /\ client[c].tries > 0 /\ client[c].outcome = "none"
  /\ LET x == <<c, client[c].line>> IN
     /\ Over(x)
     /\ IF Again(x, client[c].tries)
        THEN /\ Free(c) # {}
             /\ client' = [client EXCEPT ![c].tries = @ + 1, ![c].line = FreeLine(c)]
             /\ link' = [link EXCEPT ![x] = Behind(x), ![<<c, FreeLine(c)>>] = Sent(Role(x))]
        ELSE /\ client' = [client EXCEPT ![c].outcome = IF Succeeded(x) THEN "receipt" ELSE "failed"]
             /\ link' = [link EXCEPT ![x] = Behind(x)]
  /\ UNCHANGED <<rows, pins, cache, exit, faults>>

\* The handler's rpc: its answer becomes the handler's, an error a 503.
SpendReturns(x) ==
  /\ link[x].at = "spending"
  /\ LET j == link[x].tries
         y == Append(x, j)
     IN /\ Over(y)
        /\ link' = IF Again(y, j)
                   THEN [link EXCEPT ![x].tries = @ + 1, ![y] = Behind(y), ![Append(x, j + 1)] = Sent("issuer")]
                   ELSE [link EXCEPT ![x].at = "ran", ![x].tries = 0, ![y] = Behind(y),
                           ![x].status = IF link[y].caller = "late" \/ link[y].at = "lost" THEN 503 ELSE link[y].status]
  /\ UNCHANGED <<client, rows, pins, cache, exit, faults>>

-------------------------------------------------------------------------------
Rotate ==
  /\ \E k \in Kids \ pins : pins' = pins \cup {k}
  /\ UNCHANGED <<client, link, rows, cache, exit, faults>>

\* Mutant: the handlers of a server are not joined.
Joined_Never(role) == role \in {"issuer", "publisher"}

Joined(role) == Serving(role) = {}

\* Mutant: the listening socket stays open.
Reset_Kept(role) == link

\* What waited in the backlog of a server is reset when its socket is closed.
Reset(role) ==
  [x \in DOMAIN link |->
     IF link[x].at # "sent" \/ Role(x) # role THEN link[x]
     ELSE IF link[x].caller = "gone" THEN Unused ELSE [link[x] EXCEPT !.at = "lost"]]

\* shutdown() and server_close() of the issuer, then of the publisher, then
\* ledger.close().
Exit ==
  /\ \/ exit = "open" /\ exit' = "issuer" /\ link' = Reset("issuer")
     \/ exit = "issuer" /\ Joined("issuer") /\ exit' = "publisher" /\ link' = Reset("publisher")
     \/ exit = "publisher" /\ Joined("publisher") /\ exit' = "closed" /\ UNCHANGED link
  /\ UNCHANGED <<client, rows, pins, cache, faults>>

Serve(x) == Accept(x) \/ IssuerRuns(x) \/ PublisherRuns(x) \/ SpendReturns(x) \/ Reply(x)

Next ==
  \/ \E c \in Clients : ClientReturns(c) \/ \E call \in Calls : Start(c, call)
  \/ \E x \in Outer \cup Inner : TimeOut(x) \/ Serve(x)
  \/ Rotate \/ Exit

\* The servers serve and rpc() goes on; a client repeats a call that failed.
\* Nobody has to begin a call, to rotate or to leave, and no fault must happen;
\* __exit__ goes on once it began.
Fairness ==
  /\ \A c \in Clients : WF_vars(ClientReturns(c)) /\ WF_vars(client[c].outcome = "failed" /\ Start(c, client[c].call))
  /\ \A x \in Outer \cup Inner : WF_vars(Serve(x))
  /\ WF_vars(exit # "open" /\ Exit)

Spec == Init /\ [][Next]_vars /\ Fairness

-------------------------------------------------------------------------------
TypeOK ==
  /\ \A c \in Clients : /\ client[c].tries \in 0 .. Attempts /\ client[c].line \in 1 .. Lines
                        /\ client[c].outcome \in {"none", "receipt", "failed"}
  /\ \A x \in Outer \cup Inner :
       link[x].at \in {"unused", "sent"} \cup Served \cup Ended /\ link[x].status \in {0, 200, 400, 503}
  /\ pins \subseteq Kids /\ Cardinality(cache) <= CacheSize
  /\ exit \in {"open", "issuer", "publisher", "closed"} /\ faults \in 0 .. MaxFaults

\* However often a call was tried, at both of its levels, and whatever was lost
\* or came late, the ledger has at most one row for each request of a buyer.
ChargesAreCalls ==
  LET Name(call) == <<call.path, call.buyer, call.request>>
  IN Cardinality(rows) <= Cardinality({Name(client[c].call) : c \in {d \in Clients : client[d] # Ready}})

\* A client that has its receipt was charged for this very call.
ReceiptsAreCommitted == \A c \in Clients : client[c].outcome = "receipt" => client[c].call \in rows

\* Nothing is spent for a token that is not genuine, of a key pinned by now, and
\* the requester's own, whether the consumer looked at it or remembered it.
SpentTokensVerified ==
  \A x \in Inner : link[x].at # "unused" /\ CallOf(x).token # NoToken =>
    LET token == CallOf(x).token IN
    token.genuine /\ token.kid \in pins /\ token.buyer = CallOf(x).buyer /\ token.book = CallOf(x).ask

\* ledger.close() comes when no handler of either server is at work, so it is
\* never refused and nobody uses a closed ledger.
ClosedMeansQuiet ==
  exit = "closed" => \A x \in Outer \cup Inner : link[x].at \notin Served \cup {"sent"}

\* Every call comes to an end, with a receipt or an error.
EveryCallEnds == \A c \in Clients : client[c].tries > 0 /\ client[c].outcome = "none" ~> client[c].outcome # "none"

\* Leaving comes to an end, whatever calls are under way.
ExitEnds == exit # "open" ~> exit = "closed"

\* What was charged is delivered: a client that repeats its call while the
\* service is up gets the receipt of what was committed for it.
ChargedIsDelivered ==
  \A c \in Clients :
    client[c].tries > 0 /\ client[c].call \in rows ~> client[c].outcome = "receipt" \/ exit # "open"

\* The charges: one for each request, and behind each receipt.
OneChargePerCall == TypeOK /\ ChargesAreCalls /\ ReceiptsAreCommitted

\* The ends: of calls, with what was charged, and of the service, with nobody at
\* work on the ledger that it closes.
CallsAndExitEnd == EveryCallEnds /\ ChargedIsDelivered /\ ExitEnds /\ []ClosedMeansQuiet
===============================================================================
