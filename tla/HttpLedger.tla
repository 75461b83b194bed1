------------------------------ MODULE HttpLedger ------------------------------
(***************************************************************************)
(* The issuer's ledger of the HTTP reference                               *)
(* (src/examples/http_access/ledger.py) with the signing keys it calls     *)
(* (class Keys of signing.py).  Handler threads share one SQLite database  *)
(* and serialize on its write transactions; each transaction is one step   *)
(* and one that raises leaves no trace.  Issuance is three steps: a read   *)
(* transaction that looks for the answer of an earlier attempt, the        *)
(* signatures, made under no database lock, and the transaction that       *)
(* rechecks and reserves.                                                  *)
(*                                                                         *)
(* The catalog never changes: an offer is its units.  A token is its book  *)
(* with the key that signed it, a fingerprint the arguments it digests.    *)
(* The clock is any clock: each reading is any of Times.  The constraints  *)
(* of the schema are left out: the invariants show that the code's own     *)
(* checks never run into them.                                             *)
(***************************************************************************)
EXTENDS Totals, Sequences

CONSTANTS
  Workers, Buyers, Requests, Resources, BookIds,
  Catalog,   \* the units of each resource
  Batches,   \* the ready batches asked for: one set of resources per book
  Balances, MaxUnits, Ttls, Times,
  LastEpoch, \* bound: rotations of the key
  NoBook, Idle

Positive == Nat \ {0}

ASSUME HttpLedgerAssumption ==
  /\ Catalog \in [Resources -> Positive]
  /\ Batches \subseteq Seq(SUBSET Resources)
  /\ Balances \subseteq Positive /\ MaxUnits \subseteq Positive
  /\ Ttls \subseteq Positive /\ Times \subseteq Nat
  /\ LastEpoch \in Positive
  /\ NoBook \notin BookIds
  /\ IsFiniteSet(Resources)                    \* the catalog is a file
  /\ \E m \in Balances : \A n \in Balances : n <= m  \* seed takes 10**12 at most

VARIABLES
  db,       \* the committed database
  keys,     \* Keys: the epoch signed with and the kids pinned for the consumer
  pending,  \* what each worker is issuing
  answered  \* history: the answers that carry a request id, as they were sent

vars == <<db, keys, pending, answered>>

Kids       == 1 .. LastEpoch
Account    == [initial : Nat, available : Nat, reserved : Nat, spent : Nat]
IssueCall  == [buyer : Buyers, request : Requests, books : Batches, maxUnits : MaxUnits, ttl : Ttls]
SpendCall  == [buyer : Buyers, request : Requests, resource : Resources, maxUnits : MaxUnits,
               book : BookIds \cup {NoBook}]
CancelCall == [buyer : Buyers, request : Requests, books : (SUBSET BookIds) \ {{}}]
Book       == [buyer : Buyers, kid : Kids, issued : Nat, expires : Nat, remaining : Nat,
               closed : BOOLEAN, items : SUBSET Resources]

EmptyDb ==
  [accounts |-> [u \in Buyers |-> [initial |-> 0, available |-> 0, reserved |-> 0, spent |-> 0]],
   books |-> [b \in {} |-> {}], issues |-> {}, receipts |-> {}, cancellations |-> {},
   revoked |-> {}, accrued |-> 0]

Units(rs)  == Total(Catalog, rs)
BatchUnits(books) == Total([i \in DOMAIN books |-> Units(books[i])], DOMAIN books)

\* The rows of a table that an exact retry is answered from.
Prior(rows, c) == {x \in rows : x.call.buyer = c.buyer /\ x.call.request = c.request}

-------------------------------------------------------------------------------
Init ==
  /\ db = EmptyDb
  /\ keys = [epoch |-> 1, pins |-> {1}]
  /\ pending = [w \in Workers |-> Idle]
  /\ answered = {}

Seed(u, units) ==
  /\ db.accounts[u].initial = 0
  /\ db' = [db EXCEPT !.accounts[u].initial = units, !.accounts[u].available = units]
  /\ UNCHANGED <<keys, pending, answered>>

\* Mutant: the CPU's increment follows the GPU's load as well.
NextEpoch_Twice(epoch) == epoch + 2

\* What load_key grants to the holder of this epoch, and the CPU counts itself.
NextEpoch(epoch) == epoch + 1

\* Mutant: only the current key stays pinned.
Pinned_Last(pins, kid) == {kid}

\* The pins of retired keys stay.
Pinned(pins, kid) == pins \cup {kid}

Rotate ==
  /\ keys.epoch < LastEpoch
  /\ keys' = [epoch |-> NextEpoch(keys.epoch), pins |-> Pinned(keys.pins, NextEpoch(keys.epoch))]
  /\ UNCHANGED <<db, pending, answered>>

Revoke(kid) ==
  /\ db' = [db EXCEPT !.revoked = @ \cup {kid}]
  /\ UNCHANGED <<keys, pending, answered>>

Send(x) == answered' = answered \cup {x}

\* An exact retry is answered from its row; with other arguments it is refused.
AnswerPrior(rows, c) ==
  \E x \in Prior(rows, c) : x.call = c /\ Send(x) /\ UNCHANGED db

-------------------------------------------------------------------------------
\* Ids no book and no call in progress has: secrets.token_hex(16).
FreshIds(n) ==
  LET taken == DOMAIN db.books \cup
               UNION {{pending[w].ids[i] : i \in DOMAIN pending[w].ids} :
                        w \in {v \in Workers : pending[v] # Idle}}
  IN {s \in [1 .. n -> BookIds \ taken] : \A i, j \in 1 .. n : i # j => s[i] # s[j]}

\* issue() up to the claims.
Prepare(w, c) ==
  /\ pending[w] = Idle
  /\ \/ AnswerPrior(db.issues, c) /\ UNCHANGED pending
     \/ /\ Prior(db.issues, c) = {}
        /\ BatchUnits(c.books) <= c.maxUnits
        /\ \E now \in Times, ids \in FreshIds(Len(c.books)) :
             pending' = [pending EXCEPT ![w] = [call |-> c, now |-> now, ids |-> ids, kid |-> 0]]
        /\ UNCHANGED <<db, answered>>
  /\ UNCHANGED keys

\* Keys.sign, under the lock that rotate takes: tokens of the current key for
\* all the claims, or an exception and no tokens.
Sign(w) ==
  /\ pending[w] # Idle /\ pending[w].kid = 0
  /\ \E result \in {Idle, [pending[w] EXCEPT !.kid = keys.epoch]} :
       pending' = [pending EXCEPT ![w] = result]
  /\ UNCHANGED <<db, keys, answered>>

\* Mutant: the second lookup is left out.
StillNew_Unchecked(p) == p.call.books \in Batches

\* Mutant: revoked is not read again.
KeyInForce_Unchecked(x) == x.kid \in Kids

\* Mutant: the UPDATE has no available>=?.
StillFunded_Unchecked(p) == p.call.maxUnits \in MaxUnits

\* What the committing transaction checks once more.
StillNew(p)      == Prior(db.issues, p.call) = {}
KeyInForce(x)    == x.kid \notin db.revoked
InTime(p, clock) == p.now <= clock /\ clock < p.now + p.call.ttl
StillFunded(p)   == BatchUnits(p.call.books) <= db.accounts[p.call.buyer].available

Reservable(p, clock) ==
  StillNew(p) /\ InTime(p, clock) /\ KeyInForce(p) /\ StillFunded(p)

\* Mutant: every book of a batch is given the units of the whole batch.
NewBook_WholeBatch(p, i) ==
  [buyer |-> p.call.buyer, kid |-> p.kid, issued |-> p.now, expires |-> p.now + p.call.ttl,
   remaining |-> BatchUnits(p.call.books), closed |-> FALSE, items |-> p.call.books[i]]

\* Mutant: the manifests are zipped with the first group.
NewBook_FirstGroup(p, i) ==
  [buyer |-> p.call.buyer, kid |-> p.kid, issued |-> p.now, expires |-> p.now + p.call.ttl,
   remaining |-> Units(p.call.books[1]), closed |-> FALSE, items |-> p.call.books[1]]

NewBook(p, i) ==
  [buyer |-> p.call.buyer, kid |-> p.kid, issued |-> p.now, expires |-> p.now + p.call.ttl,
   remaining |-> Units(p.call.books[i]), closed |-> FALSE, items |-> p.call.books[i]]

AfterIssue(p) ==
  LET total == BatchUnits(p.call.books)
      new   == {p.ids[i] : i \in DOMAIN p.ids}
  IN [db EXCEPT
        !.accounts[p.call.buyer].available = @ - total,
        !.accounts[p.call.buyer].reserved = @ + total,
        !.books = [b \in DOMAIN db.books \cup new |->
                     IF b \in new THEN NewBook(p, CHOOSE i \in DOMAIN p.ids : p.ids[i] = b)
                                  ELSE db.books[b]],
        !.issues = @ \cup {[call |-> p.call, books |-> p.ids]}]

\* The write transaction of issue().
Reserve(w) ==
  /\ pending[w] # Idle /\ pending[w].kid # 0
  /\ LET p == pending[w]
     IN \/ AnswerPrior(db.issues, p.call)
        \/ \E clock \in Times :
             IF Reservable(p, clock)
             THEN db' = AfterIssue(p) /\ Send([call |-> p.call, books |-> p.ids])
             ELSE /\ p.call \notin {x.call : x \in db.issues}
                  /\ UNCHANGED <<db, answered>>
  /\ pending' = [pending EXCEPT ![w] = Idle]
  /\ UNCHANGED keys

-------------------------------------------------------------------------------
\* Mutant: the rows are looked up by id only.
OwnBooks_Anyone(u, bs) == bs \subseteq DOMAIN db.books

OwnBooks(u, bs) == \A b \in bs : b \in DOMAIN db.books /\ db.books[b].buyer = u

\* Mutant: a cancelled book still sells.
Unclosed_Ignored(row) == row.closed \in BOOLEAN

Unclosed(row) == ~row.closed

NoPriorReceipt(c) == Prior(db.receipts, c) = {}

\* Mutant: an item is looked up under the caller's request id.
ItemUnspent_OwnRequest(c) == NoPriorReceipt(c)

ItemUnspent(c) == \A x \in db.receipts : x.call.book # c.book \/ x.call.resource # c.resource

\* A book pays for one of its resources, in time and under a key in force.
Spendable(c, token, clock) ==
  /\ OwnBooks(c.buyer, {c.book})
  /\ LET row == db.books[c.book]
     IN /\ token = [book |-> c.book, kid |-> row.kid]
        /\ Unclosed(row) /\ row.issued <= clock /\ clock < row.expires
        /\ KeyInForce(row)
        /\ c.resource \in row.items
  /\ ItemUnspent(c)

\* The receipt is stamped with another reading of the clock.
AfterSpend(c, from, at) ==
  LET units   == Catalog[c.resource]
      account == [db.accounts[c.buyer] EXCEPT ![from] = @ - units, !.spent = @ + units]
      books   == IF c.book = NoBook THEN db.books
                 ELSE [db.books EXCEPT ![c.book].remaining = @ - units]
  IN [db EXCEPT !.accounts[c.buyer] = account, !.books = books, !.accrued = @ + units,
                !.receipts = @ \cup {[call |-> c, units |-> units, at |-> at]}]

\* spend(): the token is compared with the stored one, it is not part of the
\* fingerprint.
Spend(c, token) ==
  /\ \/ AnswerPrior(db.receipts, c)
     \/ /\ NoPriorReceipt(c)
        /\ Catalog[c.resource] <= c.maxUnits
        /\ \E clock, at \in Times, from \in {"reserved", "available"} :
             /\ \/ from = "reserved" /\ c.book # NoBook /\ Spendable(c, token, clock)
                \/ from = "available" /\ c.book = NoBook
                   /\ Catalog[c.resource] <= db.accounts[c.buyer].available
             /\ db' = AfterSpend(c, from, at)
             /\ Send([call |-> c, units |-> Catalog[c.resource], at |-> at])
  /\ UNCHANGED <<keys, pending>>

-------------------------------------------------------------------------------
Remaining(bs) == Total([b \in bs |-> db.books[b].remaining], bs)

\* Mutant: what remains of a cancelled book stays in its row.
Closed_Keeps(row) == [row EXCEPT !.closed = TRUE]

Closed(row) == [row EXCEPT !.remaining = 0, !.closed = TRUE]

AfterCancel(u, bs) ==
  [db EXCEPT
     !.accounts[u].reserved = @ - Remaining(bs), !.accounts[u].available = @ + Remaining(bs),
     !.books = [b \in DOMAIN db.books |-> IF b \in bs THEN Closed(db.books[b]) ELSE db.books[b]]]

\* cancel() has no request id: repeated, it releases 0 more.
Cancel(u, b) ==
  /\ OwnBooks(u, {b})
  /\ db' = AfterCancel(u, {b})
  /\ UNCHANGED <<keys, pending, answered>>

\* cancel_many(): one unknown book refuses the whole set.
CancelMany(c) ==
  /\ \/ AnswerPrior(db.cancellations, c)
     \/ /\ Prior(db.cancellations, c) = {}
        /\ OwnBooks(c.buyer, c.books)
        /\ LET answer == [call |-> c, released |-> Remaining(c.books)]
           IN /\ db' = [AfterCancel(c.buyer, c.books) EXCEPT !.cancellations = @ \cup {answer}]
              /\ Send(answer)
  /\ UNCHANGED <<keys, pending>>

Next ==
  \/ Rotate
  \/ \E kid \in Kids : Revoke(kid)
  \/ \E u \in Buyers, units \in Balances : Seed(u, units)
  \/ \E w \in Workers, c \in IssueCall : Prepare(w, c)
  \/ \E w \in Workers : Sign(w) \/ Reserve(w)
  \/ \E c \in SpendCall, kid \in Kids : Spend(c, [book |-> c.book, kid |-> kid])
  \/ \E u \in Buyers, b \in BookIds : Cancel(u, b)
  \/ \E c \in CancelCall : CancelMany(c)

Spec == Init /\ [][Next]_vars
-------------------------------------------------------------------------------
Pendings == {Idle} \cup
  [call : IssueCall, now : Times, ids : Seq(BookIds), kid : 0 .. LastEpoch]

TypeOK ==
  /\ db.accounts \in [Buyers -> Account]
  /\ DOMAIN db.books \subseteq BookIds /\ db.books \in [DOMAIN db.books -> Book]
  /\ db.revoked \subseteq Kids /\ db.accrued \in Nat
  /\ \A x \in db.issues : x.call \in IssueCall /\ x.books \in Seq(BookIds)
  /\ \A x \in db.receipts : x.call \in SpendCall
  /\ \A x \in db.cancellations : x.call \in CancelCall /\ x.released \in Nat
  /\ keys \in [epoch : Kids, pins : SUBSET Kids]
  /\ \A w \in Workers : pending[w] \in Pendings

\* audit(): what is reserved is what the books hold, what is spent is what the
\* receipts say, and the publisher accrued exactly that.
BooksOf(u)    == {b \in DOMAIN db.books : db.books[b].buyer = u}
ReceiptsOf(u) == {x \in db.receipts : x.call.buyer = u}
SpentOn(rs)   == Total([x \in rs |-> x.units], rs)

AuditHolds ==
  /\ \A u \in Buyers : /\ db.accounts[u].reserved = Remaining(BooksOf(u))
                       /\ db.accounts[u].spent = SpentOn(ReceiptsOf(u))
  /\ db.accrued = SpentOn(db.receipts)

\* A book holds the units of its resources without a receipt until it is
\* cancelled, by itself or in a set, and nothing afterwards.
UnspentItems(b) ==
  {r \in db.books[b].items : \A x \in db.receipts : x.call.book # b \/ x.call.resource # r}

RemainingIsUnspent ==
  \A b \in DOMAIN db.books :
    db.books[b].remaining = IF db.books[b].closed THEN 0 ELSE Units(UnspentItems(b))

\* Whatever was committed while the batch was being signed, an issuance is whole:
\* the books of an answer are all there, each with the resources asked for, no
\* book exists outside an answer, and the batch fits its budget.
IssuesAreWhole ==
  /\ \A x \in db.issues :
       /\ Len(x.books) = Len(x.call.books)
       /\ \A i \in DOMAIN x.books :
            /\ x.books[i] \in BooksOf(x.call.buyer)
            /\ db.books[x.books[i]].items = x.call.books[i]
       /\ BatchUnits(x.call.books) <= x.call.maxUnits
  /\ \A b \in DOMAIN db.books :
       \E x \in db.issues : \E i \in DOMAIN x.books :
         /\ x.books[i] = b
         /\ \A y \in db.issues : \A j \in DOMAIN y.books : y.books[j] = b => y = x /\ j = i

\* A receipt is for a resource of a book of its buyer, and an item has one.
ReceiptsMatchBooks ==
  \A x \in db.receipts : x.call.book # NoBook =>
    /\ x.call.book \in BooksOf(x.call.buyer)
    /\ x.call.resource \in db.books[x.call.book].items
    /\ \A y \in db.receipts :
         y.call.book = x.call.book /\ y.call.resource = x.call.resource => y = x

\* A fresh spend was committed, by its own stamp, before the expiry of its book:
\* after it only old receipts are answered.
FreshSpendBeforeExpiry ==
  \A x \in db.receipts : x.call.book # NoBook => x.at < db.books[x.call.book].expires

\* The answers that were sent for one request id are one answer, to one call,
\* and what they say is committed: retries and concurrent attempts of an
\* issuance included.
AnswersAgree ==
  /\ answered \subseteq db.issues \cup db.receipts \cup db.cancellations
  /\ \A rows \in {db.issues, db.receipts, db.cancellations} : \A x, y \in rows :
       x.call.buyer = y.call.buyer /\ x.call.request = y.call.request => x = y

\* Every token the ledger hands out or may still commit is by a key the
\* publisher's consumer has pinned, through any rotation.
TokensVerifiable ==
  /\ \A b \in DOMAIN db.books : db.books[b].kid \in keys.pins
  /\ \A w \in Workers : pending[w] # Idle /\ pending[w].kid # 0 => pending[w].kid \in keys.pins

\* Under a revoked key no book is sold and none spends, although its tokens may
\* have been signed, or verified by the publisher, before.
RevocationIsFinal ==
  [][/\ db.revoked \subseteq db'.revoked
     /\ \A b \in DOMAIN db'.books \ DOMAIN db.books : db'.books[b].kid \notin db.revoked
     /\ \A x \in db'.receipts \ db.receipts :
          x.call.book # NoBook => db.books[x.call.book].kid \notin db.revoked]_vars

\* Answers are never taken back, and a cancelled book never spends again.
CommittedIsPermanent ==
  [][/\ db.issues \subseteq db'.issues
     /\ db.receipts \subseteq db'.receipts
     /\ db.cancellations \subseteq db'.cancellations
     /\ \A b \in DOMAIN db.books : db.books[b].closed =>
          /\ db'.books[b].closed
          /\ \A x \in db'.receipts \ db.receipts : x.call.book # b]_vars

\* The ledger keeps the promise of a prepaid account; no step moves more units
\* than an account was opened with.
Largest == CHOOSE m \in Balances : \A n \in Balances : n <= m

Prepaid == INSTANCE PrepaidAccess WITH
  Amounts <- 0 .. Largest,
  funds   <- [u \in Buyers |-> [available |-> db.accounts[u].available,
                                reserved  |-> db.accounts[u].reserved,
                                spent     |-> db.accounts[u].spent]],
  granted <- {[buyer |-> x.call.buyer, request |-> x.call.request, units |-> x.units] :
                x \in db.receipts}

KeepsPrepaid == Prepaid!Spec

\* The money of accounts, books and receipts adds up.
MoneyAddsUp == TypeOK /\ AuditHolds /\ RemainingIsUnspent /\ ReceiptsMatchBooks

\* What is issued is the batch that was asked for, with tokens that verify.
IssuesAreGood == IssuesAreWhole /\ TokensVerifiable

\* What is revoked, cancelled or answered stays so, and sells or spends no more.
EndsAreFinal == RevocationIsFinal /\ CommittedIsPermanent
===============================================================================
