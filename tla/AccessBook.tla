------------------------------ MODULE AccessBook ------------------------------
(***************************************************************************)
(* The clearing service of the access book example                         *)
(* (src/examples/access_book/engine.py): any number of callers, each with  *)
(* a connection of its own to one SQLite database, whose write             *)
(* transactions (BEGIN IMMEDIATE) are serialized.  Each method runs in one *)
(* such transaction, reading included, so it is one step; a method that    *)
(* raises changes nothing and is no step at all.                           *)
(*                                                                         *)
(* The clock of a process may be set back, so every reading is any time.   *)
(* A process may stop between a commit and its answer, and a caller may    *)
(* repeat any call it likes: an answer that matters (a receipt) either     *)
(* reaches the caller or is lost.                                          *)
(***************************************************************************)
EXTENDS ClearingDb

CONSTANTS
  Times,         \* what Clearing.now() returns
  Balances,      \* the balances an account is seeded with
  Offers,        \* the offers a publisher makes
  Budgets,       \* the max_units of a call
  Ttls           \* the ttl of a call

ASSUME AccessBookAssumption ==
  /\ Times \subseteq Positive /\ Balances \subseteq Positive /\ Budgets \subseteq Positive
  /\ Ttls \subseteq Positive 
  /\ Offers \subseteq Offer
  /\ \E m \in Balances : \A n \in Balances : n <= m   \* MAX_UNITS bounds a balance

VARIABLES
  db,        \* the committed database
  authority, \* the key this issuer signs with and the key its consumer pins
  delivered  \* history: the receipts that reached their callers

vars == <<db, authority, delivered>>

BookTokens == [book : BookIds, signer : AuthorityKeys]
Calls   == {c \in [buyer : Buyers, publisher : Publishers, resources : SUBSET Resources,
                   maxUnits : Budgets, request : Requests, ttl : Ttls] : c.resources # {}}

-------------------------------------------------------------------------------
Init ==
  /\ db = EmptyDb
  /\ \E k \in AuthorityKeys : authority = [signs |-> k, trusts |-> k]
  /\ delivered = {}

\* A process restarts with another Authority, or with another pin.
Restart ==
  /\ authority' \in [signs : AuthorityKeys, trusts : AuthorityKeys]
  /\ UNCHANGED <<db, delivered>>

Seed(u, units) ==
  /\ CanSeed(db, u)
  /\ db' = AfterSeed(db, u, units)
  /\ UNCHANGED <<authority, delivered>>

SetOffer(p, r, offer) ==
  /\ db' = AfterSetOffer(db, p, r, offer)
  /\ UNCHANGED <<authority, delivered>>

RevokeKey ==
  /\ db' = AfterRevokeKey(db)
  /\ UNCHANGED <<authority, delivered>>

\* issue() of a new book; with a prior book it answers or refuses and changes
\* nothing.
Issue(c) ==
  /\ \E now \in Times, b \in BookIds \ DOMAIN db.books :
       /\ CanIssue(db, c, now)
       /\ db' = AfterIssue(db, c, now, b, authority.signs)
  /\ UNCHANGED <<authority, delivered>>

Activate(token, buyer, publisher) ==
  /\ \E now, later \in Times :
       CanActivate(db, token.book, token, buyer, publisher, now, later, authority.trusts)
  /\ db' = AfterActivate(db, token.book)
  /\ UNCHANGED <<authority, delivered>>

\* A receipt is answered, or its answer is lost.
Answers(receipt) == delivered' \in {delivered, delivered \cup {receipt}}

\* redeem(): a repeated request is answered with the receipt it already has.
Redeem(c) ==
  /\ \/ \E x \in PriorReceipt(db, c) :
          /\ SameRequest(x, c)
          /\ Answers(x)
          /\ UNCHANGED db
     \/ \E now \in Times :
          /\ CanRedeem(db, c, now)
          /\ db' = AfterRedeem(db, c, now)
          /\ Answers(NewReceipt(db, c, now))
  /\ UNCHANGED authority

Release(b, buyer) ==
  /\ CanRelease(db, b, buyer)
  /\ db' = AfterRelease(db, b)
  /\ UNCHANGED <<authority, delivered>>

\* purchase(): issue, activate and redeem in one transaction, each reading the
\* clock for itself.  If any of them raises, nothing is committed.  A request
\* that has a receipt skips the activation.
Purchase(c) ==
  /\ KeyOk(db)
  /\ \E b \in BookIds, issued \in {db} \cup
          {AfterIssue(db, PurchaseIssue(c), now, x, authority.signs) :
             now \in {t \in Times : CanIssue(db, PurchaseIssue(c), t)},
             x \in BookIds \ DOMAIN db.books} :
       LET rc == PurchaseRedeem(c, b)
           activated == AfterActivate(issued, b)
       IN /\ b \in DOMAIN issued.books
          /\ issued.books[b].call = PurchaseIssue(c)
          /\ \/ \E x \in PriorReceipt(issued, rc) :
                  /\ SameRequest(x, rc)
                  /\ db' = issued
                  /\ Answers(x)
             \/ \E now, later, last \in Times :
                  /\ CanActivate(issued, b, [book |-> b, signer |-> issued.books[b].signer],
                                 c.buyer, c.publisher, now, later, authority.trusts)
                  /\ CanRedeem(activated, rc, last)
                  /\ db' = AfterRedeem(activated, rc, last)
                  /\ Answers(NewReceipt(activated, rc, last))
  /\ UNCHANGED authority

PurchaseCall == [resource : Resources, buyer : Buyers, publisher : Publishers,
                 edition : Editions, maxUnits : Budgets, request : Requests]

Next ==
  \/ Restart
  \/ \E u \in Buyers, units \in Balances : Seed(u, units)
  \/ \E p \in Publishers, r \in Resources, offer \in Offers : SetOffer(p, r, offer)
  \/ RevokeKey
  \/ \E c \in Calls : Issue(c)
  \/ \E token \in BookTokens, u \in Buyers, p \in Publishers : Activate(token, u, p)
  \/ \E c \in RedeemCall : Redeem(c)
  \/ \E b \in BookIds, u \in Buyers : Release(b, u)
  \/ \E c \in PurchaseCall : Purchase(c)

Spec == Init /\ [][Next]_vars

-------------------------------------------------------------------------------
\* The tables hold rows of their types (no amount is ever negative, as the CHECK
\* constraints demand), and a caller holds receipts.
DbTypeOK(d) ==
  /\ d.accounts \in [Buyers -> Account]
  /\ d.offers \in [Publishers -> [Resources -> Offer \cup {NoRow}]]
  /\ d.accrued \in [Publishers -> Nat]
  /\ DOMAIN d.books \subseteq BookIds
  /\ d.books \in [DOMAIN d.books -> Book]
  /\ d.redemptions \subseteq Receipt
  /\ d.revoked \in BOOLEAN

TypeOK ==
  /\ DbTypeOK(db)
  /\ authority \in [signs : AuthorityKeys, trusts : AuthorityKeys]
  /\ delivered \subseteq Receipt

\* What audit() recomputes never fails: each buyer's balance is what was seeded,
\* split into available, the unspent units of the buyer's books and the buyer's
\* receipts, and each publisher accrued exactly the units of its receipts.
AuditHolds == BuyersConserved(db) /\ PublishersConserved(db)

\* An open book reserves exactly its items without a receipt, whatever the
\* publisher charges by now; a closed book reserves nothing.
ItemsOf(b)      == {r \in Resources : db.books[b].items[r] # NoRow}
UnspentItems(b) == {r \in ItemsOf(b) : ~Redeemed(db, b, r)}
UnitsOf(b, rs)  == Total([r \in rs |-> db.books[b].items[r].units], rs)

RemainingIsUnspent ==
  \A b \in DOMAIN db.books :
    db.books[b].remaining = IF db.books[b].closed THEN 0 ELSE UnitsOf(b, UnspentItems(b))

\* A book never authorizes more than its buyer's budget, so neither do its
\* receipts.
WithinBudget ==
  \A b \in DOMAIN db.books :
    UnitsOf(b, ItemsOf(b)) <= db.books[b].call.maxUnits

\* The keys of redemptions: a request is charged once, and so is an item.
ChargedOnce ==
  \A x, y \in db.redemptions :
    (x.buyer = y.buyer /\ x.request = y.request) \/ (x.book = y.book /\ x.resource = y.resource)
    => x = y

\* A receipt is for an admitted book of that buyer and publisher, for the edition
\* and units the book froze at issuance, at a time inside the book's window.
ReceiptsMatchBooks ==
  \A x \in db.redemptions :
    /\ x.book \in DOMAIN db.books
    /\ db.books[x.book].call.buyer = x.buyer
    /\ db.books[x.book].call.publisher = x.publisher
    /\ db.books[x.book].active
    /\ InWindow(db.books[x.book], x.at)
    /\ db.books[x.book].items[x.resource] = [edition |-> x.edition, units |-> x.units]

\* A buyer and request name one book, through retries and purchases.
OneBookPerRequest ==
  \A b, c \in DOMAIN db.books :
    /\ db.books[b].call.buyer = db.books[c].call.buyer
    /\ db.books[b].call.request = db.books[c].call.request
    => b = c

\* Every receipt a caller holds is committed, and whatever calls were repeated
\* and answers lost, a caller never holds two receipts for one request.
AnswersCommitted ==
  /\ delivered \subseteq db.redemptions
  /\ \A x, y \in delivered : x.buyer = y.buyer /\ x.request = y.request => x = y

\* Receipts, publisher accruals and the terms of a book are never taken back.
ReceiptsArePermanent ==
  [][/\ db.redemptions \subseteq db'.redemptions
     /\ \A p \in Publishers : db'.accrued[p] >= db.accrued[p]
     /\ \A b \in DOMAIN db.books :
          /\ b \in DOMAIN db'.books
          /\ db'.books[b].items = db.books[b].items
          /\ db'.books[b].expires = db.books[b].expires]_vars

\* Once a book is released no receipt is issued for it and it stays released, and
\* the revocation of the issuer's key ends all new admission: repeated requests
\* are only answered from what is committed.
ReleasedIsFinal ==
  [][\A b \in DOMAIN db.books : db.books[b].closed =>
       /\ db'.books[b].closed
       /\ \A x \in db'.redemptions \ db.redemptions : x.book # b]_vars

RevocationIsFinal ==
  [][db.revoked =>
       /\ db'.revoked
       /\ DOMAIN db'.books = DOMAIN db.books
       /\ db'.redemptions = db.redemptions
       /\ \A b \in DOMAIN db.books : db'.books[b].active => db.books[b].active]_vars

\* A book is admitted only by a consumer that pins the key the book was signed
\* with: after a restart with another pin, books of the old key stay outside,
\* also when purchase() comes across one through its issuance retry.
AdmissionPinned ==
  [][\A b \in DOMAIN db'.books :
       db'.books[b].active /\ ~(b \in DOMAIN db.books /\ db.books[b].active)
       => db'.books[b].signer = authority.trusts]_vars

\* Clearing keeps the promise of a prepaid account, purchase() included, which
\* reserves and spends in one transaction; no step moves more units than an
\* account was opened with.
Largest == CHOOSE m \in Balances : \A n \in Balances : n <= m

Prepaid == INSTANCE PrepaidAccess WITH
  Amounts <- 0 .. Largest,
  funds   <- [u \in Buyers |-> [available |-> db.accounts[u].available,
                                reserved  |-> db.accounts[u].reserved,
                                spent     |-> db.accounts[u].redeemed]],
  granted <- {[buyer |-> x.buyer, request |-> x.request, units |-> x.units] :
                x \in db.redemptions}

KeepsPrepaid == Prepaid!Spec

\* The money of buyers, books and publishers adds up, within the budgets.
MoneyAddsUp == TypeOK /\ AuditHolds /\ RemainingIsUnspent /\ WithinBudget

\* A retry costs nothing: one book for each request to issue, one charge for each
\* request to redeem and for each item, and one answer, which was committed.
RetriesCostNothing == OneBookPerRequest /\ ChargedOnce /\ AnswersCommitted

\* What ended or was committed stays so.
EndsAreFinal == ReleasedIsFinal /\ RevocationIsFinal /\ ReceiptsArePermanent
===============================================================================
