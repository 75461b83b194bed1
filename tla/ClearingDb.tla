------------------------------ MODULE ClearingDb ------------------------------
(***************************************************************************)
(* The clearing database of the access book example                        *)
(* (src/examples/access_book/engine.py): its tables as one record, and for *)
(* each transaction of class Clearing when it is accepted (Can...) and the *)
(* database it commits (After...).  A call's arguments are a record.       *)
(*                                                                         *)
(* What the program compares only for equality is abstract: the content    *)
(* and terms hashes of an offer are its edition, a request hash is the     *)
(* arguments it hashes, the token of a book is the book's id with the key  *)
(* that signed it.                                                         *)
(***************************************************************************)
EXTENDS Totals

CONSTANTS
  Buyers, Publishers, Resources, Requests,
  Editions,      \* content and terms of a resource
  BookIds,       \* what secrets.token_hex(16) can return
  AuthorityKeys, \* the keys an issuer may sign with
  MaxTtl,        \* the default ttl of a book, MAX_TTL
  NoRow          \* no row in offers or items

Positive == Nat \ {0}
Offer   == [edition : Editions, units : Positive, validUntil : Positive]

Account == [initial : Nat, available : Nat, reserved : Nat, redeemed : Nat]
Item    == [edition : Editions, units : Positive]

ASSUME ClearingDbAssumption ==
  /\ NoRow \notin Offer \cup Item /\ MaxTtl \in Positive
  /\ IsFiniteSet(Resources)

Receipt == [buyer : Buyers, request : Requests, book : BookIds, resource : Resources,
            publisher : Publishers, edition : Editions, units : Positive, at : Positive]

IssueCall  == [buyer : Buyers, publisher : Publishers, resources : SUBSET Resources,
               maxUnits : Positive, request : Requests, ttl : Positive]
RedeemCall == [book : BookIds, resource : Resources, buyer : Buyers,
               publisher : Publishers, edition : Editions, request : Requests]

\* A row of books with its rows of items; call holds the arguments that
\* request_hash commits to, signer the key under the token's signature.
Book == [call : IssueCall, issued : Positive, expires : Positive, remaining : Nat,
         active : BOOLEAN, closed : BOOLEAN, signer : AuthorityKeys,
         items : [Resources -> Item \cup {NoRow}]]

EmptyDb ==
  [accounts    |-> [u \in Buyers |-> [initial |-> 0, available |-> 0, reserved |-> 0,
                                      redeemed |-> 0]],
   offers      |-> [p \in Publishers |-> [r \in Resources |-> NoRow]],
   accrued     |-> [p \in Publishers |-> 0],
   books       |-> [b \in {} |-> {}],
   redemptions |-> {},
   revoked     |-> FALSE]

-------------------------------------------------------------------------------
\* seed_simulated_balance: the primary key refuses a second row.  A buyer
\* without a row is an account of zeros.
CanSeed(d, u) == d.accounts[u].initial = 0

AfterSeed(d, u, units) ==
  [d EXCEPT !.accounts[u] = [initial |-> units, available |-> units, reserved |-> 0,
                             redeemed |-> 0]]

\* Mutant: INSERT OR REPLACE for the publisher's row, as for the offer's.
AfterSetOffer_ResetsAccrual(d, p, r, offer) ==
  [d EXCEPT !.offers[p][r] = offer, !.accrued[p] = 0]

\* set_offer replaces the row of the resource; the publisher's row, which starts
\* at 0, is inserted once and otherwise left alone.
AfterSetOffer(d, p, r, offer) == [d EXCEPT !.offers[p][r] = offer]

AfterRevokeKey(d) == [d EXCEPT !.revoked = TRUE]

KeyOk(d) == ~d.revoked

-------------------------------------------------------------------------------
PriorBook(d, c) ==
  {b \in DOMAIN d.books : /\ d.books[b].call.buyer = c.buyer
                          /\ d.books[b].call.request = c.request}

\* The total of the authoritative offers, whatever the buyer believes.
Price(d, c) == Total([r \in c.resources |-> d.offers[c.publisher][r].units], c.resources)

Expiries(d, c, now) ==
  {now + c.ttl} \cup {d.offers[c.publisher][r].validUntil : r \in c.resources}

\* issue: the book expires with its ttl or the first of its offers.
Expiry(d, c, now) ==
  CHOOSE t \in Expiries(d, c, now) : \A x \in Expiries(d, c, now) : t <= x

\* Mutant: the UPDATE of the account has no available>=?.
Funded_Unchecked(d, c) == Price(d, c) \in Nat

Funded(d, c) == Price(d, c) <= d.accounts[c.buyer].available

\* Mutant: the budget is not compared.
WithinMax_Unchecked(d, c) == Price(d, c) \in Nat

WithinMax(d, c) == Price(d, c) <= c.maxUnits

\* Mutant: no lookup of the prior book.
NoPriorBook_Unchecked(d, c) == c.buyer \in Buyers

NoPriorBook(d, c) == PriorBook(d, c) = {}

OffersLast(d, c, now) ==
  \A r \in c.resources : /\ d.offers[c.publisher][r] # NoRow
                         /\ d.offers[c.publisher][r].validUntil > now

\* Mutant: no _key_ok().
CanIssue_NoKeyCheck(d, c, now) ==
  NoPriorBook(d, c) /\ OffersLast(d, c, now) /\ WithinMax(d, c) /\ Funded(d, c)

\* An issuance with a prior book of the same buyer and request never reaches
\* this: it is answered with that book, or refused if its arguments differ.
CanIssue(d, c, now) ==
  /\ KeyOk(d)
  /\ NoPriorBook(d, c)
  /\ OffersLast(d, c, now)
  /\ WithinMax(d, c)
  /\ Funded(d, c)

NewBook(d, c, now, signer) ==
  [call |-> c, issued |-> now, expires |-> Expiry(d, c, now), remaining |-> Price(d, c),
   active |-> FALSE, closed |-> FALSE, signer |-> signer,
   items |-> [r \in Resources |->
                IF r \in c.resources THEN [edition |-> d.offers[c.publisher][r].edition,
                                          units |-> d.offers[c.publisher][r].units]
                                    ELSE NoRow]]

AfterIssue(d, c, now, b, signer) ==
  [d EXCEPT !.accounts[c.buyer].available = @ - Price(d, c),
            !.accounts[c.buyer].reserved = @ + Price(d, c),
            !.books = [x \in DOMAIN d.books \cup {b} |->
                         IF x = b THEN NewBook(d, c, now, signer) ELSE d.books[x]]]

-------------------------------------------------------------------------------
\* Mutant: the row is looked up by id and buyer only.
IsBookOf_AnyPublisher(d, b, buyer, publisher) ==
  /\ b \in DOMAIN d.books
  /\ d.books[b].call.buyer = buyer

\* The row of books a caller means: id, buyer and publisher must all match.
IsBookOf(d, b, buyer, publisher) ==
  /\ b \in DOMAIN d.books
  /\ d.books[b].call.buyer = buyer
  /\ d.books[b].call.publisher = publisher

InWindow(book, now) == book.issued <= now /\ now < book.expires

\* Mutant: the token's signature is not verified against the pin.
TokenGood_AnySigner(book, later, pinned) == InWindow(book, later)

\* Authority.verify, over the signature and the token's own window.
TokenGood(book, later, pinned) == book.signer = pinned /\ InWindow(book, later)

\* activate reads the clock for the row and, when the book is not active yet,
\* once more for the token, whose signature must be by the pinned key.
CanActivate(d, b, token, buyer, publisher, now, later, pinned) ==
  /\ KeyOk(d)
  /\ IsBookOf(d, b, buyer, publisher)
  /\ ~d.books[b].closed
  /\ InWindow(d.books[b], now)
  /\ token = [book |-> b, signer |-> d.books[b].signer]
  /\ d.books[b].active \/ TokenGood(d.books[b], later, pinned)

AfterActivate(d, b) == [d EXCEPT !.books[b].active = TRUE]

-------------------------------------------------------------------------------
PriorReceipt(d, c) ==
  {x \in d.redemptions : x.buyer = c.buyer /\ x.request = c.request}

\* Equality of the request hashes of a receipt and of a new call.
SameRequest(x, c) ==
  /\ x.book = c.book /\ x.resource = c.resource
  /\ x.publisher = c.publisher /\ x.edition = c.edition

Redeemed(d, b, r) == \E x \in d.redemptions : x.book = b /\ x.resource = r

\* Mutant: no lookup of the prior receipt.
NoPriorReceipt_Unchecked(d, c) == c.book \in BookIds

NoPriorReceipt(d, c) == PriorReceipt(d, c) = {}

\* Mutant: an item that has a receipt is redeemed again.
ItemUnspent_Unchecked(d, c) == c.book \in DOMAIN d.books

ItemUnspent(d, c) == ~Redeemed(d, c.book, c.resource)

\* Mutant: a book is redeemed without having been admitted.
Usable_NotActive(book, now) == ~book.closed /\ InWindow(book, now)

\* Mutant: a released book is still good until it expires.
Usable_Closed(book, now) == book.active /\ InWindow(book, now)

Usable(book, now) == book.active /\ ~book.closed /\ InWindow(book, now)

\* A redemption with a prior receipt never reaches this: it is answered with
\* that receipt, or refused if its arguments differ.
CanRedeem(d, c, now) ==
  /\ NoPriorReceipt(d, c)
  /\ KeyOk(d)
  /\ IsBookOf(d, c.book, c.buyer, c.publisher)
  /\ Usable(d.books[c.book], now)
  /\ d.books[c.book].items[c.resource] # NoRow
  /\ d.books[c.book].items[c.resource].edition = c.edition
  /\ ItemUnspent(d, c)

\* Mutant: the current offer's price, not the one frozen in the item.
UnitsOfItem_Current(d, c) == d.offers[c.publisher][c.resource].units

UnitsOfItem(d, c) == d.books[c.book].items[c.resource].units

NewReceipt(d, c, now) ==
  [buyer |-> c.buyer, request |-> c.request, book |-> c.book, resource |-> c.resource,
   publisher |-> c.publisher, edition |-> c.edition,
   units |-> UnitsOfItem(d, c), at |-> now]

AfterRedeem(d, c, now) ==
  LET units == UnitsOfItem(d, c)
  IN [d EXCEPT !.accounts[c.buyer].reserved = @ - units,
               !.accounts[c.buyer].redeemed = @ + units,
               !.books[c.book].remaining = @ - units,
               !.accrued[c.publisher] = @ + units,
               !.redemptions = @ \cup {NewReceipt(d, c, now)}]

\* The calls purchase() makes of issue and redeem.
PurchaseIssue(c) ==
  [buyer |-> c.buyer, publisher |-> c.publisher, resources |-> {c.resource},
   maxUnits |-> c.maxUnits, request |-> c.request, ttl |-> MaxTtl]

PurchaseRedeem(c, b) ==
  [book |-> b, resource |-> c.resource, buyer |-> c.buyer, publisher |-> c.publisher,
   edition |-> c.edition, request |-> c.request]

-------------------------------------------------------------------------------
\* release by the buyer or the expiry worker; a closed book answers 0.
CanRelease(d, b, buyer) ==
  b \in DOMAIN d.books /\ d.books[b].call.buyer = buyer /\ ~d.books[b].closed

\* Mutant: the book is closed with its remaining units left in place.
AfterRelease_KeepsRemaining(d, b) ==
  [d EXCEPT !.accounts[d.books[b].call.buyer].reserved = @ - d.books[b].remaining,
            !.accounts[d.books[b].call.buyer].available = @ + d.books[b].remaining,
            !.books[b].closed = TRUE]

AfterRelease(d, b) ==
  [d EXCEPT !.accounts[d.books[b].call.buyer].reserved = @ - d.books[b].remaining,
            !.accounts[d.books[b].call.buyer].available = @ + d.books[b].remaining,
            !.books[b].remaining = 0,
            !.books[b].closed = TRUE]

-------------------------------------------------------------------------------
\* The sums audit() asks the database for.
RemainingOf(d, u) ==
  Total([b \in DOMAIN d.books |-> d.books[b].remaining],
        {b \in DOMAIN d.books : d.books[b].call.buyer = u})

RedeemedBy(d, u) ==
  Total([x \in d.redemptions |-> x.units], {x \in d.redemptions : x.buyer = u})

AccruedTo(d, p) ==
  Total([x \in d.redemptions |-> x.units], {x \in d.redemptions : x.publisher = p})

\* audit() raises unless these hold.
BuyersConserved(d) ==
  \A u \in Buyers :
    /\ d.accounts[u].initial = d.accounts[u].available + RemainingOf(d, u) + RedeemedBy(d, u)
    /\ d.accounts[u].reserved = RemainingOf(d, u)
    /\ d.accounts[u].redeemed = RedeemedBy(d, u)

PublishersConserved(d) ==
  \A p \in Publishers : d.accrued[p] = AccruedTo(d, p)
===============================================================================
