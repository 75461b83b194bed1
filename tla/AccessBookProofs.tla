--------------------------- MODULE AccessBookProofs ---------------------------
(***************************************************************************)
(* The clearing service keeps its books, for any parties, offers and       *)
(* clocks: what each transaction does to the database as a value, then the *)
(* invariant of the service, what a step never takes back, and that each   *)
(* step is one of a prepaid account.  Then the same transactions statement *)
(* by statement, nested in blocks (ClearingTx): what is read between steps *)
(* and what is committed is made of whole steps, and commits once.         *)
(***************************************************************************)
EXTENDS AccessBook, ClearingTx, TotalsProofs, SequenceTheorems

\* A database has these six tables.
Shape(d) ==
  d = [accounts |-> d.accounts, offers |-> d.offers, accrued |-> d.accrued,
       books |-> d.books, redemptions |-> d.redemptions, revoked |-> d.revoked]

DbTypes(d) ==
  /\ Shape(d) /\ DbTypeOK(d)
  /\ IsFiniteSet(DOMAIN d.books) /\ IsFiniteSet(d.redemptions)

\* The items of a row of books, those without a receipt, and what they cost.
BookItems(row)     == {r \in Resources : row.items[r] # NoRow}
OpenItems(d, b)    == {r \in BookItems(d.books[b]) : ~Redeemed(d, b, r)}
ItemUnits(row, rs) == Total([r \in rs |-> row.items[r].units], rs)

\* The invariants of AccessBook, of a database.
RemainingIsOpen(d) ==
  \A b \in DOMAIN d.books :
    d.books[b].remaining = IF d.books[b].closed THEN 0 ELSE ItemUnits(d.books[b], OpenItems(d, b))

Budgeted(d) ==
  \A b \in DOMAIN d.books :
    ItemUnits(d.books[b], BookItems(d.books[b])) <= d.books[b].call.maxUnits

OneCharge(d) ==
  \A x, y \in d.redemptions :
    (x.buyer = y.buyer /\ x.request = y.request) \/ (x.book = y.book /\ x.resource = y.resource)
    => x = y

Matches(d, x) ==
  /\ x.book \in DOMAIN d.books
  /\ d.books[x.book].call.buyer = x.buyer
  /\ d.books[x.book].call.publisher = x.publisher
  /\ d.books[x.book].active
  /\ InWindow(d.books[x.book], x.at)
  /\ d.books[x.book].items[x.resource] = [edition |-> x.edition, units |-> x.units]

ReceiptsMatch(d) == \A x \in d.redemptions : Matches(d, x)

OneBook(d) ==
  \A b, c \in DOMAIN d.books :
    /\ d.books[b].call.buyer = d.books[c].call.buyer
    /\ d.books[b].call.request = d.books[c].call.request
    => b = c

DbInv(d) ==
  /\ DbTypes(d) /\ BuyersConserved(d) /\ PublishersConserved(d) /\ RemainingIsOpen(d)
  /\ Budgeted(d) /\ OneCharge(d) /\ ReceiptsMatch(d) /\ OneBook(d)

-------------------------------------------------------------------------------
\* What issue, activate, redeem and release write, table by table.
Issued(d, e, c, b, row, units) ==
  /\ Shape(e)
  /\ e.accounts = [d.accounts EXCEPT ![c.buyer] =
       [initial |-> d.accounts[c.buyer].initial,
        available |-> d.accounts[c.buyer].available - units,
        reserved |-> d.accounts[c.buyer].reserved + units,
        redeemed |-> d.accounts[c.buyer].redeemed]]
  /\ e.books = [x \in DOMAIN d.books \cup {b} |-> IF x = b THEN row ELSE d.books[x]]
  /\ e.offers = d.offers /\ e.accrued = d.accrued
  /\ e.redemptions = d.redemptions /\ e.revoked = d.revoked

\* What AfterIssue writes: one sold book and its price set aside.
LEMMA IssueWrites ==
  ASSUME NEW d, DbTypes(d), NEW c, c.buyer \in Buyers, NEW now, NEW b, NEW signer, NEW e,
         e = AfterIssue(d, c, now, b, signer)
  PROVE  Issued(d, e, c, b, NewBook(d, c, now, signer), Price(d, c))
<1> DEFINE u == c.buyer
<1>1. /\ Shape(e)
      /\ e.accounts = [d.accounts EXCEPT ![u].available = @ - Price(d, c),
                                        ![u].reserved = @ + Price(d, c)]
      /\ e.books = [x \in DOMAIN d.books \cup {b} |->
                      IF x = b THEN NewBook(d, c, now, signer) ELSE d.books[x]]
      /\ e.offers = d.offers /\ e.accrued = d.accrued
      /\ e.redemptions = d.redemptions /\ e.revoked = d.revoked
  BY DEF DbTypes, Shape, AfterIssue
<1>2. d.accounts \in [Buyers -> Account] /\ d.accounts[u] \in Account
  BY DEF DbTypes, DbTypeOK
<1> QED
  BY <1>1, <1>2 DEF Issued, Account

\* What AfterActivate writes: the flag of one book, and nothing else.
LEMMA ActivateWrites ==
  ASSUME NEW d, DbTypes(d), NEW b \in DOMAIN d.books, NEW e, e = AfterActivate(d, b)
  PROVE  /\ Shape(e)
         /\ e.books = [d.books EXCEPT ![b].active = TRUE]
         /\ e.accounts = d.accounts /\ e.offers = d.offers /\ e.accrued = d.accrued
         /\ e.redemptions = d.redemptions /\ e.revoked = d.revoked
BY DEF DbTypes, Shape, DbTypeOK, AfterActivate

Charged(d, e, c, units, x) ==
  /\ Shape(e)
  /\ e.accounts = [d.accounts EXCEPT ![c.buyer] =
       [initial |-> d.accounts[c.buyer].initial,
        available |-> d.accounts[c.buyer].available,
        reserved |-> d.accounts[c.buyer].reserved - units,
        redeemed |-> d.accounts[c.buyer].redeemed + units]]
  /\ e.books = [d.books EXCEPT ![c.book].remaining = @ - units]
  /\ e.accrued = [d.accrued EXCEPT ![c.publisher] = @ + units]
  /\ e.redemptions = d.redemptions \cup {x}
  /\ e.offers = d.offers /\ e.revoked = d.revoked

\* What AfterRedeem writes: one charge and its receipt.
LEMMA RedeemWrites ==
  ASSUME NEW d, DbTypes(d), NEW c, c.buyer \in Buyers, c.publisher \in Publishers,
         c.book \in DOMAIN d.books, NEW now, NEW e, e = AfterRedeem(d, c, now)
  PROVE  Charged(d, e, c, UnitsOfItem(d, c), NewReceipt(d, c, now))
<1> DEFINE u == c.buyer
<1>1. /\ Shape(e)
      /\ e.accounts = [d.accounts EXCEPT ![u].reserved = @ - UnitsOfItem(d, c),
                                        ![u].redeemed = @ + UnitsOfItem(d, c)]
      /\ e.books = [d.books EXCEPT ![c.book].remaining = @ - UnitsOfItem(d, c)]
      /\ e.accrued = [d.accrued EXCEPT ![c.publisher] = @ + UnitsOfItem(d, c)]
      /\ e.redemptions = d.redemptions \cup {NewReceipt(d, c, now)}
      /\ e.offers = d.offers /\ e.revoked = d.revoked
  BY ZenonT(60) DEF DbTypes, Shape, AfterRedeem
<1>2. d.accounts \in [Buyers -> Account] /\ d.accounts[u] \in Account
  BY DEF DbTypes, DbTypeOK
<1> QED
  BY <1>1, <1>2 DEF Charged, Account

Freed(d, e, b, u, units) ==
  /\ Shape(e)
  /\ e.accounts = [d.accounts EXCEPT ![u] =
       [initial |-> d.accounts[u].initial,
        available |-> d.accounts[u].available + units,
        reserved |-> d.accounts[u].reserved - units,
        redeemed |-> d.accounts[u].redeemed]]
  /\ e.books = [d.books EXCEPT ![b].remaining = 0, ![b].closed = TRUE]
  /\ e.accrued = d.accrued /\ e.redemptions = d.redemptions
  /\ e.offers = d.offers /\ e.revoked = d.revoked

\* What AfterRelease writes: one book closed and its units given back.
LEMMA ReleaseWrites ==
  ASSUME NEW d, DbTypes(d), NEW b \in DOMAIN d.books, d.books[b].call.buyer \in Buyers,
         NEW e, e = AfterRelease(d, b)
  PROVE  Freed(d, e, b, d.books[b].call.buyer, d.books[b].remaining)
<1> DEFINE u == d.books[b].call.buyer
<1>1. /\ Shape(e)
      /\ e.accounts = [d.accounts EXCEPT ![u].reserved = @ - d.books[b].remaining,
                                        ![u].available = @ + d.books[b].remaining]
      /\ e.books = [d.books EXCEPT ![b].remaining = 0, ![b].closed = TRUE]
      /\ e.accrued = d.accrued /\ e.redemptions = d.redemptions
      /\ e.offers = d.offers /\ e.revoked = d.revoked
  BY ZenonT(60) DEF DbTypes, Shape, AfterRelease
<1>2. d.accounts \in [Buyers -> Account] /\ d.accounts[u] \in Account
  BY DEF DbTypes, DbTypeOK
<1>3. e.accounts = [d.accounts EXCEPT ![u] =
        [initial |-> d.accounts[u].initial,
         available |-> d.accounts[u].available + d.books[b].remaining,
         reserved |-> d.accounts[u].reserved - d.books[b].remaining,
         redeemed |-> d.accounts[u].redeemed]]
  BY ZenonT(60), <1>1, <1>2 DEF Account
<1> QED
  BY <1>1, <1>3 DEF Freed

-------------------------------------------------------------------------------
\* What audit() sums up is a sum over finitely many rows.
BooksOf(d, u) == {b \in DOMAIN d.books : d.books[b].call.buyer = u}
Remains(d)    == [b \in DOMAIN d.books |-> d.books[b].remaining]
UnitsIn(d)    == [x \in d.redemptions |-> x.units]

\* The sums over the books and receipts of a database are of finite sets of naturals.
LEMMA SumsFinite ==
  ASSUME NEW d, DbTypes(d)
  PROVE  /\ \A u : /\ IsFiniteSet(BooksOf(d, u)) /\ Summable(Remains(d), BooksOf(d, u))
                   /\ RemainingOf(d, u) = Total(Remains(d), BooksOf(d, u))
                   /\ RemainingOf(d, u) \in Nat
         /\ \A S \in SUBSET d.redemptions :
              IsFiniteSet(S) /\ Summable(UnitsIn(d), S) /\ Total(UnitsIn(d), S) \in Nat
<1>1. ASSUME NEW u
      PROVE  /\ IsFiniteSet(BooksOf(d, u)) /\ Summable(Remains(d), BooksOf(d, u))
             /\ RemainingOf(d, u) = Total(Remains(d), BooksOf(d, u))
             /\ RemainingOf(d, u) \in Nat
  <2>1. IsFiniteSet(BooksOf(d, u))
    <3>1. BooksOf(d, u) \in SUBSET DOMAIN d.books
      BY DEF BooksOf
    <3> QED
      BY <3>1, FS_Subset DEF DbTypes
  <2>2. Summable(Remains(d), BooksOf(d, u))
    BY DEF Summable, Remains, BooksOf, DbTypes, DbTypeOK, Book
  <2> QED
    BY <2>1, <2>2, TotalType DEF RemainingOf, Remains, BooksOf
<1>2. ASSUME NEW S \in SUBSET d.redemptions
      PROVE  IsFiniteSet(S) /\ Summable(UnitsIn(d), S) /\ Total(UnitsIn(d), S) \in Nat
  <2>1. IsFiniteSet(S)
    BY FS_Subset DEF DbTypes
  <2>2. Summable(UnitsIn(d), S)
    BY DEF Summable, UnitsIn, DbTypes, DbTypeOK, Receipt, Positive
  <2> QED
    BY <2>1, <2>2, TotalType
<1> QED
  BY <1>1, <1>2

\* The price of a call is what the items of the book it makes cost.
LEMMA NewBookCosts ==
  ASSUME NEW d, DbTypes(d), NEW c \in IssueCall, NEW now \in Positive, OffersLast(d, c, now),
         NEW signer \in AuthorityKeys
  PROVE  /\ NewBook(d, c, now, signer) \in Book
         /\ BookItems(NewBook(d, c, now, signer)) = c.resources
         /\ ItemUnits(NewBook(d, c, now, signer), c.resources) = Price(d, c)
<1>1. c.resources \subseteq Resources /\ c.publisher \in Publishers /\ c.ttl \in Positive
  BY DEF IssueCall
<1>2. \A r \in c.resources : d.offers[c.publisher][r] \in Offer
  BY <1>1 DEF OffersLast, DbTypes, DbTypeOK
<1>3. Price(d, c) \in Nat
  <2>1. IsFiniteSet(c.resources)
    BY <1>1, ClearingDbAssumption, FS_Subset
  <2>2. Summable([r \in c.resources |-> d.offers[c.publisher][r].units], c.resources)
    BY <1>2 DEF Summable, Offer, Positive
  <2> QED
    BY <2>1, <2>2, TotalType DEF Price
<1>4. Expiry(d, c, now) \in Positive
  <2>1. /\ Expiries(d, c, now) \subseteq Positive /\ Expiries(d, c, now) # {}
        /\ Expiries(d, c, now) \subseteq Nat
    BY <1>1, <1>2 DEF Expiries, Offer, Positive
  <2>2. \E t \in Expiries(d, c, now) : \A x \in Expiries(d, c, now) : t <= x
    BY <2>1, LeastMember
  <2> QED
    BY <2>1, <2>2 DEF Expiry
<1>5. ASSUME NEW r \in c.resources
      PROVE  /\ NewBook(d, c, now, signer).items[r] \in Item
             /\ NewBook(d, c, now, signer).items[r].units = d.offers[c.publisher][r].units
  <2>1. d.offers[c.publisher][r].edition \in Editions /\ d.offers[c.publisher][r].units \in Positive
    BY <1>2 DEF Offer
  <2>2. NewBook(d, c, now, signer).items[r] =
          [edition |-> d.offers[c.publisher][r].edition, units |-> d.offers[c.publisher][r].units]
    BY <1>1 DEF NewBook
  <2> QED
    BY <2>1, <2>2 DEF Item
<1>6. \A r \in Resources \ c.resources : NewBook(d, c, now, signer).items[r] = NoRow
  BY DEF NewBook
<1>7. \A r \in c.resources : NewBook(d, c, now, signer).items[r] \in Item
  BY <1>5
<1>8. NewBook(d, c, now, signer) \in Book
  <2>1. NewBook(d, c, now, signer).items \in [Resources -> Item \cup {NoRow}]
    BY <1>6, <1>7 DEF NewBook
  <2> QED
    BY <1>3, <1>4, <2>1 DEF NewBook, Book
<1>9. BookItems(NewBook(d, c, now, signer)) = c.resources
  BY <1>1, <1>6, <1>7, ClearingDbAssumption DEF BookItems
<1>10. ItemUnits(NewBook(d, c, now, signer), c.resources) = Price(d, c)
  <2>1. [r \in c.resources |-> NewBook(d, c, now, signer).items[r].units] =
          [r \in c.resources |-> d.offers[c.publisher][r].units]
    BY <1>5
  <2> QED
    BY <2>1 DEF ItemUnits, Price
<1> QED
  BY <1>8, <1>9, <1>10

-------------------------------------------------------------------------------
\* A new book moves its price from available to reserved.
LEMMA IssueKeeps ==
  ASSUME NEW d, DbInv(d), NEW c \in IssueCall, NEW now \in Positive, CanIssue(d, c, now),
         NEW b \in BookIds, b \notin DOMAIN d.books, NEW signer \in AuthorityKeys,
         NEW e, e = AfterIssue(d, c, now, b, signer)
  PROVE  DbInv(e)
<1>1. DbTypes(d) /\ OffersLast(d, c, now) /\ c.buyer \in Buyers
  BY DEF DbInv, CanIssue, IssueCall
<1>2. PICK k : k = NewBook(d, c, now, signer)
  OBVIOUS
<1>3. PICK units : units = Price(d, c)
  OBVIOUS
<1>4. /\ k \in Book /\ BookItems(k) = c.resources /\ ItemUnits(k, c.resources) = units
      /\ k.remaining = units /\ k.call = c /\ k.closed = FALSE
  BY <1>1, <1>2, <1>3, NewBookCosts DEF NewBook
<1>5. units \in Nat /\ units <= d.accounts[c.buyer].available /\ units <= c.maxUnits
  BY <1>3, <1>4 DEF CanIssue, Funded, WithinMax, Book
<1>6. Issued(d, e, c, b, k, units)
  <2>1. Issued(d, e, c, b, NewBook(d, c, now, signer), Price(d, c))
    BY <1>1, IssueWrites
  <2> QED
    BY <2>1, <1>2, <1>3
<1>7. /\ DOMAIN e.books = DOMAIN d.books \cup {b} /\ e.books[b] = k
      /\ \A x \in DOMAIN d.books : e.books[x] = d.books[x] /\ x # b
  BY <1>6 DEF Issued
<1>8. DbTypes(e)
  <2>1. d.accounts \in [Buyers -> Account] /\ d.accounts[c.buyer] \in Account
    BY <1>1 DEF DbTypes, DbTypeOK
  <2>2. d.accounts[c.buyer].available - units \in Nat /\ d.accounts[c.buyer].reserved + units \in Nat
    BY <2>1, <1>5 DEF Account
  <2>3. e.accounts \in [Buyers -> Account]
    <3>1. [initial |-> d.accounts[c.buyer].initial,
           available |-> d.accounts[c.buyer].available - units,
           reserved |-> d.accounts[c.buyer].reserved + units,
           redeemed |-> d.accounts[c.buyer].redeemed] \in Account
      BY <2>1, <2>2 DEF Account
    <3> QED
      BY <2>1, <3>1, <1>6 DEF Issued
  <2>4. IsFiniteSet(DOMAIN e.books)
    BY <1>1, <1>7, FS_AddElement DEF DbTypes
  <2>5. e.books \in [DOMAIN e.books -> Book] /\ DOMAIN e.books \subseteq BookIds
    BY <1>1, <1>4, <1>6 DEF DbTypes, DbTypeOK, Issued
  <2> QED
    BY <1>1, <1>6, <2>3, <2>4, <2>5 DEF DbTypes, DbTypeOK, Issued
<1>9. /\ RemainingOf(e, c.buyer) = RemainingOf(d, c.buyer) + units
      /\ \A u \in Buyers : u # c.buyer => RemainingOf(e, u) = RemainingOf(d, u)
  <2>1. \A x \in DOMAIN d.books : Remains(e)[x] = Remains(d)[x]
    BY <1>7 DEF Remains
  <2>2. \A u : Total(Remains(e), BooksOf(d, u)) = Total(Remains(d), BooksOf(d, u))
    BY <2>1, TotalSame DEF BooksOf
  <2>3. BooksOf(e, c.buyer) = BooksOf(d, c.buyer) \cup {b} /\ b \notin BooksOf(d, c.buyer)
    BY <1>4, <1>7 DEF BooksOf
  <2>4. Remains(e)[b] = units
    BY <1>4, <1>7 DEF Remains
  <2>5. Total(Remains(e), BooksOf(e, c.buyer)) = Total(Remains(e), BooksOf(d, c.buyer)) + units
    <3>1. IsFiniteSet(BooksOf(d, c.buyer)) /\ Summable(Remains(d), BooksOf(d, c.buyer))
      BY <1>1, SumsFinite
    <3>2. Summable(Remains(e), BooksOf(d, c.buyer))
      BY <2>1, <3>1 DEF Summable, BooksOf
    <3>3. PICK f, S : f = Remains(e) /\ S = BooksOf(d, c.buyer)
      OBVIOUS
    <3>4. Total(f, S \cup {b}) = Total(f, S) + f[b]
      BY <1>5, <2>3, <2>4, <3>1, <3>2, <3>3, TotalAdd
    <3> QED
      BY <2>3, <2>4, <3>3, <3>4
  <2>6. \A u \in Buyers : u # c.buyer => BooksOf(e, u) = BooksOf(d, u)
    BY <1>4, <1>7 DEF BooksOf
  <2> QED
    BY <1>1, <1>8, <2>2, <2>5, <2>6, SumsFinite
<1>10. BuyersConserved(e)
  <2>1. ASSUME NEW u \in Buyers
        PROVE  /\ e.accounts[u].initial = e.accounts[u].available + RemainingOf(e, u) + RedeemedBy(e, u)
               /\ e.accounts[u].reserved = RemainingOf(e, u)
               /\ e.accounts[u].redeemed = RedeemedBy(e, u)
    <3>1. RedeemedBy(e, u) = RedeemedBy(d, u)
      BY <1>6 DEF RedeemedBy, Issued
    <3>2. /\ d.accounts[u].initial = d.accounts[u].available + RemainingOf(d, u) + RedeemedBy(d, u)
          /\ d.accounts[u].reserved = RemainingOf(d, u)
          /\ d.accounts[u].redeemed = RedeemedBy(d, u)
      BY DEF DbInv, BuyersConserved
    <3>3. d.accounts \in [Buyers -> Account]
      BY <1>1 DEF DbTypes, DbTypeOK
    <3>4. CASE u # c.buyer
      BY <1>6, <1>9, <3>1, <3>2, <3>3, <3>4 DEF Issued
    <3>5. CASE u = c.buyer
      <4>1. /\ e.accounts[u].initial = d.accounts[u].initial
            /\ e.accounts[u].available = d.accounts[u].available - units
            /\ e.accounts[u].reserved = d.accounts[u].reserved + units
            /\ e.accounts[u].redeemed = d.accounts[u].redeemed
        BY <1>6, <3>3, <3>5 DEF Issued
      <4>2. d.accounts[u].available \in Nat /\ RemainingOf(d, u) \in Nat /\ d.accounts[u].redeemed \in Nat
        BY <1>1, <3>3, SumsFinite DEF Account
      <4> QED
        BY <1>5, <1>9, <3>1, <3>2, <3>5, <4>1, <4>2
    <3> QED
      BY <3>4, <3>5
  <2> QED
    BY <2>1 DEF BuyersConserved
<1>11. PublishersConserved(e)
  BY <1>6 DEF DbInv, PublishersConserved, AccruedTo, Issued
<1>12. RemainingIsOpen(e)
  <2>1. \A x, r : Redeemed(e, x, r) <=> Redeemed(d, x, r)
    BY <1>6 DEF Redeemed, Issued
  <2>2. \A x \in DOMAIN d.books : OpenItems(e, x) = OpenItems(d, x)
    BY <1>7, <2>1 DEF OpenItems
  <2>3. OpenItems(e, b) = c.resources
    <3>1. \A r : ~Redeemed(d, b, r)
      BY DEF DbInv, ReceiptsMatch, Matches, Redeemed
    <3> QED
      BY <1>4, <1>7, <2>1, <3>1 DEF OpenItems
  <2> QED
    BY <1>4, <1>7, <2>2, <2>3 DEF RemainingIsOpen, DbInv
<1>13. Budgeted(e)
  BY <1>4, <1>5, <1>7 DEF Budgeted, DbInv
<1>14. OneCharge(e) /\ ReceiptsMatch(e)
  BY <1>6, <1>7 DEF OneCharge, ReceiptsMatch, Matches, DbInv, Issued
<1>15. OneBook(e)
  BY <1>4, <1>7 DEF OneBook, DbInv, CanIssue, NoPriorBook, PriorBook
<1> QED
  BY <1>8, <1>10, <1>11, <1>12, <1>13, <1>14, <1>15 DEF DbInv

\* The admission of a book moves no money.
LEMMA ActivateKeeps ==
  ASSUME NEW d, DbInv(d), NEW b \in DOMAIN d.books, NEW e, e = AfterActivate(d, b)
  PROVE  DbInv(e)
<1>1. DbTypes(d) /\ d.books \in [DOMAIN d.books -> Book]
  BY DEF DbInv, DbTypes, DbTypeOK
<1>2. /\ Shape(e) /\ e.books = [d.books EXCEPT ![b].active = TRUE]
      /\ e.accounts = d.accounts /\ e.offers = d.offers /\ e.accrued = d.accrued
      /\ e.redemptions = d.redemptions /\ e.revoked = d.revoked
  BY <1>1, ActivateWrites
<1>3. /\ DOMAIN e.books = DOMAIN d.books
      /\ \A x \in DOMAIN d.books :
           /\ e.books[x] \in Book
           /\ e.books[x].call = d.books[x].call /\ e.books[x].items = d.books[x].items
           /\ e.books[x].issued = d.books[x].issued /\ e.books[x].expires = d.books[x].expires
           /\ e.books[x].closed = d.books[x].closed
           /\ e.books[x].remaining = d.books[x].remaining
           /\ d.books[x].active => e.books[x].active
  <2>1. PICK row : row = [d.books[b] EXCEPT !.active = TRUE]
    OBVIOUS
  <2>2. e.books = [d.books EXCEPT ![b] = row]
    BY <1>1, <1>2, <2>1
  <2>3. /\ row \in Book /\ row.active
        /\ row.call = d.books[b].call /\ row.items = d.books[b].items
        /\ row.issued = d.books[b].issued /\ row.expires = d.books[b].expires
        /\ row.closed = d.books[b].closed /\ row.remaining = d.books[b].remaining
    BY <1>1, <2>1 DEF Book
  <2> QED
    BY <1>1, <2>2, <2>3
<1>4. DbTypes(e)
  BY <1>1, <1>2, <1>3 DEF DbTypes, DbTypeOK
<1>5. \A u : RemainingOf(e, u) = RemainingOf(d, u)
  <2>1. [x \in DOMAIN e.books |-> e.books[x].remaining] = [x \in DOMAIN d.books |-> d.books[x].remaining]
    BY <1>3
  <2>2. \A u : {x \in DOMAIN e.books : e.books[x].call.buyer = u}
                 = {x \in DOMAIN d.books : d.books[x].call.buyer = u}
    BY <1>3
  <2> QED
    BY <2>1, <2>2 DEF RemainingOf
<1>6. BuyersConserved(e) /\ PublishersConserved(e)
  BY <1>2, <1>5 DEF DbInv, BuyersConserved, PublishersConserved, RedeemedBy, AccruedTo
<1>7. RemainingIsOpen(e)
  <2>1. ASSUME NEW x \in DOMAIN d.books
        PROVE  OpenItems(e, x) = OpenItems(d, x)
    BY <1>2, <1>3 DEF OpenItems, BookItems, Redeemed
  <2> QED
    BY <1>3, <2>1 DEF DbInv, RemainingIsOpen, ItemUnits
<1>8. Budgeted(e)
  BY <1>3 DEF DbInv, Budgeted, ItemUnits, BookItems
<1>9. OneCharge(e) /\ ReceiptsMatch(e) /\ OneBook(e)
  BY <1>2, <1>3 DEF DbInv, OneCharge, ReceiptsMatch, Matches, InWindow, OneBook
<1> QED
  BY <1>4, <1>6, <1>7, <1>8, <1>9 DEF DbInv

\* A release gives back what the book still reserved.
LEMMA ReleaseKeeps ==
  ASSUME NEW d, DbInv(d), NEW b \in DOMAIN d.books, NEW e, e = AfterRelease(d, b)
  PROVE  DbInv(e)
<1>1. DbTypes(d) /\ d.books \in [DOMAIN d.books -> Book] /\ d.accounts \in [Buyers -> Account]
  BY DEF DbInv, DbTypes, DbTypeOK
<1>2. PICK u, units : u = d.books[b].call.buyer /\ units = d.books[b].remaining
  OBVIOUS
<1>3. u \in Buyers /\ units \in Nat
  BY <1>1, <1>2 DEF Book, IssueCall
<1>4. Freed(d, e, b, u, units)
  <2>1. Freed(d, e, b, d.books[b].call.buyer, d.books[b].remaining)
    BY <1>1, <1>2, <1>3, ReleaseWrites
  <2> QED
    BY <1>2, <2>1
<1>5. /\ DOMAIN e.books = DOMAIN d.books
      /\ \A x \in DOMAIN d.books :
           /\ e.books[x] \in Book
           /\ e.books[x].call = d.books[x].call /\ e.books[x].items = d.books[x].items
           /\ e.books[x].issued = d.books[x].issued /\ e.books[x].expires = d.books[x].expires
           /\ e.books[x].active = d.books[x].active
           /\ x # b => e.books[x] = d.books[x]
      /\ e.books[b].remaining = 0 /\ e.books[b].closed
  <2>1. PICK row : row = [d.books[b] EXCEPT !.remaining = 0, !.closed = TRUE]
    OBVIOUS
  <2>2. e.books = [d.books EXCEPT ![b] = row]
    BY <1>1, <1>4, <2>1 DEF Freed
  <2>3. /\ row \in Book /\ row.remaining = 0 /\ row.closed
        /\ row.call = d.books[b].call /\ row.items = d.books[b].items
        /\ row.issued = d.books[b].issued /\ row.expires = d.books[b].expires
        /\ row.active = d.books[b].active
    BY <1>1, <2>1 DEF Book
  <2> QED
    BY <1>1, <2>2, <2>3
<1>6. /\ RemainingOf(d, u) \in Nat /\ units <= RemainingOf(d, u)
      /\ RemainingOf(e, u) = RemainingOf(d, u) - units
      /\ \A v \in Buyers : v # u => RemainingOf(e, v) = RemainingOf(d, v)
  <2>1. PICK f, g, S : f = Remains(d) /\ g = Remains(e) /\ S = BooksOf(d, u)
    OBVIOUS
  <2>2. IsFiniteSet(S) /\ Summable(f, S) /\ RemainingOf(d, u) = Total(f, S) /\ Total(f, S) \in Nat
    BY <1>1, <2>1, SumsFinite
  <2>3. b \in S /\ f[b] = units /\ g[b] = 0 /\ g[b] \in Nat /\ \A y \in S : y # b => g[y] = f[y]
    BY <1>2, <1>5, <2>1 DEF Remains, BooksOf
  <2>4. Total(g, S) = Total(f, S) - f[b] + g[b] /\ f[b] <= Total(f, S)
    BY <2>2, <2>3, TotalChange
  <2>5. \A v : BooksOf(e, v) = BooksOf(d, v)
    BY <1>5 DEF BooksOf
  <2>6. RemainingOf(e, u) = Total(g, S)
    BY <2>1, <2>5 DEF RemainingOf, Remains, BooksOf
  <2>7. ASSUME NEW v \in Buyers, v # u
        PROVE  RemainingOf(e, v) = RemainingOf(d, v)
    <3>1. \A x \in BooksOf(d, v) : g[x] = f[x]
      BY <1>2, <1>5, <2>1, <2>7 DEF BooksOf, Remains
    <3>2. Total(g, BooksOf(d, v)) = Total(f, BooksOf(d, v))
      BY <3>1, TotalSame
    <3> QED
      BY <2>1, <2>5, <3>2 DEF RemainingOf, Remains, BooksOf
  <2> QED
    BY <1>3, <2>2, <2>3, <2>4, <2>6, <2>7
<1>7. /\ d.accounts[u].initial = d.accounts[u].available + RemainingOf(d, u) + RedeemedBy(d, u)
      /\ d.accounts[u].reserved = RemainingOf(d, u)
      /\ d.accounts[u].redeemed = RedeemedBy(d, u)
      /\ d.accounts[u] \in Account
  BY <1>1, <1>3 DEF DbInv, BuyersConserved
<1>8. DbTypes(e)
  <2>1. d.accounts[u].available + units \in Nat /\ d.accounts[u].reserved - units \in Nat
    BY <1>3, <1>6, <1>7 DEF Account
  <2>2. [initial |-> d.accounts[u].initial, available |-> d.accounts[u].available + units,
         reserved |-> d.accounts[u].reserved - units, redeemed |-> d.accounts[u].redeemed] \in Account
    BY <1>7, <2>1 DEF Account
  <2>3. e.accounts \in [Buyers -> Account]
    BY <1>1, <1>4, <2>2 DEF Freed
  <2>4. DOMAIN e.books \subseteq BookIds /\ e.books \in [DOMAIN e.books -> Book]
    BY <1>1, <1>4, <1>5 DEF Freed, DbTypes, DbTypeOK
  <2> QED
    BY <1>1, <1>4, <1>5, <2>3, <2>4 DEF Freed, DbTypes, DbTypeOK
<1>9. BuyersConserved(e)
  <2>1. ASSUME NEW v \in Buyers
        PROVE  /\ e.accounts[v].initial = e.accounts[v].available + RemainingOf(e, v) + RedeemedBy(e, v)
               /\ e.accounts[v].reserved = RemainingOf(e, v)
               /\ e.accounts[v].redeemed = RedeemedBy(e, v)
    <3>1. RedeemedBy(e, v) = RedeemedBy(d, v)
      BY <1>4 DEF RedeemedBy, Freed
    <3>2. CASE v # u
      BY <1>1, <1>4, <1>6, <3>1, <3>2 DEF Freed, DbInv, BuyersConserved
    <3>3. CASE v = u
      <4>1. /\ e.accounts[u].initial = d.accounts[u].initial
            /\ e.accounts[u].available = d.accounts[u].available + units
            /\ e.accounts[u].reserved = d.accounts[u].reserved - units
            /\ e.accounts[u].redeemed = d.accounts[u].redeemed
        BY <1>1, <1>3, <1>4 DEF Freed
      <4>2. d.accounts[u].available \in Nat /\ d.accounts[u].redeemed \in Nat
        BY <1>7 DEF Account
      <4> QED
        BY <1>3, <1>6, <1>7, <3>1, <3>3, <4>1, <4>2
    <3> QED
      BY <3>2, <3>3
  <2> QED
    BY <2>1 DEF BuyersConserved
<1>10. PublishersConserved(e)
  BY <1>4 DEF Freed, DbInv, PublishersConserved, AccruedTo
<1>11. RemainingIsOpen(e)
  <2>1. ASSUME NEW x \in DOMAIN d.books
        PROVE  OpenItems(e, x) = OpenItems(d, x)
    BY <1>4, <1>5 DEF Freed, OpenItems, BookItems, Redeemed
  <2> QED
    BY <1>5, <2>1 DEF DbInv, RemainingIsOpen, ItemUnits
<1>12. Budgeted(e)
  BY <1>5 DEF DbInv, Budgeted, ItemUnits, BookItems
<1>13. OneCharge(e)
  BY <1>4 DEF Freed, DbInv, OneCharge
<1>14. ReceiptsMatch(e)
  <2>1. ASSUME NEW x \in d.redemptions
        PROVE  Matches(e, x)
    BY <1>5 DEF DbInv, ReceiptsMatch, Matches, InWindow
  <2> QED
    BY <1>4, <2>1 DEF Freed, ReceiptsMatch
<1>15. OneBook(e)
  BY <1>5 DEF DbInv, OneBook
<1> QED
  BY <1>8, <1>9, <1>10, <1>11, <1>12, <1>13, <1>14, <1>15 DEF DbInv

\* What an open item costs is left in its book.
LEMMA ItemFits ==
  ASSUME NEW d, DbTypes(d), RemainingIsOpen(d), NEW b \in DOMAIN d.books, ~d.books[b].closed,
         NEW r \in OpenItems(d, b)
  PROVE  /\ d.books[b].items[r].units \in Positive
         /\ d.books[b].items[r].units <= d.books[b].remaining
         /\ ItemUnits(d.books[b], OpenItems(d, b) \ {r})
              = d.books[b].remaining - d.books[b].items[r].units
<1>1. PICK row, S : row = d.books[b] /\ S = OpenItems(d, b)
  OBVIOUS
<1>2. row \in Book /\ S \subseteq Resources /\ r \in S /\ \A x \in S : row.items[x] # NoRow
  BY <1>1 DEF DbTypes, DbTypeOK, OpenItems, BookItems
<1>3. \A x \in S : row.items[x].units \in Positive
  <2>1. \A x \in S : row.items[x] \in Item
    BY <1>2 DEF Book
  <2> QED
    BY <2>1 DEF Item
<1>4. PICK f : f = [x \in S |-> row.items[x].units]
  OBVIOUS
<1>5. IsFiniteSet(S) /\ Summable(f, S)
  BY <1>2, <1>3, <1>4, ClearingDbAssumption, FS_Subset DEF Summable, Positive
<1>6. Total(f, S) = Total(f, S \ {r}) + f[r] /\ Total(f, S \ {r}) \in Nat /\ f[r] <= Total(f, S)
  BY <1>2, <1>5, TotalRemove
<1>7. ItemUnits(row, S \ {r}) = Total(f, S \ {r})
  <2>1. PICK g : g = [x \in S \ {r} |-> row.items[x].units]
    OBVIOUS
  <2>2. \A x \in S \ {r} : g[x] = f[x]
    BY <1>4, <2>1
  <2>3. Total(g, S \ {r}) = Total(f, S \ {r})
    BY <2>2, TotalSame
  <2> QED
    BY <2>1, <2>3 DEF ItemUnits
<1>8. row.remaining = Total(f, S)
  BY <1>1, <1>4 DEF RemainingIsOpen, ItemUnits
<1>9. f[r] = row.items[r].units /\ f[r] \in Positive
  BY <1>2, <1>3, <1>4
<1> QED
  BY <1>1, <1>6, <1>7, <1>8, <1>9 DEF Positive

\* A receipt more adds its units to the sums it belongs to.
LEMMA ReceiptAdds ==
  ASSUME NEW d, DbTypes(d), NEW e, NEW x, x \notin d.redemptions, x.units \in Nat,
         e.redemptions = d.redemptions \cup {x}, NEW S \in SUBSET d.redemptions,
         NEW f, f = UnitsIn(d), NEW g, g = UnitsIn(e)
  PROVE  Total(g, S) = Total(f, S) /\ Total(g, S \cup {x}) = Total(f, S) + x.units
<1>1. IsFiniteSet(S) /\ Summable(f, S)
  BY SumsFinite
<1>2. (\A y \in S : g[y] = f[y]) /\ g[x] = x.units
  BY DEF UnitsIn
<1>3. Total(g, S) = Total(f, S)
  BY <1>2, TotalSame
<1>4. Summable(g, S) /\ x \notin S /\ g[x] \in Nat
  BY <1>1, <1>2 DEF Summable
<1>5. Total(g, S \cup {x}) = Total(g, S) + g[x]
  BY <1>1, <1>4, TotalAdd
<1> QED
  BY <1>2, <1>3, <1>5

\* A charge moves the units of one item from reserved to redeemed, and accrues
\* them to the publisher, with one receipt for both.
LEMMA RedeemKeeps ==
  ASSUME NEW d, DbInv(d), NEW c \in RedeemCall, NEW now \in Positive, CanRedeem(d, c, now),
         NEW e, e = AfterRedeem(d, c, now)
  PROVE  /\ DbInv(e)
         /\ NewReceipt(d, c, now) \in Receipt
         /\ NewReceipt(d, c, now) \notin d.redemptions
         /\ UnitsOfItem(d, c) \in Positive
         /\ UnitsOfItem(d, c) <= d.accounts[c.buyer].reserved
<1>1. DbTypes(d) /\ d.books \in [DOMAIN d.books -> Book] /\ d.accounts \in [Buyers -> Account]
      /\ d.accrued \in [Publishers -> Nat] /\ d.redemptions \subseteq Receipt
  BY DEF DbInv, DbTypes, DbTypeOK
<1>2. PICK b, u, p, r, units, x : /\ b = c.book /\ u = c.buyer /\ p = c.publisher /\ r = c.resource
                                  /\ units = UnitsOfItem(d, c) /\ x = NewReceipt(d, c, now)
  OBVIOUS
<1>3. b \in BookIds /\ u \in Buyers /\ p \in Publishers /\ r \in Resources /\ c.edition \in Editions
      /\ c.request \in Requests
  BY <1>2 DEF RedeemCall
<1>4. /\ b \in DOMAIN d.books /\ d.books[b].call.buyer = u /\ d.books[b].call.publisher = p
      /\ d.books[b].active /\ ~d.books[b].closed /\ InWindow(d.books[b], now)
      /\ r \in OpenItems(d, b) /\ d.books[b].items[r].edition = c.edition
      /\ d.books[b].items[r].units = units
  BY <1>2, <1>3 DEF CanRedeem, IsBookOf, Usable, OpenItems, BookItems, ItemUnspent, UnitsOfItem
<1>5. /\ units \in Positive /\ units \in Nat /\ units <= d.books[b].remaining
      /\ ItemUnits(d.books[b], OpenItems(d, b) \ {r}) = d.books[b].remaining - units
      /\ d.books[b].remaining \in Nat
  <2>1. RemainingIsOpen(d)
    BY DEF DbInv
  <2>2. /\ d.books[b].items[r].units \in Positive
        /\ d.books[b].items[r].units <= d.books[b].remaining
        /\ ItemUnits(d.books[b], OpenItems(d, b) \ {r})
             = d.books[b].remaining - d.books[b].items[r].units
    BY <1>1, <1>4, <2>1, ItemFits
  <2>3. d.books[b].remaining \in Nat
    BY <1>1, <1>4 DEF Book
  <2> QED
    BY <1>4, <2>2, <2>3 DEF Positive
<1>6. /\ x.buyer = u /\ x.request = c.request /\ x.book = b /\ x.resource = r /\ x.publisher = p
      /\ x.edition = c.edition /\ x.units = units /\ x.at = now
  BY <1>2 DEF NewReceipt
<1>7. x \in Receipt
  BY <1>2, <1>3, <1>5 DEF NewReceipt, Receipt
<1>8. \A y \in d.redemptions : ~(y.buyer = u /\ y.request = c.request) /\ ~(y.book = b /\ y.resource = r)
  BY <1>2, <1>4 DEF CanRedeem, NoPriorReceipt, PriorReceipt, OpenItems, Redeemed
<1>9. x \notin d.redemptions
  BY <1>6, <1>8
<1>10. Charged(d, e, c, units, x)
  <2>1. Charged(d, e, c, UnitsOfItem(d, c), NewReceipt(d, c, now))
    BY <1>1, <1>2, <1>3, <1>4, RedeemWrites
  <2> QED
    BY <1>2, <2>1
<1>11. /\ DOMAIN e.books = DOMAIN d.books
       /\ \A z \in DOMAIN d.books :
            /\ e.books[z] \in Book
            /\ e.books[z].call = d.books[z].call /\ e.books[z].items = d.books[z].items
            /\ e.books[z].issued = d.books[z].issued /\ e.books[z].expires = d.books[z].expires
            /\ e.books[z].active = d.books[z].active /\ e.books[z].closed = d.books[z].closed
            /\ z # b => e.books[z] = d.books[z]
       /\ e.books[b].remaining = d.books[b].remaining - units
  <2>1. PICK row : row = [d.books[b] EXCEPT !.remaining = @ - units]
    OBVIOUS
  <2>2. e.books = [d.books EXCEPT ![b] = row]
    BY <1>1, <1>2, <1>4, <1>10, <2>1 DEF Charged
  <2>3. d.books[b] \in Book /\ d.books[b].remaining - units \in Nat
    BY <1>1, <1>4, <1>5
  <2>4. /\ row \in Book /\ row.remaining = d.books[b].remaining - units
        /\ row.call = d.books[b].call /\ row.items = d.books[b].items
        /\ row.issued = d.books[b].issued /\ row.expires = d.books[b].expires
        /\ row.active = d.books[b].active /\ row.closed = d.books[b].closed
    BY <2>1, <2>3 DEF Book
  <2> QED
    BY <1>1, <1>4, <2>2, <2>4
<1>12. /\ RemainingOf(d, u) \in Nat /\ units <= RemainingOf(d, u)
       /\ RemainingOf(e, u) = RemainingOf(d, u) - units
       /\ \A v \in Buyers : v # u => RemainingOf(e, v) = RemainingOf(d, v)
  <2>1. PICK f, g, S : f = Remains(d) /\ g = Remains(e) /\ S = BooksOf(d, u)
    OBVIOUS
  <2>2. IsFiniteSet(S) /\ Summable(f, S) /\ RemainingOf(d, u) = Total(f, S) /\ Total(f, S) \in Nat
    BY <1>1, <2>1, SumsFinite
  <2>3. b \in S /\ f[b] = d.books[b].remaining /\ g[b] = f[b] - units /\ g[b] \in Nat
        /\ \A y \in S : y # b => g[y] = f[y]
    BY <1>4, <1>5, <1>11, <2>1 DEF Remains, BooksOf
  <2>4. Total(g, S) = Total(f, S) - f[b] + g[b] /\ f[b] <= Total(f, S)
    BY <2>2, <2>3, TotalChange
  <2>5. \A v : BooksOf(e, v) = BooksOf(d, v)
    BY <1>11 DEF BooksOf
  <2>6. RemainingOf(e, u) = Total(g, S)
    BY <2>1, <2>5 DEF RemainingOf, Remains, BooksOf
  <2>7. ASSUME NEW v \in Buyers, v # u
        PROVE  RemainingOf(e, v) = RemainingOf(d, v)
    <3>1. \A z \in BooksOf(d, v) : g[z] = f[z]
      BY <1>4, <1>11, <2>1, <2>7 DEF BooksOf, Remains
    <3>2. Total(g, BooksOf(d, v)) = Total(f, BooksOf(d, v))
      BY <3>1, TotalSame
    <3> QED
      BY <2>1, <2>5, <3>2 DEF RemainingOf, Remains, BooksOf
  <2> QED
    BY <1>5, <2>2, <2>3, <2>4, <2>6, <2>7
<1>13. /\ d.accounts[u].initial = d.accounts[u].available + RemainingOf(d, u) + RedeemedBy(d, u)
       /\ d.accounts[u].reserved = RemainingOf(d, u)
       /\ d.accounts[u].redeemed = RedeemedBy(d, u)
       /\ d.accounts[u] \in Account
  BY <1>1, <1>3 DEF DbInv, BuyersConserved
<1>14. /\ RedeemedBy(e, u) = RedeemedBy(d, u) + units
       /\ \A v \in Buyers : v # u => RedeemedBy(e, v) = RedeemedBy(d, v)
       /\ AccruedTo(e, p) = AccruedTo(d, p) + units
       /\ \A q \in Publishers : q # p => AccruedTo(e, q) = AccruedTo(d, q)
  <2> DEFINE Of(v) == {y \in d.redemptions : y.buyer = v}
             To(q) == {y \in d.redemptions : y.publisher = q}
  <2>1. e.redemptions = d.redemptions \cup {x} /\ x.units = units /\ x.units \in Nat
    BY <1>5, <1>6, <1>10 DEF Charged
  <2>2. \A S \in SUBSET d.redemptions :
          /\ Total(UnitsIn(e), S) = Total(UnitsIn(d), S)
          /\ Total(UnitsIn(e), S \cup {x}) = Total(UnitsIn(d), S) + units
    <3>1. ASSUME NEW S \in SUBSET d.redemptions
          PROVE  /\ Total(UnitsIn(e), S) = Total(UnitsIn(d), S)
                 /\ Total(UnitsIn(e), S \cup {x}) = Total(UnitsIn(d), S) + x.units
      <4>1. PICK f, g : f = UnitsIn(d) /\ g = UnitsIn(e)
        OBVIOUS
      <4>2. Total(g, S) = Total(f, S) /\ Total(g, S \cup {x}) = Total(f, S) + x.units
        BY <1>1, <1>9, <2>1, <4>1, ReceiptAdds
      <4> QED
        BY <4>1, <4>2
    <3> QED
      BY <2>1, <3>1
  <2>3. \A v, q : Of(v) \in SUBSET d.redemptions /\ To(q) \in SUBSET d.redemptions
    OBVIOUS
  <2>4. {y \in e.redemptions : y.buyer = u} = Of(u) \cup {x}
        /\ {y \in e.redemptions : y.publisher = p} = To(p) \cup {x}
    BY <1>6, <2>1
  <2>5. \A v : v # u => {y \in e.redemptions : y.buyer = v} = Of(v)
    BY <1>6, <2>1
  <2>6. \A q : q # p => {y \in e.redemptions : y.publisher = q} = To(q)
    BY <1>6, <2>1
  <2>7. \A v : /\ RedeemedBy(d, v) = Total(UnitsIn(d), Of(v))
               /\ RedeemedBy(e, v) = Total(UnitsIn(e), {y \in e.redemptions : y.buyer = v})
    BY DEF RedeemedBy, UnitsIn
  <2>8. \A q : /\ AccruedTo(d, q) = Total(UnitsIn(d), To(q))
               /\ AccruedTo(e, q) = Total(UnitsIn(e), {y \in e.redemptions : y.publisher = q})
    BY DEF AccruedTo, UnitsIn
  <2>9. RedeemedBy(e, u) = RedeemedBy(d, u) + units
    <3>1. Total(UnitsIn(e), Of(u) \cup {x}) = Total(UnitsIn(d), Of(u)) + units
      BY <2>2, <2>3
    <3> QED
      BY <2>4, <2>7, <3>1
  <2>10. AccruedTo(e, p) = AccruedTo(d, p) + units
    <3>1. Total(UnitsIn(e), To(p) \cup {x}) = Total(UnitsIn(d), To(p)) + units
      BY <2>2, <2>3
    <3> QED
      BY <2>4, <2>8, <3>1
  <2>11. ASSUME NEW v \in Buyers, v # u
         PROVE  RedeemedBy(e, v) = RedeemedBy(d, v)
    <3>1. Total(UnitsIn(e), Of(v)) = Total(UnitsIn(d), Of(v))
      BY <2>2, <2>3
    <3> QED
      BY <2>5, <2>7, <2>11, <3>1
  <2>12. ASSUME NEW q \in Publishers, q # p
         PROVE  AccruedTo(e, q) = AccruedTo(d, q)
    <3>1. Total(UnitsIn(e), To(q)) = Total(UnitsIn(d), To(q))
      BY <2>2, <2>3
    <3> QED
      BY <2>6, <2>8, <2>12, <3>1
  <2> QED
    BY <2>9, <2>10, <2>11, <2>12
<1>15. DbTypes(e)
  <2>1. d.accounts[u].reserved - units \in Nat /\ d.accounts[u].redeemed + units \in Nat
    BY <1>5, <1>12, <1>13 DEF Account
  <2>2. [initial |-> d.accounts[u].initial, available |-> d.accounts[u].available,
         reserved |-> d.accounts[u].reserved - units, redeemed |-> d.accounts[u].redeemed + units]
          \in Account
    BY <1>13, <2>1 DEF Account
  <2>3. e.accounts \in [Buyers -> Account]
    BY <1>1, <1>2, <1>10, <2>2 DEF Charged
  <2>4. DOMAIN e.books \subseteq BookIds /\ e.books \in [DOMAIN e.books -> Book]
    BY <1>1, <1>10, <1>11 DEF Charged, DbTypes, DbTypeOK
  <2>5. e.accrued \in [Publishers -> Nat]
    <3>1. e.accrued = [d.accrued EXCEPT ![p] = @ + units] /\ d.accrued[p] + units \in Nat
      BY <1>1, <1>2, <1>3, <1>5, <1>10 DEF Charged
    <3> QED
      BY <1>1, <3>1
  <2>6. IsFiniteSet(e.redemptions) /\ e.redemptions \subseteq Receipt
    <3>1. e.redemptions = d.redemptions \cup {x} /\ IsFiniteSet(d.redemptions)
      BY <1>1, <1>10 DEF Charged, DbTypes
    <3>2. IsFiniteSet(d.redemptions \cup {x})
      BY <3>1, FS_AddElement
    <3> QED
      BY <1>1, <1>7, <3>1, <3>2
  <2> QED
    BY <1>1, <1>10, <1>11, <2>3, <2>4, <2>5, <2>6 DEF Charged, DbTypes, DbTypeOK
<1>16. BuyersConserved(e)
  <2>1. ASSUME NEW v \in Buyers
        PROVE  /\ e.accounts[v].initial = e.accounts[v].available + RemainingOf(e, v) + RedeemedBy(e, v)
               /\ e.accounts[v].reserved = RemainingOf(e, v)
               /\ e.accounts[v].redeemed = RedeemedBy(e, v)
    <3>1. CASE v # u
      BY <1>1, <1>2, <1>10, <1>12, <1>14, <3>1 DEF Charged, DbInv, BuyersConserved
    <3>2. CASE v = u
      <4>1. /\ e.accounts[u].initial = d.accounts[u].initial
            /\ e.accounts[u].available = d.accounts[u].available
            /\ e.accounts[u].reserved = d.accounts[u].reserved - units
            /\ e.accounts[u].redeemed = d.accounts[u].redeemed + units
        BY <1>1, <1>2, <1>3, <1>10 DEF Charged
      <4>2. d.accounts[u].available \in Nat /\ d.accounts[u].redeemed \in Nat
        BY <1>13 DEF Account
      <4> QED
        BY <1>5, <1>12, <1>13, <1>14, <3>2, <4>1, <4>2
    <3> QED
      BY <3>1, <3>2
  <2> QED
    BY <2>1 DEF BuyersConserved
<1>17. PublishersConserved(e)
  BY <1>1, <1>2, <1>3, <1>10, <1>14 DEF Charged, DbInv, PublishersConserved
<1>18. RemainingIsOpen(e)
  <2>1. \A z, q : Redeemed(e, z, q) <=> Redeemed(d, z, q) \/ (z = b /\ q = r)
    BY <1>6, <1>10 DEF Redeemed, Charged
  <2>2. OpenItems(e, b) = OpenItems(d, b) \ {r}
    BY <1>4, <1>11, <2>1 DEF OpenItems, BookItems
  <2>3. ItemUnits(e.books[b], OpenItems(e, b)) = d.books[b].remaining - units
    BY <1>4, <1>5, <1>11, <2>2 DEF ItemUnits
  <2>4. ASSUME NEW z \in DOMAIN d.books, z # b
        PROVE  OpenItems(e, z) = OpenItems(d, z) /\ e.books[z] = d.books[z]
    BY <1>11, <2>1, <2>4 DEF OpenItems, BookItems
  <2> QED
    BY <1>4, <1>11, <2>3, <2>4 DEF DbInv, RemainingIsOpen
<1>19. Budgeted(e)
  BY <1>11 DEF DbInv, Budgeted, ItemUnits, BookItems
<1>20. OneCharge(e)
  BY <1>6, <1>8, <1>10 DEF Charged, DbInv, OneCharge
<1>21. ReceiptsMatch(e)
  <2>1. ASSUME NEW y \in d.redemptions
        PROVE  Matches(e, y)
    BY <1>11 DEF DbInv, ReceiptsMatch, Matches, InWindow
  <2>2. Matches(e, x)
    <3>1. d.books[b].items[r] = [edition |-> c.edition, units |-> units]
      <4>1. d.books[b].items[r] \in Item
        BY <1>1, <1>3, <1>4 DEF Book, OpenItems, BookItems
      <4> QED
        BY <1>4, <4>1 DEF Item
    <3> QED
      BY <1>4, <1>6, <1>11, <3>1 DEF Matches, InWindow
  <2> QED
    BY <1>10, <2>1, <2>2 DEF Charged, ReceiptsMatch
<1>22. OneBook(e)
  BY <1>11 DEF DbInv, OneBook
<1>23. DbInv(e)
  BY <1>15, <1>16, <1>17, <1>18, <1>19, <1>20, <1>21, <1>22 DEF DbInv
<1> QED
  BY <1>2, <1>5, <1>7, <1>9, <1>12, <1>13, <1>23

\* The same rows of books and redemptions fit each other as before.
LEMMA SameRows ==
  ASSUME NEW d, NEW e, e.books = d.books, e.redemptions = d.redemptions
  PROVE  /\ RemainingIsOpen(d) => RemainingIsOpen(e)
         /\ ReceiptsMatch(d) => ReceiptsMatch(e)
<1>1. \A b, r : Redeemed(e, b, r) <=> Redeemed(d, b, r)
  BY DEF Redeemed
<1>2. \A b : OpenItems(e, b) = OpenItems(d, b)
  BY <1>1 DEF OpenItems
<1>3. RemainingIsOpen(d) => RemainingIsOpen(e)
  BY <1>2 DEF RemainingIsOpen
<1>4. \A x : Matches(d, x) => Matches(e, x)
  BY DEF Matches
<1> QED
  BY <1>3, <1>4 DEF ReceiptsMatch

\* The other transactions: an account is opened, an offer made, the key revoked.
LEMMA SeedKeeps ==
  ASSUME NEW d, DbInv(d), NEW u \in Buyers, NEW units \in Balances, CanSeed(d, u),
         NEW e, e = AfterSeed(d, u, units)
  PROVE  DbInv(e) /\ d.accounts[u] = EmptyDb.accounts[u]
<1>1. DbTypes(d) /\ d.accounts \in [Buyers -> Account] /\ d.accounts[u] \in Account
  BY DEF DbInv, DbTypes, DbTypeOK
<1>2. RemainingOf(d, u) \in Nat /\ RedeemedBy(d, u) \in Nat
  <2>1. {x \in d.redemptions : x.buyer = u} \in SUBSET d.redemptions
    OBVIOUS
  <2> QED
    BY <1>1, <2>1, SumsFinite DEF RedeemedBy, UnitsIn
<1>3. /\ d.accounts[u].initial = d.accounts[u].available + RemainingOf(d, u) + RedeemedBy(d, u)
      /\ d.accounts[u].reserved = RemainingOf(d, u) /\ d.accounts[u].redeemed = RedeemedBy(d, u)
      /\ d.accounts[u].initial = 0 /\ d.accounts[u].available \in Nat
  BY <1>1 DEF DbInv, BuyersConserved, CanSeed, Account
<1>4. /\ RemainingOf(d, u) = 0 /\ RedeemedBy(d, u) = 0
      /\ d.accounts[u].available = 0 /\ d.accounts[u].reserved = 0 /\ d.accounts[u].redeemed = 0
  BY <1>2, <1>3
<1>5. d.accounts[u] = EmptyDb.accounts[u]
  BY <1>1, <1>3, <1>4 DEF Account, EmptyDb
<1>6. PICK row : row = [initial |-> units, available |-> units, reserved |-> 0, redeemed |-> 0]
  OBVIOUS
<1>7. /\ Shape(e) /\ e.accounts = [d.accounts EXCEPT ![u] = row]
      /\ e.books = d.books /\ e.offers = d.offers /\ e.accrued = d.accrued
      /\ e.redemptions = d.redemptions /\ e.revoked = d.revoked
  BY <1>1, <1>6 DEF DbTypes, Shape, AfterSeed
<1>8. units \in Nat /\ row \in Account
  BY <1>6, AccessBookAssumption DEF Account, Positive
<1>9. DbTypes(e)
  BY <1>1, <1>7, <1>8 DEF DbTypes, DbTypeOK
<1>10. BuyersConserved(e)
  <2>1. ASSUME NEW v \in Buyers
        PROVE  RemainingOf(e, v) = RemainingOf(d, v) /\ RedeemedBy(e, v) = RedeemedBy(d, v)
    BY <1>7 DEF RemainingOf, RedeemedBy
  <2>2. \A v \in Buyers : v # u => e.accounts[v] = d.accounts[v]
    BY <1>1, <1>7
  <2>3. e.accounts[u] = row
    BY <1>1, <1>7
  <2> QED
    BY <1>4, <1>6, <1>8, <2>1, <2>2, <2>3 DEF DbInv, BuyersConserved
<1>11. PublishersConserved(e) /\ Budgeted(e) /\ OneCharge(e) /\ OneBook(e)
  BY <1>7 DEF DbInv, PublishersConserved, AccruedTo, Budgeted, OneCharge, OneBook
<1>12. RemainingIsOpen(e) /\ ReceiptsMatch(e)
  BY <1>7, SameRows DEF DbInv
<1> QED
  BY <1>5, <1>9, <1>10, <1>11, <1>12 DEF DbInv

\* A database that differs in its offers or its key keeps what DbInv says.
LEMMA OffersKeep ==
  ASSUME NEW d, DbInv(d), NEW e, Shape(e), e.accounts = d.accounts, e.accrued = d.accrued,
         e.books = d.books, e.redemptions = d.redemptions, e.revoked \in BOOLEAN,
         e.offers \in [Publishers -> [Resources -> Offer \cup {NoRow}]]
  PROVE  DbInv(e)
<1>1. DbTypes(e)
  BY DEF DbInv, DbTypes, DbTypeOK
<1>2. BuyersConserved(e) /\ PublishersConserved(e)
  <2>1. \A u : RemainingOf(e, u) = RemainingOf(d, u)
    BY DEF RemainingOf
  <2>2. \A u : RedeemedBy(e, u) = RedeemedBy(d, u) /\ AccruedTo(e, u) = AccruedTo(d, u)
    BY DEF RedeemedBy, AccruedTo
  <2> QED
    BY <2>1, <2>2 DEF DbInv, BuyersConserved, PublishersConserved
<1>3. Budgeted(e) /\ OneCharge(e) /\ OneBook(e)
  BY DEF DbInv, Budgeted, OneCharge, OneBook
<1>4. RemainingIsOpen(e) /\ ReceiptsMatch(e)
  BY SameRows DEF DbInv
<1> QED
  BY <1>1, <1>2, <1>3, <1>4 DEF DbInv

\* A new offer keeps the books in order.
LEMMA SetOfferKeeps ==
  ASSUME NEW d, DbInv(d), NEW p \in Publishers, NEW r \in Resources, NEW offer \in Offers,
         NEW e, e = AfterSetOffer(d, p, r, offer)
  PROVE  DbInv(e)
<1>1. Shape(d) /\ d.offers \in [Publishers -> [Resources -> Offer \cup {NoRow}]]
      /\ d.revoked \in BOOLEAN /\ offer \in Offer
  BY AccessBookAssumption DEF DbInv, DbTypes, DbTypeOK
<1>2. /\ Shape(e) /\ e.offers = [d.offers EXCEPT ![p][r] = offer] /\ e.revoked = d.revoked
      /\ e.accounts = d.accounts /\ e.accrued = d.accrued /\ e.books = d.books
      /\ e.redemptions = d.redemptions
  BY <1>1 DEF Shape, AfterSetOffer
<1> QED
  BY <1>1, <1>2, OffersKeep

\* A revocation keeps the books in order.
LEMMA RevokeKeeps ==
  ASSUME NEW d, DbInv(d), NEW e, e = AfterRevokeKey(d)
  PROVE  DbInv(e)
<1>1. Shape(d) /\ d.offers \in [Publishers -> [Resources -> Offer \cup {NoRow}]]
  BY DEF DbInv, DbTypes, DbTypeOK
<1>2. /\ Shape(e) /\ e.offers = d.offers /\ e.revoked = TRUE
      /\ e.accounts = d.accounts /\ e.accrued = d.accrued /\ e.books = d.books
      /\ e.redemptions = d.redemptions
  BY <1>1 DEF Shape, AfterRevokeKey
<1> QED
  BY <1>1, <1>2, OffersKeep

\* An empty database is in order.
LEMMA EmptyKept == DbInv(EmptyDb)
<1> DEFINE d == EmptyDb
<1>1. DbTypes(d)
  BY FS_EmptySet DEF EmptyDb, DbTypes, Shape, DbTypeOK, Account
<1>2. ASSUME NEW u
      PROVE  RemainingOf(d, u) = 0 /\ RedeemedBy(d, u) = 0 /\ AccruedTo(d, u) = 0
  <2>1. d.redemptions = {} /\ DOMAIN d.books = {}
    BY DEF EmptyDb
  <2>2. /\ {x \in d.redemptions : x.buyer = u} = {} /\ {x \in d.redemptions : x.publisher = u} = {}
        /\ {b \in DOMAIN d.books : d.books[b].call.buyer = u} = {}
    BY <2>1
  <2> HIDE DEF d
  <2> QED
    BY <2>2, TotalEmpty DEF RemainingOf, RedeemedBy, AccruedTo
<1>3. BuyersConserved(d) /\ PublishersConserved(d)
  <2>1. /\ \A u \in Buyers : d.accounts[u] =
             [initial |-> 0, available |-> 0, reserved |-> 0, redeemed |-> 0]
        /\ \A p \in Publishers : d.accrued[p] = 0
    BY DEF EmptyDb
  <2> HIDE DEF d
  <2> QED
    BY <1>2, <2>1 DEF BuyersConserved, PublishersConserved
<1>4. RemainingIsOpen(d) /\ Budgeted(d) /\ OneCharge(d) /\ ReceiptsMatch(d) /\ OneBook(d)
  BY DEF EmptyDb, RemainingIsOpen, Budgeted, OneCharge, ReceiptsMatch, OneBook
<1> QED
  BY <1>1, <1>3, <1>4 DEF DbInv

-------------------------------------------------------------------------------
\* What no transaction takes back, from d to e: receipts, accruals, the terms of
\* books and their activation are kept, a closed book and a revoked key stay out of
\* use, a book is admitted under the pinned key only, and an account is opened once.
Permanent(d, e) ==
  /\ d.redemptions \subseteq e.redemptions
  /\ \A p \in Publishers : e.accrued[p] >= d.accrued[p]
  /\ \A b \in DOMAIN d.books :
       /\ b \in DOMAIN e.books
       /\ e.books[b].items = d.books[b].items
       /\ e.books[b].expires = d.books[b].expires
       /\ e.books[b].signer = d.books[b].signer
       /\ d.books[b].active => e.books[b].active

ClosedForGood(d, e) ==
  \A b \in DOMAIN d.books : d.books[b].closed =>
    /\ e.books[b].closed
    /\ \A x \in e.redemptions \ d.redemptions : x.book # b

RevokedForGood(d, e) ==
  d.revoked =>
    /\ e.revoked
    /\ DOMAIN e.books = DOMAIN d.books
    /\ e.redemptions = d.redemptions
    /\ \A b \in DOMAIN d.books : e.books[b].active => d.books[b].active

AdmittedUnder(d, e, k) ==
  \A b \in DOMAIN e.books :
    e.books[b].active /\ ~(b \in DOMAIN d.books /\ d.books[b].active) => e.books[b].signer = k

OpenedOnce(d, e) ==
  \A u \in Buyers : e.accounts[u].initial = d.accounts[u].initial \/ e.accounts[u].initial \in Balances

Follows(d, e, k) ==
  /\ Permanent(d, e) /\ ClosedForGood(d, e) /\ RevokedForGood(d, e)
  /\ AdmittedUnder(d, e, k) /\ OpenedOnce(d, e)

\* A database follows itself.
LEMMA FollowsItself ==
  ASSUME NEW d, DbTypes(d), NEW k
  PROVE  Follows(d, d, k)
<1>1. \A p \in Publishers : d.accrued[p] >= d.accrued[p]
  BY DEF DbTypes, DbTypeOK
<1> QED
  BY <1>1 DEF Follows, Permanent, ClosedForGood, RevokedForGood, AdmittedUnder, OpenedOnce

\* What follows a follower follows the first.
LEMMA FollowsOn ==
  ASSUME NEW c, DbTypes(c), NEW d, DbTypes(d), NEW e, DbTypes(e), NEW k,
         Follows(c, d, k), Follows(d, e, k)
  PROVE  Follows(c, e, k)
<1>1. Permanent(c, e)
  <2>1. \A p \in Publishers : e.accrued[p] >= c.accrued[p]
    <3>1. \A p \in Publishers : c.accrued[p] \in Nat /\ d.accrued[p] \in Nat /\ e.accrued[p] \in Nat
      BY DEF DbTypes, DbTypeOK
    <3> QED
      BY <3>1 DEF Follows, Permanent
  <2> QED
    BY <2>1 DEF Follows, Permanent
<1>2. ClosedForGood(c, e)
  <2> SUFFICES ASSUME NEW b \in DOMAIN c.books, c.books[b].closed
               PROVE  /\ e.books[b].closed
                      /\ \A x \in e.redemptions \ c.redemptions : x.book # b
    BY DEF ClosedForGood
  <2>1. b \in DOMAIN d.books /\ d.books[b].closed /\ \A x \in d.redemptions \ c.redemptions : x.book # b
    BY DEF Follows, Permanent, ClosedForGood
  <2>2. e.books[b].closed /\ \A x \in e.redemptions \ d.redemptions : x.book # b
    BY <2>1 DEF Follows, ClosedForGood
  <2> QED
    BY <2>1, <2>2
<1>3. RevokedForGood(c, e)
  BY DEF Follows, RevokedForGood
<1>4. AdmittedUnder(c, e, k)
  <2> SUFFICES ASSUME NEW b \in DOMAIN e.books, e.books[b].active,
                      ~(b \in DOMAIN c.books /\ c.books[b].active)
               PROVE  e.books[b].signer = k
    BY DEF AdmittedUnder
  <2>1. CASE b \in DOMAIN d.books /\ d.books[b].active
    <3>1. d.books[b].signer = k
      BY <2>1 DEF Follows, AdmittedUnder
    <3>2. e.books[b].signer = d.books[b].signer
      BY <2>1 DEF Follows, Permanent
    <3> QED
      BY <3>1, <3>2
  <2>2. CASE ~(b \in DOMAIN d.books /\ d.books[b].active)
    BY <2>2 DEF Follows, AdmittedUnder
  <2> QED
    BY <2>1, <2>2
<1>5. OpenedOnce(c, e)
  BY DEF Follows, OpenedOnce
<1> QED
  BY <1>1, <1>2, <1>3, <1>4, <1>5 DEF Follows

\* Each transaction leads to a database that follows the one it began with.
LEMMA IssueFollows ==
  ASSUME NEW d, DbInv(d), NEW c \in IssueCall, NEW now \in Positive, CanIssue(d, c, now),
         NEW b \in BookIds, b \notin DOMAIN d.books, NEW signer \in AuthorityKeys,
         NEW e, e = AfterIssue(d, c, now, b, signer), NEW k
  PROVE  Follows(d, e, k)
<1>1. DbTypes(d) /\ c.buyer \in Buyers /\ ~d.revoked
  BY DEF DbInv, CanIssue, IssueCall, KeyOk
<1>2. PICK row, units : row = NewBook(d, c, now, signer) /\ units = Price(d, c)
  OBVIOUS
<1>3. Issued(d, e, c, b, row, units)
  <2>1. Issued(d, e, c, b, NewBook(d, c, now, signer), Price(d, c))
    BY <1>1, IssueWrites
  <2> QED
    BY <1>2, <2>1
<1>4. row.active = FALSE
  BY <1>2 DEF NewBook
<1>5. Permanent(d, e) /\ ClosedForGood(d, e) /\ RevokedForGood(d, e)
  <2>1. \A p \in Publishers : d.accrued[p] >= d.accrued[p]
    BY <1>1 DEF DbTypes, DbTypeOK
  <2> QED
    BY <1>1, <1>3, <2>1 DEF Issued, Permanent, ClosedForGood, RevokedForGood
<1>6. AdmittedUnder(d, e, k)
  BY <1>3, <1>4 DEF Issued, AdmittedUnder
<1>7. OpenedOnce(d, e)
  <2>1. d.accounts \in [Buyers -> Account]
    BY <1>1 DEF DbTypes, DbTypeOK
  <2> QED
    BY <1>1, <1>3, <2>1 DEF Issued, OpenedOnce
<1> QED
  BY <1>5, <1>6, <1>7 DEF Follows

\* An activation takes nothing back.
LEMMA ActivateFollows ==
  ASSUME NEW d, DbInv(d), NEW b, NEW token, NEW buyer, NEW publisher, NEW now, NEW later, NEW k,
         CanActivate(d, b, token, buyer, publisher, now, later, k),
         NEW e, e = AfterActivate(d, b)
  PROVE  b \in DOMAIN d.books /\ Follows(d, e, k)
<1>1. /\ DbTypes(d) /\ b \in DOMAIN d.books /\ ~d.revoked
      /\ d.books[b].active \/ d.books[b].signer = k
  BY DEF DbInv, CanActivate, IsBookOf, KeyOk, TokenGood
<1>2. /\ e.books = [d.books EXCEPT ![b].active = TRUE]
      /\ e.accounts = d.accounts /\ e.accrued = d.accrued /\ e.redemptions = d.redemptions
  BY <1>1, ActivateWrites
<1>3. /\ DOMAIN e.books = DOMAIN d.books
      /\ \A x \in DOMAIN d.books :
           /\ e.books[x].items = d.books[x].items /\ e.books[x].expires = d.books[x].expires
           /\ e.books[x].signer = d.books[x].signer /\ e.books[x].closed = d.books[x].closed
           /\ d.books[x].active => e.books[x].active
           /\ x # b => e.books[x] = d.books[x]
  <2>1. PICK row : row = [d.books[b] EXCEPT !.active = TRUE]
    OBVIOUS
  <2>2. d.books \in [DOMAIN d.books -> Book] /\ d.books[b] \in Book
    BY <1>1 DEF DbTypes, DbTypeOK
  <2>3. e.books = [d.books EXCEPT ![b] = row]
    BY <1>2, <2>1
  <2>4. /\ row.items = d.books[b].items /\ row.expires = d.books[b].expires
        /\ row.signer = d.books[b].signer /\ row.closed = d.books[b].closed /\ row.active
    BY <2>1, <2>2 DEF Book
  <2> QED
    BY <2>2, <2>3, <2>4
<1>4. Permanent(d, e) /\ ClosedForGood(d, e) /\ RevokedForGood(d, e)
  <2>1. \A p \in Publishers : d.accrued[p] >= d.accrued[p]
    BY <1>1 DEF DbTypes, DbTypeOK
  <2> QED
    BY <1>1, <1>2, <1>3, <2>1 DEF Permanent, ClosedForGood, RevokedForGood
<1>5. AdmittedUnder(d, e, k)
  BY <1>1, <1>3 DEF AdmittedUnder
<1>6. OpenedOnce(d, e)
  BY <1>2 DEF OpenedOnce
<1> QED
  BY <1>1, <1>4, <1>5, <1>6 DEF Follows

\* A redemption takes nothing back.
LEMMA RedeemFollows ==
  ASSUME NEW d, DbInv(d), NEW c \in RedeemCall, NEW now \in Positive, CanRedeem(d, c, now),
         NEW e, e = AfterRedeem(d, c, now), NEW k
  PROVE  Follows(d, e, k)
<1>1. /\ DbTypes(d) /\ c.book \in DOMAIN d.books /\ ~d.revoked /\ ~d.books[c.book].closed
      /\ c.buyer \in Buyers /\ c.publisher \in Publishers
  BY DEF DbInv, CanRedeem, IsBookOf, KeyOk, Usable, RedeemCall
<1>2. PICK b, units, x : b = c.book /\ units = UnitsOfItem(d, c) /\ x = NewReceipt(d, c, now)
  OBVIOUS
<1>3. units \in Nat /\ x.book = b
  <2>1. UnitsOfItem(d, c) \in Positive
    BY RedeemKeeps
  <2> QED
    BY <1>2, <2>1 DEF NewReceipt, Positive
<1>4. Charged(d, e, c, units, x)
  <2>1. Charged(d, e, c, UnitsOfItem(d, c), NewReceipt(d, c, now))
    BY <1>1, RedeemWrites
  <2> QED
    BY <1>2, <2>1
<1>5. /\ DOMAIN e.books = DOMAIN d.books
      /\ \A y \in DOMAIN d.books :
           /\ e.books[y].items = d.books[y].items /\ e.books[y].expires = d.books[y].expires
           /\ e.books[y].signer = d.books[y].signer /\ e.books[y].closed = d.books[y].closed
           /\ e.books[y].active = d.books[y].active
  <2>1. PICK row : row = [d.books[b] EXCEPT !.remaining = @ - units]
    OBVIOUS
  <2>2. d.books \in [DOMAIN d.books -> Book] /\ d.books[b] \in Book
    BY <1>1, <1>2 DEF DbTypes, DbTypeOK
  <2>3. e.books = [d.books EXCEPT ![b] = row]
    BY <1>1, <1>2, <1>4, <2>1, <2>2 DEF Charged
  <2>4. /\ row.items = d.books[b].items /\ row.expires = d.books[b].expires
        /\ row.signer = d.books[b].signer /\ row.closed = d.books[b].closed
        /\ row.active = d.books[b].active
    BY <2>1, <2>2 DEF Book
  <2> QED
    BY <2>2, <2>3, <2>4
<1>6. Permanent(d, e)
  <2>1. \A p \in Publishers : e.accrued[p] >= d.accrued[p]
    <3>1. d.accrued \in [Publishers -> Nat]
      BY <1>1 DEF DbTypes, DbTypeOK
    <3> QED
      BY <1>1, <1>3, <1>4, <3>1 DEF Charged
  <2> QED
    BY <1>4, <1>5, <2>1 DEF Charged, Permanent
<1>7. ClosedForGood(d, e)
  BY <1>1, <1>2, <1>3, <1>4, <1>5 DEF Charged, ClosedForGood
<1>8. RevokedForGood(d, e) /\ AdmittedUnder(d, e, k)
  BY <1>1, <1>5 DEF RevokedForGood, AdmittedUnder
<1>9. OpenedOnce(d, e)
  <2>1. d.accounts \in [Buyers -> Account]
    BY <1>1 DEF DbTypes, DbTypeOK
  <2> QED
    BY <1>1, <1>4, <2>1 DEF Charged, OpenedOnce
<1> QED
  BY <1>6, <1>7, <1>8, <1>9 DEF Follows

\* A release takes nothing back.
LEMMA ReleaseFollows ==
  ASSUME NEW d, DbInv(d), NEW b \in DOMAIN d.books, NEW e, e = AfterRelease(d, b), NEW k
  PROVE  Follows(d, e, k)
<1>1. DbTypes(d) /\ d.books \in [DOMAIN d.books -> Book] /\ d.books[b] \in Book
  BY DEF DbInv, DbTypes, DbTypeOK
<1>2. PICK u, units : u = d.books[b].call.buyer /\ units = d.books[b].remaining
  OBVIOUS
<1>3. u \in Buyers
  BY <1>1, <1>2 DEF Book, IssueCall
<1>4. Freed(d, e, b, u, units)
  <2>1. Freed(d, e, b, d.books[b].call.buyer, d.books[b].remaining)
    BY <1>1, <1>2, <1>3, ReleaseWrites
  <2> QED
    BY <1>2, <2>1
<1>5. /\ DOMAIN e.books = DOMAIN d.books
      /\ \A y \in DOMAIN d.books :
           /\ e.books[y].items = d.books[y].items /\ e.books[y].expires = d.books[y].expires
           /\ e.books[y].signer = d.books[y].signer /\ e.books[y].active = d.books[y].active
           /\ d.books[y].closed => e.books[y].closed
  <2>1. PICK row : row = [d.books[b] EXCEPT !.remaining = 0, !.closed = TRUE]
    OBVIOUS
  <2>2. e.books = [d.books EXCEPT ![b] = row]
    BY <1>1, <1>4, <2>1 DEF Freed
  <2>3. /\ row.items = d.books[b].items /\ row.expires = d.books[b].expires
        /\ row.signer = d.books[b].signer /\ row.active = d.books[b].active /\ row.closed
    BY <1>1, <2>1 DEF Book
  <2> QED
    BY <1>1, <2>2, <2>3
<1>6. Permanent(d, e) /\ ClosedForGood(d, e) /\ RevokedForGood(d, e) /\ AdmittedUnder(d, e, k)
  <2>1. \A p \in Publishers : d.accrued[p] >= d.accrued[p]
    BY <1>1 DEF DbTypes, DbTypeOK
  <2> QED
    BY <1>4, <1>5, <2>1 DEF Freed, Permanent, ClosedForGood, RevokedForGood, AdmittedUnder
<1>7. OpenedOnce(d, e)
  <2>1. d.accounts \in [Buyers -> Account]
    BY <1>1 DEF DbTypes, DbTypeOK
  <2> QED
    BY <1>3, <1>4, <2>1 DEF Freed, OpenedOnce
<1> QED
  BY <1>6, <1>7 DEF Follows

\* Offers, deposits and revocations take nothing back.
LEMMA OthersFollow ==
  ASSUME NEW d, DbInv(d), NEW e, e.accrued = d.accrued, e.books = d.books,
         e.redemptions = d.redemptions, d.revoked => e.revoked, OpenedOnce(d, e), NEW k
  PROVE  Follows(d, e, k)
<1>1. \A p \in Publishers : d.accrued[p] >= d.accrued[p]
  BY DEF DbInv, DbTypes, DbTypeOK
<1> QED
  BY <1>1 DEF Follows, Permanent, ClosedForGood, RevokedForGood, AdmittedUnder

-------------------------------------------------------------------------------
\* The invariant of the service: of its database, and of the answers it gave.
Opened(d) == \A u \in Buyers : d.accounts[u].initial \in {0} \cup Balances

IInv ==
  /\ DbInv(db) /\ Opened(db)
  /\ authority \in [signs : AuthorityKeys, trusts : AuthorityKeys]
  /\ delivered \subseteq db.redemptions

\* What a step does to the database, and answers.
Serves(d, e, k) == DbInv(e) /\ Follows(d, e, k)

\* Two transactions in a row serve as one.
LEMMA ServesOn ==
  ASSUME NEW c, DbInv(c), NEW d, NEW e, NEW k, Serves(c, d, k), Serves(d, e, k)
  PROVE  Serves(c, e, k)
BY FollowsOn DEF Serves, DbInv

\* An answer that is delivered is in the database, and stays in it.
LEMMA AnswersHeld ==
  ASSUME DbInv(db), delivered \subseteq db.redemptions, NEW k, Follows(db, db', k),
         NEW x, x \in db'.redemptions, Answers(x)
  PROVE  delivered' \subseteq db'.redemptions
BY DEF Answers, Follows, Permanent

\* A deposit keeps the books and takes nothing back.
LEMMA SeedStep ==
  ASSUME IInv, NEW u \in Buyers, NEW units \in Balances, Seed(u, units)
  PROVE  Serves(db, db', authority.trusts) /\ delivered' \subseteq db'.redemptions
<1>1. DbInv(db) /\ DbTypes(db) /\ Shape(db) /\ db.accounts \in [Buyers -> Account]
      /\ delivered \subseteq db.redemptions
  BY DEF IInv, DbInv, DbTypes, DbTypeOK
<1>2. DbInv(db')
  BY <1>1, SeedKeeps DEF Seed
<1>3. /\ db'.accounts = [db.accounts EXCEPT ![u] =
             [initial |-> units, available |-> units, reserved |-> 0, redeemed |-> 0]]
      /\ db'.books = db.books /\ db'.accrued = db.accrued
      /\ db'.redemptions = db.redemptions /\ db'.revoked = db.revoked
  BY <1>1 DEF Seed, Shape, AfterSeed
<1>4. OpenedOnce(db, db')
  BY <1>1, <1>3 DEF OpenedOnce
<1> QED
  BY <1>1, <1>2, <1>3, <1>4, OthersFollow DEF Serves, Seed

\* So does an offer,
LEMMA SetOfferStep ==
  ASSUME IInv, NEW p \in Publishers, NEW r \in Resources, NEW offer \in Offers,
         SetOffer(p, r, offer)
  PROVE  Serves(db, db', authority.trusts) /\ delivered' \subseteq db'.redemptions
<1>1. DbInv(db) /\ Shape(db) /\ delivered \subseteq db.redemptions
  BY DEF IInv, DbInv, DbTypes
<1>2. DbInv(db')
  BY <1>1, SetOfferKeeps DEF SetOffer
<1>3. /\ db'.accounts = db.accounts /\ db'.books = db.books /\ db'.accrued = db.accrued
      /\ db'.redemptions = db.redemptions /\ db'.revoked = db.revoked
  BY <1>1 DEF SetOffer, Shape, AfterSetOffer
<1> QED
  BY <1>1, <1>2, <1>3, OthersFollow DEF Serves, SetOffer, OpenedOnce

\* a revocation of the key,
LEMMA RevokeStep ==
  ASSUME IInv, RevokeKey
  PROVE  Serves(db, db', authority.trusts) /\ delivered' \subseteq db'.redemptions
<1>1. DbInv(db) /\ Shape(db) /\ delivered \subseteq db.redemptions
  BY DEF IInv, DbInv, DbTypes
<1>2. DbInv(db')
  BY <1>1, RevokeKeeps DEF RevokeKey
<1>3. /\ db'.accounts = db.accounts /\ db'.books = db.books /\ db'.accrued = db.accrued
      /\ db'.redemptions = db.redemptions /\ db'.revoked
  BY <1>1 DEF RevokeKey, Shape, AfterRevokeKey
<1> QED
  BY <1>1, <1>2, <1>3, OthersFollow DEF Serves, RevokeKey, OpenedOnce

\* The transactions of one database, as a step of the service uses them.
LEMMA IssueServes ==
  ASSUME NEW d, DbInv(d), NEW c \in IssueCall, NEW now \in Times, CanIssue(d, c, now),
         NEW b \in BookIds \ DOMAIN d.books, NEW signer \in AuthorityKeys,
         NEW e, e = AfterIssue(d, c, now, b, signer), NEW k
  PROVE  Serves(d, e, k)
BY AccessBookAssumption, IssueKeeps, IssueFollows DEF Serves

\* an activation as a transaction,
LEMMA ActivateServes ==
  ASSUME NEW d, DbInv(d), NEW b, NEW token, NEW buyer, NEW publisher, NEW now, NEW later, NEW k,
         CanActivate(d, b, token, buyer, publisher, now, later, k),
         NEW e, e = AfterActivate(d, b)
  PROVE  Serves(d, e, k)
BY ActivateKeeps, ActivateFollows DEF Serves

\* a redemption as a transaction, which leaves its receipt,
LEMMA RedeemServes ==
  ASSUME NEW d, DbInv(d), NEW c \in RedeemCall, NEW now \in Times, CanRedeem(d, c, now),
         NEW e, e = AfterRedeem(d, c, now), NEW k
  PROVE  Serves(d, e, k) /\ NewReceipt(d, c, now) \in e.redemptions
<1>1. now \in Positive
  BY AccessBookAssumption
<1>2. NewReceipt(d, c, now) \in e.redemptions
  <2>1. Shape(d)
    BY DEF DbInv, DbTypes
  <2> QED
    BY <2>1 DEF Shape, AfterRedeem
<1> QED
  BY <1>1, <1>2, RedeemKeeps, RedeemFollows DEF Serves

\* A call the service may get is one that a book may carry.
LEMMA CallsTyped ==
  /\ Calls \subseteq IssueCall
  /\ \A c \in PurchaseCall : PurchaseIssue(c) \in IssueCall
  /\ \A c \in PurchaseCall, b \in BookIds : PurchaseRedeem(c, b) \in RedeemCall
<1>1. Calls \subseteq IssueCall
  BY AccessBookAssumption DEF Calls, IssueCall
<1>2. ASSUME NEW c \in PurchaseCall
      PROVE  PurchaseIssue(c) \in IssueCall
  BY ClearingDbAssumption, AccessBookAssumption DEF PurchaseCall, PurchaseIssue, IssueCall
<1>3. ASSUME NEW c \in PurchaseCall, NEW b \in BookIds
      PROVE  PurchaseRedeem(c, b) \in RedeemCall
  BY DEF PurchaseCall, PurchaseRedeem, RedeemCall
<1> QED
  BY <1>1, <1>2, <1>3

\* and so do the calls: an issue,
LEMMA IssueStep ==
  ASSUME IInv, NEW c \in Calls, Issue(c)
  PROVE  Serves(db, db', authority.trusts) /\ delivered' \subseteq db'.redemptions
<1>1. PICK now \in Times, b \in BookIds \ DOMAIN db.books :
        CanIssue(db, c, now) /\ db' = AfterIssue(db, c, now, b, authority.signs)
  BY DEF Issue
<1>2. DbInv(db) /\ c \in IssueCall /\ authority.signs \in AuthorityKeys
  BY CallsTyped DEF IInv
<1>3. Serves(db, db', authority.trusts)
  BY <1>1, <1>2, IssueServes
<1> QED
  BY <1>3 DEF IInv, Issue, Serves, Follows, Permanent

\* an activation,
LEMMA ActivateStep ==
  ASSUME IInv, NEW token \in BookTokens, NEW u \in Buyers, NEW p \in Publishers,
         Activate(token, u, p)
  PROVE  Serves(db, db', authority.trusts) /\ delivered' \subseteq db'.redemptions
<1>1. PICK now, later \in Times :
        CanActivate(db, token.book, token, u, p, now, later, authority.trusts)
  BY DEF Activate
<1>2. DbInv(db) /\ db' = AfterActivate(db, token.book)
  BY DEF IInv, Activate
<1>3. Serves(db, db', authority.trusts)
  BY <1>1, <1>2, ActivateServes
<1> QED
  BY <1>3 DEF IInv, Activate, Serves, Follows, Permanent

\* a release,
LEMMA ReleaseStep ==
  ASSUME IInv, NEW b \in BookIds, NEW u \in Buyers, Release(b, u)
  PROVE  Serves(db, db', authority.trusts) /\ delivered' \subseteq db'.redemptions
<1>1. DbInv(db) /\ b \in DOMAIN db.books /\ db' = AfterRelease(db, b)
  BY DEF IInv, Release, CanRelease
<1>2. Serves(db, db', authority.trusts)
  BY <1>1, ReleaseKeeps, ReleaseFollows DEF Serves
<1> QED
  BY <1>2 DEF IInv, Release, Serves, Follows, Permanent

\* a redemption.
LEMMA RedeemStep ==
  ASSUME IInv, NEW c \in RedeemCall, Redeem(c)
  PROVE  Serves(db, db', authority.trusts) /\ delivered' \subseteq db'.redemptions
<1>1. DbInv(db) /\ DbTypes(db) /\ delivered \subseteq db.redemptions
  BY DEF IInv, DbInv
<1>2. CASE \E x \in PriorReceipt(db, c) : Answers(x) /\ UNCHANGED db
  <2>1. PICK x \in PriorReceipt(db, c) : Answers(x) /\ UNCHANGED db
    BY <1>2
  <2>2. Serves(db, db', authority.trusts)
    BY <1>1, <2>1, FollowsItself DEF Serves
  <2>3. x \in db'.redemptions
    BY <2>1 DEF PriorReceipt
  <2> QED
    BY <1>1, <2>1, <2>2, <2>3, AnswersHeld DEF Serves
<1>3. CASE \E now \in Times : /\ CanRedeem(db, c, now) /\ db' = AfterRedeem(db, c, now)
                              /\ Answers(NewReceipt(db, c, now))
  <2>1. PICK now \in Times : /\ CanRedeem(db, c, now) /\ db' = AfterRedeem(db, c, now)
                             /\ Answers(NewReceipt(db, c, now))
    BY <1>3
  <2>2. Serves(db, db', authority.trusts) /\ NewReceipt(db, c, now) \in db'.redemptions
    BY <1>1, <2>1, RedeemServes
  <2> QED
    BY <1>1, <2>1, <2>2, AnswersHeld DEF Serves
<1> QED
  BY <1>2, <1>3 DEF Redeem

\* purchase() is one transaction of several, each from what the last one left.
MayIssue(d, call, signer, e) ==
  \/ e = d
  \/ \E now \in Times, x \in BookIds \ DOMAIN d.books :
       CanIssue(d, call, now) /\ e = AfterIssue(d, call, now, x, signer)

MayCharge(d, c, b, k, e, x) ==
  \E now, later, last \in Times :
    /\ CanActivate(d, b, [book |-> b, signer |-> d.books[b].signer], c.buyer, c.publisher,
                   now, later, k)
    /\ CanRedeem(AfterActivate(d, b), PurchaseRedeem(c, b), last)
    /\ e = AfterRedeem(AfterActivate(d, b), PurchaseRedeem(c, b), last)
    /\ x = NewReceipt(AfterActivate(d, b), PurchaseRedeem(c, b), last)

\* A purchase is an issue, and on the database that leaves a charge or an earlier receipt.
LEMMA PurchaseParts ==
  ASSUME NEW c, Purchase(c)
  PROVE  \E b \in BookIds : \E issued, x :
           /\ MayIssue(db, PurchaseIssue(c), authority.signs, issued)
           /\ b \in DOMAIN issued.books /\ issued.books[b].call = PurchaseIssue(c)
           /\ \/ x \in PriorReceipt(issued, PurchaseRedeem(c, b)) /\ db' = issued
              \/ MayCharge(issued, c, b, authority.trusts, db', x)
           /\ Answers(x)
<1>1. PICK b, issued :
        /\ b \in BookIds
        /\ MayIssue(db, PurchaseIssue(c), authority.signs, issued)
        /\ b \in DOMAIN issued.books
        /\ issued.books[b].call = PurchaseIssue(c)
        /\ \/ \E x \in PriorReceipt(issued, PurchaseRedeem(c, b)) :
                /\ SameRequest(x, PurchaseRedeem(c, b))
                /\ db' = issued
                /\ Answers(x)
           \/ \E now, later, last \in Times :
                /\ CanActivate(issued, b, [book |-> b, signer |-> issued.books[b].signer],
                               c.buyer, c.publisher, now, later, authority.trusts)
                /\ CanRedeem(AfterActivate(issued, b), PurchaseRedeem(c, b), last)
                /\ db' = AfterRedeem(AfterActivate(issued, b), PurchaseRedeem(c, b), last)
                /\ Answers(NewReceipt(AfterActivate(issued, b), PurchaseRedeem(c, b), last))
  BY DEF Purchase, MayIssue
<1>3. \E x : /\ \/ x \in PriorReceipt(issued, PurchaseRedeem(c, b)) /\ db' = issued
                \/ MayCharge(issued, c, b, authority.trusts, db', x)
             /\ Answers(x)
  <2>1. CASE \E x \in PriorReceipt(issued, PurchaseRedeem(c, b)) : db' = issued /\ Answers(x)
    BY <2>1
  <2>2. ASSUME NEW now \in Times, NEW later \in Times, NEW last \in Times,
               CanActivate(issued, b, [book |-> b, signer |-> issued.books[b].signer],
                           c.buyer, c.publisher, now, later, authority.trusts),
               CanRedeem(AfterActivate(issued, b), PurchaseRedeem(c, b), last),
               db' = AfterRedeem(AfterActivate(issued, b), PurchaseRedeem(c, b), last),
               Answers(NewReceipt(AfterActivate(issued, b), PurchaseRedeem(c, b), last))
        PROVE  \E x : MayCharge(issued, c, b, authority.trusts, db', x) /\ Answers(x)
    <3>1. PICK x : x = NewReceipt(AfterActivate(issued, b), PurchaseRedeem(c, b), last)
      OBVIOUS
    <3>2. MayCharge(issued, c, b, authority.trusts, db', x)
      BY <2>2, <3>1 DEF MayCharge
    <3> QED
      BY <2>2, <3>1, <3>2
  <2> QED
    BY <1>1, <2>1, <2>2
<1> QED
  BY <1>1, <1>3

\* The issue within a purchase serves,
LEMMA MayIssueServes ==
  ASSUME NEW d, DbInv(d), NEW call \in IssueCall, NEW signer \in AuthorityKeys, NEW e,
         MayIssue(d, call, signer, e), NEW k
  PROVE  Serves(d, e, k)
<1>1. CASE e = d
  BY <1>1, FollowsItself DEF Serves, DbInv
<1>2. CASE \E now \in Times, x \in BookIds \ DOMAIN d.books :
             CanIssue(d, call, now) /\ e = AfterIssue(d, call, now, x, signer)
  BY <1>2, IssueServes
<1> QED
  BY <1>1, <1>2 DEF MayIssue

\* the charge within it serves and leaves the receipt,
LEMMA MayChargeServes ==
  ASSUME NEW d, DbInv(d), NEW c \in PurchaseCall, NEW b \in BookIds, NEW k, NEW e, NEW x,
         MayCharge(d, c, b, k, e, x)
  PROVE  Serves(d, e, k) /\ x \in e.redemptions
<1>1. PICK now, later, last \in Times :
        /\ CanActivate(d, b, [book |-> b, signer |-> d.books[b].signer], c.buyer, c.publisher,
                       now, later, k)
        /\ CanRedeem(AfterActivate(d, b), PurchaseRedeem(c, b), last)
        /\ e = AfterRedeem(AfterActivate(d, b), PurchaseRedeem(c, b), last)
        /\ x = NewReceipt(AfterActivate(d, b), PurchaseRedeem(c, b), last)
  BY DEF MayCharge
<1>2. PICK activated, rc : activated = AfterActivate(d, b) /\ rc = PurchaseRedeem(c, b)
  OBVIOUS
<1>3. Serves(d, activated, k) /\ DbInv(activated)
  BY <1>1, <1>2, ActivateServes DEF Serves
<1>4. rc \in RedeemCall
  BY <1>2, CallsTyped
<1>5. Serves(activated, e, k) /\ x \in e.redemptions
  BY <1>1, <1>2, <1>3, <1>4, RedeemServes
<1> QED
  BY <1>3, <1>5, ServesOn

\* and so does the purchase as a whole.
LEMMA PurchaseStep ==
  ASSUME IInv, NEW c \in PurchaseCall, Purchase(c)
  PROVE  Serves(db, db', authority.trusts) /\ delivered' \subseteq db'.redemptions
<1>1. /\ DbInv(db) /\ delivered \subseteq db.redemptions /\ authority.signs \in AuthorityKeys
      /\ PurchaseIssue(c) \in IssueCall
  BY CallsTyped DEF IInv
<1>2. PICK b, issued, x :
        /\ b \in BookIds
        /\ MayIssue(db, PurchaseIssue(c), authority.signs, issued)
        /\ \/ x \in PriorReceipt(issued, PurchaseRedeem(c, b)) /\ db' = issued
           \/ MayCharge(issued, c, b, authority.trusts, db', x)
        /\ Answers(x)
  BY PurchaseParts
<1>3. Serves(db, issued, authority.trusts) /\ DbInv(issued)
  BY <1>1, <1>2, MayIssueServes DEF Serves
<1>4. Serves(db, db', authority.trusts) /\ x \in db'.redemptions
  <2>1. CASE x \in PriorReceipt(issued, PurchaseRedeem(c, b)) /\ db' = issued
    BY <1>3, <2>1 DEF PriorReceipt
  <2>2. CASE MayCharge(issued, c, b, authority.trusts, db', x)
    <3>1. Serves(issued, db', authority.trusts) /\ x \in db'.redemptions
      BY <1>2, <1>3, <2>2, MayChargeServes
    <3> QED
      BY <1>1, <1>3, <3>1, ServesOn
  <2> QED
    BY <1>2, <2>1, <2>2
<1> QED
  BY <1>1, <1>2, <1>4, AnswersHeld DEF Serves

-------------------------------------------------------------------------------
\* The invariant holds at the start.
LEMMA BooksInit == Init => IInv
<1> SUFFICES ASSUME Init PROVE IInv
  OBVIOUS
<1>1. db = EmptyDb /\ delivered = {}
      /\ authority \in [signs : AuthorityKeys, trusts : AuthorityKeys]
  BY DEF Init
<1>2. DbInv(db)
  BY <1>1, EmptyKept
<1>3. Opened(db)
  BY <1>1 DEF Opened, EmptyDb
<1> QED
  BY <1>1, <1>2, <1>3 DEF IInv

\* Each step serves its callers from the database it found.
LEMMA NextServes ==
  ASSUME IInv, [Next]_vars
  PROVE  Serves(db, db', authority.trusts) /\ delivered' \subseteq db'.redemptions
<1>1. CASE \E u \in Buyers, units \in Balances : Seed(u, units)
  BY <1>1, SeedStep
<1>2. CASE \E p \in Publishers, r \in Resources, offer \in Offers : SetOffer(p, r, offer)
  BY <1>2, SetOfferStep
<1>3. CASE RevokeKey
  BY <1>3, RevokeStep
<1>4. CASE \E c \in Calls : Issue(c)
  BY <1>4, IssueStep
<1>5. CASE \E token \in BookTokens, u \in Buyers, p \in Publishers : Activate(token, u, p)
  BY <1>5, ActivateStep
<1>6. CASE \E c \in RedeemCall : Redeem(c)
  BY <1>6, RedeemStep
<1>7. CASE \E b \in BookIds, u \in Buyers : Release(b, u)
  BY <1>7, ReleaseStep
<1>8. CASE \E c \in PurchaseCall : Purchase(c)
  BY <1>8, PurchaseStep
<1>9. CASE Restart \/ UNCHANGED vars
  <2>1. DbInv(db) /\ DbTypes(db) /\ db' = db /\ delivered' = delivered
    BY <1>9 DEF IInv, DbInv, Restart, vars
  <2> QED
    BY <2>1, FollowsItself DEF Serves, IInv
<1> QED
  BY <1>1, <1>2, <1>3, <1>4, <1>5, <1>6, <1>7, <1>8, <1>9 DEF Next

\* Every step of the service keeps the invariant.
LEMMA BooksStep == IInv /\ [Next]_vars => IInv'
<1> SUFFICES ASSUME IInv, [Next]_vars PROVE IInv'
  OBVIOUS
<1>1. Serves(db, db', authority.trusts) /\ delivered' \subseteq db'.redemptions
  BY NextServes
<1>2. Opened(db')
  BY <1>1 DEF IInv, Opened, Serves, Follows, OpenedOnce
<1>3. authority' \in [signs : AuthorityKeys, trusts : AuthorityKeys]
  BY DEF IInv, Next, vars, Restart, Seed, SetOffer, RevokeKey, Issue, Activate, Redeem, Release,
         Purchase
<1> QED
  BY <1>1, <1>2, <1>3 DEF IInv, Serves

\* The books of the service are in order, for any parties, offers and clocks.
THEOREM BooksInOrder == Spec => []IInv
<1> QED
  BY BooksInit, BooksStep, PTL DEF Spec

\* At every moment the money of buyers, books and publishers adds up, no amount is
\* negative, and no book authorizes more than its buyer's budget.
THEOREM MoneyInOrder == Spec => []MoneyAddsUp
<1>1. IInv => MoneyAddsUp
  <2> SUFFICES ASSUME IInv PROVE MoneyAddsUp
    OBVIOUS
  <2>1. DbInv(db)
    BY DEF IInv
  <2>2. TypeOK
    BY <2>1 DEF IInv, DbInv, DbTypes, DbTypeOK, TypeOK
  <2>3. AuditHolds
    BY <2>1 DEF DbInv, AuditHolds
  <2>4. RemainingIsUnspent
    <3>1. ASSUME NEW b \in DOMAIN db.books
          PROVE  UnitsOf(b, UnspentItems(b)) = ItemUnits(db.books[b], OpenItems(db, b))
      BY DEF UnitsOf, UnspentItems, ItemsOf, ItemUnits, OpenItems, BookItems
    <3> QED
      BY <2>1, <3>1 DEF DbInv, RemainingIsOpen, RemainingIsUnspent
  <2>5. WithinBudget
    <3>1. ASSUME NEW b \in DOMAIN db.books
          PROVE  UnitsOf(b, ItemsOf(b)) = ItemUnits(db.books[b], BookItems(db.books[b]))
      BY DEF UnitsOf, ItemsOf, ItemUnits, BookItems
    <3> QED
      BY <2>1, <3>1 DEF DbInv, Budgeted, WithinBudget
  <2> QED
    BY <2>2, <2>3, <2>4, <2>5 DEF MoneyAddsUp
<1> QED
  BY <1>1, BooksInOrder, PTL

\* However often calls are repeated and answers lost, a request has one book and
\* one charge, an item one charge, and an answer was committed before it was given.
THEOREM RetriesFree == Spec => []RetriesCostNothing
<1>1. IInv => RetriesCostNothing
  <2> SUFFICES ASSUME IInv PROVE RetriesCostNothing
    OBVIOUS
  <2>1. OneBookPerRequest
    BY DEF IInv, DbInv, OneBook, OneBookPerRequest
  <2>2. ChargedOnce
    BY DEF IInv, DbInv, OneCharge, ChargedOnce
  <2>3. AnswersCommitted
    BY <2>2 DEF IInv, AnswersCommitted, ChargedOnce
  <2> QED
    BY <2>1, <2>2, <2>3 DEF RetriesCostNothing
<1> QED
  BY <1>1, BooksInOrder, PTL

\* Every receipt is for an admitted book, at the edition and units it froze.
THEOREM ReceiptsInOrder == Spec => []ReceiptsMatchBooks
<1>1. IInv => ReceiptsMatchBooks
  BY DEF IInv, DbInv, ReceiptsMatch, Matches, ReceiptsMatchBooks
<1> QED
  BY <1>1, BooksInOrder, PTL

\* A released book and a revoked key stay out of use, and receipts, accruals and
\* the terms of a book are never taken back.
THEOREM EndsFinal == Spec => EndsAreFinal
<1>1. IInv /\ [Next]_vars =>
        [\A b \in DOMAIN db.books : db.books[b].closed =>
           /\ db'.books[b].closed
           /\ \A x \in db'.redemptions \ db.redemptions : x.book # b]_vars
  BY NextServes DEF Serves, Follows, ClosedForGood
<1>2. IInv /\ [Next]_vars =>
        [db.revoked =>
           /\ db'.revoked
           /\ DOMAIN db'.books = DOMAIN db.books
           /\ db'.redemptions = db.redemptions
           /\ \A b \in DOMAIN db.books : db'.books[b].active => db.books[b].active]_vars
  BY NextServes DEF Serves, Follows, RevokedForGood
<1>3. IInv /\ [Next]_vars =>
        [/\ db.redemptions \subseteq db'.redemptions
         /\ \A p \in Publishers : db'.accrued[p] >= db.accrued[p]
         /\ \A b \in DOMAIN db.books :
              /\ b \in DOMAIN db'.books
              /\ db'.books[b].items = db.books[b].items
              /\ db'.books[b].expires = db.books[b].expires]_vars
  BY NextServes DEF Serves, Follows, Permanent
<1> QED
  BY <1>1, <1>2, <1>3, BooksInOrder, PTL
     DEF Spec, EndsAreFinal, ReleasedIsFinal, RevocationIsFinal, ReceiptsArePermanent

\* A step admits a book only under the key that this consumer pins.
THEOREM AdmissionIsPinned == Spec => AdmissionPinned
<1>1. IInv /\ [Next]_vars =>
        [\A b \in DOMAIN db'.books :
           db'.books[b].active /\ ~(b \in DOMAIN db.books /\ db.books[b].active)
           => db'.books[b].signer = authority.trusts]_vars
  BY NextServes DEF Serves, Follows, AdmittedUnder
<1> QED
  BY <1>1, BooksInOrder, PTL DEF Spec, AdmissionPinned

-------------------------------------------------------------------------------
\* The prepaid accounts and the grants that a database stands for.
Funds(d) == [u \in Buyers |-> [available |-> d.accounts[u].available,
                               reserved  |-> d.accounts[u].reserved,
                               spent     |-> d.accounts[u].redeemed]]

Grants(d) == {[buyer |-> x.buyer, request |-> x.request, units |-> x.units] : x \in d.redemptions}

\* No amount of an account exceeds the largest deposit.
LEMMA AmountsBounded ==
  ASSUME NEW d, DbInv(d), Opened(d), NEW u \in Buyers
  PROVE  /\ Largest \in Nat /\ \A n \in Balances : n <= Largest
         /\ d.accounts[u].available \in 0 .. Largest /\ d.accounts[u].reserved \in 0 .. Largest
<1>1. Largest \in Balances /\ \A n \in Balances : n <= Largest
  <2>1. \E m \in Balances : \A n \in Balances : n <= m
    BY AccessBookAssumption
  <2> QED
    BY <2>1 DEF Largest
<1>2. Largest \in Nat
  BY <1>1, AccessBookAssumption DEF Positive
<1>3. /\ d.accounts[u].initial = d.accounts[u].available + RemainingOf(d, u) + RedeemedBy(d, u)
      /\ d.accounts[u].reserved = RemainingOf(d, u) /\ d.accounts[u].redeemed = RedeemedBy(d, u)
      /\ d.accounts[u] \in Account
  BY DEF DbInv, DbTypes, DbTypeOK, BuyersConserved
<1>4. /\ d.accounts[u].available \in Nat /\ d.accounts[u].reserved \in Nat
      /\ d.accounts[u].redeemed \in Nat /\ d.accounts[u].initial \in Nat
  BY <1>3 DEF Account
<1>5. d.accounts[u].initial <= Largest
  <2>1. d.accounts[u].initial \in {0} \cup Balances
    BY DEF Opened
  <2>2. CASE d.accounts[u].initial = 0
    BY <1>2, <2>2
  <2>3. CASE d.accounts[u].initial \in Balances
    BY <1>1, <2>3
  <2> QED
    BY <2>1, <2>2, <2>3
<1> QED
  BY <1>1, <1>2, <1>3, <1>4, <1>5

\* The moves of a prepaid account, from one database to another.
Reserves(d, e, u, n) ==
  /\ n \in 0 .. Largest /\ n <= Funds(d)[u].available
  /\ Funds(e) = [Funds(d) EXCEPT ![u] = [available |-> Funds(d)[u].available - n,
                                        reserved  |-> Funds(d)[u].reserved + n,
                                        spent     |-> Funds(d)[u].spent]]
  /\ Grants(e) = Grants(d)

Releases(d, e, u, n) ==
  /\ n \in 0 .. Largest /\ n <= Funds(d)[u].reserved
  /\ Funds(e) = [Funds(d) EXCEPT ![u] = [available |-> Funds(d)[u].available + n,
                                        reserved  |-> Funds(d)[u].reserved - n,
                                        spent     |-> Funds(d)[u].spent]]
  /\ Grants(e) = Grants(d)

Spends(d, e, u, q, n) ==
  /\ n \in 0 .. Largest /\ n <= Funds(d)[u].reserved
  /\ Funds(e) = [Funds(d) EXCEPT ![u] = [available |-> Funds(d)[u].available,
                                        reserved  |-> Funds(d)[u].reserved - n,
                                        spent     |-> Funds(d)[u].spent + n]]
  /\ \A x \in Grants(d) : x.buyer # u \/ x.request # q
  /\ Grants(e) = Grants(d) \cup {[buyer |-> u, request |-> q, units |-> n]}

\* A reservation, a release and a spend are steps of a prepaid account.
LEMMA PrepaidMoves ==
  ASSUME NEW u \in Buyers, NEW n
  PROVE  /\ Reserves(db, db', u, n) => Prepaid!Next
         /\ Releases(db, db', u, n) => Prepaid!Next
         /\ \A q \in Requests : Spends(db, db', u, q, n) => Prepaid!Next
<1>1. ASSUME Reserves(db, db', u, n)
      PROVE  Prepaid!Reserve(u, n)
  BY <1>1 DEF Reserves, Funds, Grants, Prepaid!Reserve, Prepaid!Move
<1>2. ASSUME Releases(db, db', u, n)
      PROVE  Prepaid!Release(u, n)
  BY <1>2 DEF Releases, Funds, Grants, Prepaid!Release, Prepaid!Move
<1>3. ASSUME NEW q \in Requests, Spends(db, db', u, q, n)
      PROVE  Prepaid!SpendReserved(u, q, n)
  BY <1>3 DEF Spends, Funds, Grants, Prepaid!SpendReserved, Prepaid!Move, Prepaid!Grant
<1> QED
  BY <1>1, <1>2, <1>3 DEF Prepaid!Next, Reserves, Releases, Spends

\* So is a reservation that is spent in the same transaction.
LEMMA PrepaidSpendsAtOnce ==
  ASSUME NEW u \in Buyers, NEW q \in Requests, NEW n, NEW e,
         db.accounts \in [Buyers -> Account],
         Reserves(db, e, u, n), Spends(e, db', u, q, n)
  PROVE  Prepaid!Next
<1>1. PICK f, g, h : f = Funds(db) /\ g = Funds(e) /\ h = Funds(db')
  OBVIOUS
<1>2. n \in Nat /\ n \in 0 .. Largest /\ n <= f[u].available
  BY <1>1 DEF Reserves
<1>3. /\ f[u].available \in Nat /\ f[u].reserved \in Nat /\ f[u].spent \in Nat
      /\ f \in [Buyers -> [available : Nat, reserved : Nat, spent : Nat]]
  BY <1>1 DEF Funds, Account
<1>4. h = [f EXCEPT ![u] = [available |-> f[u].available - n, reserved |-> f[u].reserved,
                            spent |-> f[u].spent + n]]
  <2>1. g = [f EXCEPT ![u] = [available |-> f[u].available - n, reserved |-> f[u].reserved + n,
                              spent |-> f[u].spent]]
    BY <1>1 DEF Reserves
  <2>2. h = [g EXCEPT ![u] = [available |-> g[u].available, reserved |-> g[u].reserved - n,
                              spent |-> g[u].spent + n]]
    BY <1>1 DEF Spends
  <2>3. /\ g[u].available = f[u].available - n /\ g[u].reserved - n = f[u].reserved
        /\ g[u].spent = f[u].spent
    BY <1>2, <1>3, <2>1
  <2> QED
    BY <1>3, <2>1, <2>2, <2>3
<1>5. /\ \A x \in Grants(db) : x.buyer # u \/ x.request # q
      /\ Grants(db') = Grants(db) \cup {[buyer |-> u, request |-> q, units |-> n]}
  BY DEF Reserves, Spends
<1>6. Prepaid!Move(u, "available", "spent", n)
  <2>1. h = [f EXCEPT ![u]["available"] = @ - n, ![u]["spent"] = @ + n]
    BY ONLY <1>3, <1>4
  <2> QED
    BY <1>1, <1>2, <2>1 DEF Funds, Prepaid!Move
<1>7. Prepaid!Grant(u, q, n)
  BY <1>5 DEF Grants, Prepaid!Grant
<1>8. Prepaid!SpendAvailable(u, q, n)
  BY <1>6, <1>7 DEF Prepaid!SpendAvailable
<1> QED
  BY <1>2, <1>8 DEF Prepaid!Next

\* Issue reserves, release releases, and a charge spends what was reserved.
LEMMA IssueReserves ==
  ASSUME NEW d, DbInv(d), Opened(d), NEW c \in IssueCall, NEW now \in Times, CanIssue(d, c, now),
         NEW b \in BookIds \ DOMAIN d.books, NEW signer \in AuthorityKeys,
         NEW e, e = AfterIssue(d, c, now, b, signer)
  PROVE  Reserves(d, e, c.buyer, Price(d, c))
<1>1. PICK u, n, row : u = c.buyer /\ n = Price(d, c) /\ row = NewBook(d, c, now, signer)
  OBVIOUS
<1>2. DbTypes(d) /\ u \in Buyers /\ now \in Positive /\ OffersLast(d, c, now)
      /\ d.accounts \in [Buyers -> Account]
  BY <1>1, AccessBookAssumption DEF DbInv, DbTypes, DbTypeOK, IssueCall, CanIssue
<1>3. n \in Nat /\ n <= d.accounts[u].available
  <2>1. row \in Book /\ row.remaining = n
    BY <1>1, <1>2, NewBookCosts DEF NewBook
  <2> QED
    BY <1>1, <2>1 DEF Book, CanIssue, Funded
<1>4. Issued(d, e, c, b, row, n)
  <2>1. Issued(d, e, c, b, NewBook(d, c, now, signer), Price(d, c))
    BY <1>1, <1>2, IssueWrites
  <2> QED
    BY <1>1, <2>1
<1>5. n \in 0 .. Largest
  BY <1>2, <1>3, AmountsBounded
<1>6. Funds(e) = [Funds(d) EXCEPT ![u] = [available |-> Funds(d)[u].available - n,
                                         reserved  |-> Funds(d)[u].reserved + n,
                                         spent     |-> Funds(d)[u].spent]]
  BY <1>1, <1>2, <1>4 DEF Issued, Funds
<1>7. Grants(e) = Grants(d)
  BY <1>4 DEF Issued, Grants
<1>8. n <= Funds(d)[u].available
  BY <1>2, <1>3 DEF Funds
<1> QED
  BY <1>1, <1>5, <1>6, <1>7, <1>8 DEF Reserves

\* A release of a book is a release of its buyer's account.
LEMMA ReleaseReleases ==
  ASSUME NEW d, DbInv(d), Opened(d), NEW b \in DOMAIN d.books, NEW e, e = AfterRelease(d, b)
  PROVE  d.books[b].call.buyer \in Buyers
         /\ Releases(d, e, d.books[b].call.buyer, d.books[b].remaining)
<1>1. PICK u, n : u = d.books[b].call.buyer /\ n = d.books[b].remaining
  OBVIOUS
<1>2. DbTypes(d) /\ d.accounts \in [Buyers -> Account] /\ u \in Buyers /\ n \in Nat
  BY <1>1 DEF DbInv, DbTypes, DbTypeOK, Book, IssueCall
<1>3. Freed(d, e, b, u, n)
  <2>1. Freed(d, e, b, d.books[b].call.buyer, d.books[b].remaining)
    BY <1>1, <1>2, ReleaseWrites
  <2> QED
    BY <1>1, <2>1
<1>4. n <= d.accounts[u].reserved
  <2>1. PICK f, S : f = Remains(d) /\ S = BooksOf(d, u)
    OBVIOUS
  <2>2. IsFiniteSet(S) /\ Summable(f, S) /\ RemainingOf(d, u) = Total(f, S)
    BY <1>2, <2>1, SumsFinite
  <2>3. b \in S /\ f[b] = n
    BY <1>1, <2>1 DEF Remains, BooksOf
  <2>4. f[b] <= Total(f, S)
    BY <2>2, <2>3, TotalRemove
  <2>5. d.accounts[u].reserved = RemainingOf(d, u)
    BY <1>2 DEF DbInv, BuyersConserved
  <2> QED
    BY <2>2, <2>3, <2>4, <2>5
<1>5. n \in 0 .. Largest
  BY <1>2, <1>4, AmountsBounded
<1>6. Funds(e) = [Funds(d) EXCEPT ![u] = [available |-> Funds(d)[u].available + n,
                                         reserved  |-> Funds(d)[u].reserved - n,
                                         spent     |-> Funds(d)[u].spent]]
  <2>1. e.accounts = [d.accounts EXCEPT ![u] =
          [initial |-> d.accounts[u].initial, available |-> d.accounts[u].available + n,
           reserved |-> d.accounts[u].reserved - n, redeemed |-> d.accounts[u].redeemed]]
    BY <1>3 DEF Freed
  <2>2. \A v \in Buyers : v # u => e.accounts[v] = d.accounts[v]
    BY <1>2, <2>1
  <2>3. /\ e.accounts[u].available = d.accounts[u].available + n
        /\ e.accounts[u].reserved = d.accounts[u].reserved - n
        /\ e.accounts[u].redeemed = d.accounts[u].redeemed
    BY <1>2, <2>1
  <2> QED
    BY <1>2, <2>2, <2>3 DEF Funds
<1>7. Grants(e) = Grants(d)
  BY <1>3 DEF Freed, Grants
<1>8. n <= Funds(d)[u].reserved
  BY <1>2, <1>4 DEF Funds
<1> QED
  BY <1>1, <1>2, <1>5, <1>6, <1>7, <1>8 DEF Releases

\* A redemption is a spend of its buyer's account.
LEMMA RedeemSpends ==
  ASSUME NEW d, DbInv(d), Opened(d), NEW c \in RedeemCall, NEW now \in Times,
         CanRedeem(d, c, now), NEW e, e = AfterRedeem(d, c, now)
  PROVE  Spends(d, e, c.buyer, c.request, UnitsOfItem(d, c))
<1>1. PICK u, q, n, x : /\ u = c.buyer /\ q = c.request /\ n = UnitsOfItem(d, c)
                        /\ x = NewReceipt(d, c, now)
  OBVIOUS
<1>2. /\ DbTypes(d) /\ d.accounts \in [Buyers -> Account] /\ u \in Buyers
      /\ c.publisher \in Publishers /\ c.book \in DOMAIN d.books /\ now \in Positive
  BY <1>1, AccessBookAssumption
  DEF DbInv, DbTypes, DbTypeOK, RedeemCall, CanRedeem, IsBookOf
<1>3. n \in Nat /\ n <= d.accounts[u].reserved
  <2>1. UnitsOfItem(d, c) \in Positive /\ UnitsOfItem(d, c) <= d.accounts[c.buyer].reserved
    BY <1>2, RedeemKeeps
  <2> QED
    BY <1>1, <2>1 DEF Positive
<1>4. Charged(d, e, c, n, x)
  <2>1. Charged(d, e, c, UnitsOfItem(d, c), NewReceipt(d, c, now))
    BY <1>1, <1>2, RedeemWrites
  <2> QED
    BY <1>1, <2>1
<1>5. n \in 0 .. Largest
  BY <1>2, <1>3, AmountsBounded
<1>6. Funds(e) = [Funds(d) EXCEPT ![u] = [available |-> Funds(d)[u].available,
                                         reserved  |-> Funds(d)[u].reserved - n,
                                         spent     |-> Funds(d)[u].spent + n]]
  BY <1>1, <1>2, <1>4 DEF Charged, Funds
<1>7. x.buyer = u /\ x.request = q /\ x.units = n
  BY <1>1 DEF NewReceipt
<1>8. Grants(e) = Grants(d) \cup {[buyer |-> u, request |-> q, units |-> n]}
  BY <1>4, <1>7 DEF Charged, Grants
<1>9. \A y \in Grants(d) : y.buyer # u \/ y.request # q
  BY <1>1 DEF Grants, CanRedeem, NoPriorReceipt, PriorReceipt
<1>10. n <= Funds(d)[u].reserved
  BY <1>2, <1>3 DEF Funds
<1> QED
  BY <1>1, <1>5, <1>6, <1>8, <1>9, <1>10 DEF Spends

\* purchase() of a new book reserves the price of its one item, and spends it.
LEMMA PurchasePrepaid ==
  ASSUME IInv, NEW c \in PurchaseCall, Purchase(c)
  PROVE  Prepaid!Next \/ UNCHANGED Prepaid!vars
<1>1. PICK b, issued, x :
        /\ b \in BookIds
        /\ MayIssue(db, PurchaseIssue(c), authority.signs, issued)
        /\ b \in DOMAIN issued.books /\ issued.books[b].call = PurchaseIssue(c)
        /\ \/ x \in PriorReceipt(issued, PurchaseRedeem(c, b)) /\ db' = issued
           \/ MayCharge(issued, c, b, authority.trusts, db', x)
  BY PurchaseParts
<1>2. PICK call, rc, activated : /\ call = PurchaseIssue(c) /\ rc = PurchaseRedeem(c, b)
                                 /\ activated = AfterActivate(issued, b)
  OBVIOUS
<1>3. /\ DbInv(db) /\ Opened(db) /\ authority.signs \in AuthorityKeys
      /\ call \in IssueCall /\ rc \in RedeemCall
      /\ call.buyer = c.buyer /\ call.publisher = c.publisher /\ call.resources = {c.resource}
      /\ rc.buyer = c.buyer /\ rc.request = c.request /\ rc.book = b /\ rc.resource = c.resource
      /\ c.buyer \in Buyers /\ c.request \in Requests
  BY <1>1, <1>2, CallsTyped DEF IInv, PurchaseIssue, PurchaseRedeem, PurchaseCall
<1>4. DbInv(issued) /\ Opened(issued)
  <2>1. Serves(db, issued, authority.trusts)
    BY <1>1, <1>2, <1>3, MayIssueServes
  <2> QED
    BY <1>3, <2>1 DEF Serves, Follows, OpenedOnce, Opened
<1>5. issued = db \/ \E n : Reserves(db, issued, c.buyer, n)
  BY <1>1, <1>2, <1>3, IssueReserves DEF MayIssue
<1>6. CASE x \in PriorReceipt(issued, rc) /\ db' = issued
  <2>1. CASE issued = db
    BY <1>6, <2>1 DEF Prepaid!vars
  <2>2. ASSUME NEW n, Reserves(db, issued, c.buyer, n)
        PROVE  Prepaid!Next
    BY <1>3, <1>6, <2>2, PrepaidMoves
  <2> QED
    BY <1>5, <2>1, <2>2
<1>7. CASE MayCharge(issued, c, b, authority.trusts, db', x)
  <2>1. PICK now, later, last \in Times :
          /\ CanActivate(issued, b, [book |-> b, signer |-> issued.books[b].signer], c.buyer,
                         c.publisher, now, later, authority.trusts)
          /\ CanRedeem(activated, rc, last)
          /\ db' = AfterRedeem(activated, rc, last)
    BY <1>2, <1>7 DEF MayCharge
  <2>2. DbInv(activated) /\ Opened(activated)
    <3>1. Serves(issued, activated, authority.trusts)
      BY <1>2, <1>4, <2>1, ActivateServes
    <3> QED
      BY <1>4, <3>1 DEF Serves, Follows, OpenedOnce, Opened
  <2>3. /\ activated.accounts = issued.accounts /\ activated.redemptions = issued.redemptions
        /\ activated.books = [issued.books EXCEPT ![b].active = TRUE]
    BY <1>1, <1>2, <1>4, ActivateWrites DEF DbInv
  <2>4. PICK n : n = UnitsOfItem(activated, rc)
    OBVIOUS
  <2>5. Spends(activated, db', c.buyer, c.request, n)
    BY <1>3, <2>1, <2>2, <2>4, RedeemSpends
  <2>6. Spends(issued, db', c.buyer, c.request, n)
    BY <2>3, <2>5 DEF Spends, Funds, Grants
  <2>7. CASE issued = db
    BY <1>3, <2>6, <2>7, PrepaidMoves
  <2>8. ASSUME NEW t \in Times, NEW y \in BookIds \ DOMAIN db.books, CanIssue(db, call, t),
               issued = AfterIssue(db, call, t, y, authority.signs)
        PROVE  Prepaid!Next
    <3>1. Reserves(db, issued, c.buyer, Price(db, call))
      BY <1>3, <2>8, IssueReserves
    <3>2. Price(db, call) = n
      <4>1. PICK row : row = NewBook(db, call, t, authority.signs)
        OBVIOUS
      <4>2. DbTypes(db) /\ OffersLast(db, call, t) /\ t \in Positive
        BY <1>3, <2>8, AccessBookAssumption DEF DbInv, CanIssue
      <4>3. row \in Book /\ BookItems(row) = {c.resource} /\ ItemUnits(row, {c.resource}) = Price(db, call)
        BY <1>3, <4>1, <4>2, NewBookCosts
      <4>4. issued.books = [z \in DOMAIN db.books \cup {y} |-> IF z = y THEN row ELSE db.books[z]]
        <5>1. Issued(db, issued, call, y, NewBook(db, call, t, authority.signs), Price(db, call))
          BY <1>3, <2>8, <4>2, IssueWrites
        <5> QED
          BY <4>1, <5>1 DEF Issued
      <4>5. b = y
        <5>1. SUFFICES ASSUME b # y PROVE FALSE
          OBVIOUS
        <5>2. b \in DOMAIN db.books /\ db.books[b].call = call
          BY <1>1, <1>2, <4>4, <5>1
        <5> QED
          BY <2>8, <5>2 DEF CanIssue, NoPriorBook, PriorBook
      <4>6. activated.books[b].items = row.items
        <5>1. issued.books[b] = row /\ b \in DOMAIN issued.books
          BY <4>4, <4>5
        <5>2. activated.books[b] = [row EXCEPT !.active = TRUE]
          BY <2>3, <5>1
        <5> QED
          BY <4>3, <5>2 DEF Book
      <4>7. n = row.items[c.resource].units
        BY <1>3, <2>4, <4>6 DEF UnitsOfItem
      <4>8. row.items[c.resource].units \in Nat
        BY <4>3 DEF Book, BookItems, Item, Positive
      <4>9. ItemUnits(row, {c.resource}) = row.items[c.resource].units
        <5>1. PICK f : f = [r \in {c.resource} |-> row.items[r].units]
          OBVIOUS
        <5>2. f[c.resource] = row.items[c.resource].units
          BY <5>1
        <5>3. Total(f, {c.resource}) = f[c.resource]
          BY <4>8, <5>2, TotalSingle
        <5> QED
          BY <5>1, <5>2, <5>3 DEF ItemUnits
      <4> QED
        BY <4>3, <4>7, <4>9
    <3>3. db.accounts \in [Buyers -> Account]
      BY <1>3 DEF DbInv, DbTypes, DbTypeOK
    <3> QED
      BY <1>3, <2>6, <3>1, <3>2, <3>3, PrepaidSpendsAtOnce
  <2> QED
    BY <1>1, <1>2, <2>7, <2>8 DEF MayIssue
<1> QED
  BY <1>1, <1>2, <1>6, <1>7

\* Every step of the service is a step of prepaid accounts, or none.
LEMMA PrepaidStep ==
  ASSUME IInv, [Next]_vars
  PROVE  [Prepaid!Next]_(Prepaid!vars)
<1>1. DbInv(db) /\ Opened(db) /\ DbTypes(db) /\ Shape(db) /\ authority.signs \in AuthorityKeys
      /\ db.accounts \in [Buyers -> Account]
  BY DEF IInv, DbInv, DbTypes, DbTypeOK
<1>2. ASSUME NEW u \in Buyers, NEW units \in Balances, Seed(u, units)
      PROVE  Prepaid!Next
  <2>1. db.accounts[u] = [initial |-> 0, available |-> 0, reserved |-> 0, redeemed |-> 0]
    <3>1. db.accounts[u] = EmptyDb.accounts[u]
      BY <1>1, <1>2, SeedKeeps DEF Seed
    <3> QED
      BY <3>1 DEF EmptyDb
  <2>2. /\ db'.accounts = [db.accounts EXCEPT ![u] =
               [initial |-> units, available |-> units, reserved |-> 0, redeemed |-> 0]]
        /\ db'.redemptions = db.redemptions
    BY <1>1, <1>2 DEF Seed, Shape, AfterSeed
  <2>3. units \in 0 .. Largest
    BY <1>1, AmountsBounded, AccessBookAssumption DEF Positive
  <2>4. /\ Funds(db)[u] = [available |-> 0, reserved |-> 0, spent |-> 0]
        /\ Funds(db') = [Funds(db) EXCEPT ![u].available = units]
    <3>1. PICK d, e : d = db /\ e = db'
      OBVIOUS
    <3>2. PICK f, g : f = Funds(d) /\ g = Funds(e)
      OBVIOUS
    <3>3. /\ u \in Buyers /\ d.accounts \in [Buyers -> Account]
          /\ d.accounts[u] = [initial |-> 0, available |-> 0, reserved |-> 0, redeemed |-> 0]
          /\ e.accounts = [d.accounts EXCEPT ![u] =
               [initial |-> units, available |-> units, reserved |-> 0, redeemed |-> 0]]
      BY <1>1, <2>1, <2>2, <3>1
    <3>4. f[u] = [available |-> 0, reserved |-> 0, spent |-> 0]
      BY ONLY <3>2, <3>3 DEF Funds
    <3>5. g[u] = [f[u] EXCEPT !.available = units]
      <4>1. e.accounts[u] = [initial |-> units, available |-> units, reserved |-> 0, redeemed |-> 0]
        BY ONLY <3>3
      <4>2. g[u] = [available |-> units, reserved |-> 0, spent |-> 0]
        BY ONLY <3>2, <3>3, <4>1 DEF Funds
      <4> QED
        BY ONLY <3>4, <4>2
    <3>6. \A v \in Buyers : v # u => g[v] = f[v]
      <4>1. \A v \in Buyers : v # u => e.accounts[v] = d.accounts[v]
        BY ONLY <3>3
      <4> QED
        BY ONLY <3>2, <4>1 DEF Funds
    <3>7. f = [v \in Buyers |-> f[v]] /\ g = [v \in Buyers |-> g[v]]
      BY ONLY <3>2 DEF Funds
    <3>8. g = [f EXCEPT ![u].available = units]
      BY ONLY <3>3, <3>5, <3>6, <3>7
    <3> QED
      BY <3>1, <3>2, <3>4, <3>8
  <2>5. Grants(db') = Grants(db)
    BY <2>2 DEF Grants
  <2>6. Prepaid!Deposit(u, units)
    BY <2>4, <2>5 DEF Funds, Grants, Prepaid!Deposit, Prepaid!Unopened
  <2> QED
    BY <2>3, <2>6 DEF Prepaid!Next
<1>3. CASE Restart \/ UNCHANGED vars
  BY <1>3 DEF Restart, vars, Prepaid!vars
<1>4. ASSUME NEW p \in Publishers, NEW r \in Resources, NEW offer \in Offers, SetOffer(p, r, offer)
      PROVE  UNCHANGED Prepaid!vars
  BY <1>1, <1>4 DEF SetOffer, Shape, AfterSetOffer, Prepaid!vars
<1>5. CASE RevokeKey
  BY <1>1, <1>5 DEF RevokeKey, Shape, AfterRevokeKey, Prepaid!vars
<1>6. ASSUME NEW c \in Calls, Issue(c)
      PROVE  \E u \in Buyers : \E n : Reserves(db, db', u, n)
  <2>1. c \in IssueCall /\ c.buyer \in Buyers
    BY CallsTyped DEF IssueCall
  <2> QED
    BY <1>1, <1>6, <2>1, IssueReserves DEF Issue
<1>7. ASSUME NEW token \in BookTokens, NEW u \in Buyers, NEW p \in Publishers, Activate(token, u, p)
      PROVE  UNCHANGED Prepaid!vars
  <2>1. token.book \in DOMAIN db.books
    BY <1>7 DEF Activate, CanActivate, IsBookOf
  <2>2. db'.accounts = db.accounts /\ db'.redemptions = db.redemptions
    BY ZenonT(60), <1>1, <1>7, <2>1, ActivateWrites DEF Activate
  <2> QED
    BY <2>2 DEF Prepaid!vars
<1>8. ASSUME NEW c \in RedeemCall, Redeem(c)
      PROVE  UNCHANGED Prepaid!vars \/ \E u \in Buyers, q \in Requests : \E n : Spends(db, db', u, q, n)
  <2>1. c.buyer \in Buyers /\ c.request \in Requests
    BY DEF RedeemCall
  <2>2. CASE UNCHANGED db
    BY <2>2 DEF Prepaid!vars
  <2>3. ASSUME NEW now \in Times, CanRedeem(db, c, now), db' = AfterRedeem(db, c, now)
        PROVE  Spends(db, db', c.buyer, c.request, UnitsOfItem(db, c))
    BY <1>1, <2>3, RedeemSpends
  <2> QED
    BY <1>8, <2>1, <2>2, <2>3 DEF Redeem
<1>9. ASSUME NEW b \in BookIds, NEW u \in Buyers, Release(b, u)
      PROVE  \E v \in Buyers : \E n : Releases(db, db', v, n)
  BY <1>1, <1>9, ReleaseReleases DEF Release, CanRelease
<1>10. ASSUME NEW c \in PurchaseCall, Purchase(c)
       PROVE  Prepaid!Next \/ UNCHANGED Prepaid!vars
  BY <1>10, PurchasePrepaid
<1>11. (\E u \in Buyers : \E n : Reserves(db, db', u, n) \/ Releases(db, db', u, n))
         \/ (\E u \in Buyers, q \in Requests : \E n : Spends(db, db', u, q, n)) => Prepaid!Next
  BY PrepaidMoves
<1> QED
  BY <1>2, <1>3, <1>4, <1>5, <1>6, <1>7, <1>8, <1>9, <1>10, <1>11 DEF Next

\* Whoever calls, purchase() included, a buyer's units are only ever deposited,
\* reserved, released and spent, each spending with the one grant of its request.
THEOREM KeepsPrepaidPromise == Spec => KeepsPrepaid
<1>1. Init => Prepaid!Init
  BY DEF Init, EmptyDb, Prepaid!Init, Prepaid!Unopened
<1>2. IInv /\ [Next]_vars => [Prepaid!Next]_(Prepaid!vars)
  BY PrepaidStep
<1> QED
  BY <1>1, <1>2, BooksInOrder, PTL DEF Spec, KeepsPrepaid, Prepaid!Spec

-------------------------------------------------------------------------------
(* The same transactions statement by statement: what the blocks that are open *)
(* have to do with the connection's view and the committed database. *)

BlockCalls == {{}} \cup IssueCalls \cup PurchaseCalls \cup RedeemCall \cup BookIds

Block ==
  [kind  : {"application", "purchase", "issue", "activate", "redeem", "release"},
   call  : BlockCalls, begun : BOOLEAN, todo : Seq(Database), steps : Nat,
   whole : Database \cup {NoTx}]

\* The place of the block that began the open transaction: after SQLite ended one,
\* an application that goes on is not part of the next.
Base(f) == IF f[1].whole = NoTx THEN 2 ELSE 1

\* What the connection reads when the statements that are left are done.
EndOf(w, todo) == IF todo = <<>> THEN w ELSE Last(todo)

\* Only the outermost block is an application, only the innermost has statements left.
Stacked(f) ==
  /\ f # <<>> => f[1].begun
  /\ \A i \in 1 .. Len(f) : i # 1 => f[i].kind # "application"
  /\ \A i \in 1 .. Len(f) : i # Len(f) => f[i].todo = <<>>

\* Blocks without a transaction are being left, or an application that goes on.
Outside(f, s, r) ==
  /\ s = <<>>
  /\ \A i \in 1 .. Len(f) : f[i].whole = NoTx
  /\ f # <<>> => r \/ (Len(f) = 1 /\ f[1].kind = "application")

\* The savepoints are what the blocks below were when the next one began.
Inside(d, f, w, s) ==
  /\ f # <<>> /\ Base(f) <= Len(f)
  /\ Base(f) = 2 => f[1].kind = "application"
  /\ \A i \in Base(f) .. Len(f) : /\ f[i].begun <=> i = Base(f)
                                  /\ f[i].whole # NoTx /\ Serves(d, f[i].whole, Signer)
  /\ Len(s) = Len(f) - Base(f)
  /\ \A j \in 1 .. Len(s) : s[j] = f[Base(f) + j - 1].whole
  /\ EndOf(w, f[Len(f)].todo) = f[Len(f)].whole

Kept(d, f, w, s, r) ==
  /\ Stacked(f) /\ (r => f # <<>>)
  /\ w = NoTx => Outside(f, s, r)
  /\ w # NoTx => Inside(d, f, w, s)

-------------------------------------------------------------------------------
\* A sequence without its last.
LEMMA FrontIs ==
  ASSUME NEW S, NEW s \in Seq(S), s # <<>>
  PROVE  /\ Front(s) \in Seq(S) /\ Len(Front(s)) = Len(s) - 1 /\ Len(s) \in Nat /\ Len(s) > 0
         /\ \A i \in 1 .. Len(s) - 1 : Front(s)[i] = s[i]
         /\ Last(s) = s[Len(s)] /\ s[Len(s)] \in S
<1>1. Len(s) \in Nat /\ Len(s) > 0
  OBVIOUS
<1>2. PICK n : n = Len(s) - 1
  OBVIOUS
<1>3. n \in Nat /\ \A i \in 1 .. n : s[i] \in S
  BY <1>1, <1>2
<1>4. /\ SubSeq(s, 1, n) \in Seq(S) /\ Len(SubSeq(s, 1, n)) = n
      /\ \A i \in 1 .. n : SubSeq(s, 1, n)[i] = s[i]
  BY <1>1, <1>2, <1>3, SubSeqProperties
<1>5. Front(s) = SubSeq(s, 1, n) /\ Last(s) = s[Len(s)] /\ s[Len(s)] \in S
  BY <1>1, <1>2 DEF Front, Last
<1> QED
  BY <1>1, <1>2, <1>4, <1>5

\* The blocks g are f and one more.
Pushed(f, g, b) ==
  /\ Len(g) = Len(f) + 1 /\ g[Len(g)] = b
  /\ \A i \in 1 .. Len(f) : /\ g[i].kind = f[i].kind /\ g[i].begun = f[i].begun
                            /\ g[i].todo = f[i].todo /\ g[i].whole = f[i].whole

\* A block b begins where the innermost of f has no statements left, as a transaction
\* or a savepoint; v and t are the view and the savepoints it begins with.
Begins(d, f, w, s, b, v, t) ==
  /\ f # <<>> => f[Len(f)].todo = <<>>
  /\ b.begun <=> w = NoTx
  /\ b.kind = "application" => f = <<>>
  /\ w = NoTx => v = d /\ t = s
  /\ w # NoTx => w \in Database /\ v = w /\ t = Append(s, w)
  /\ Serves(d, b.whole, Signer) /\ b.whole # NoTx /\ EndOf(v, b.todo) = b.whole

\* A block begins: the invariant of its caller is kept, with the block on top.
LEMMA BlockBegins ==
  ASSUME NEW d, NEW f \in Seq(Block), NEW w, NEW s \in Seq(Database), Kept(d, f, w, s, FALSE),
         NEW b \in Block, NEW v \in Database, NEW t \in Seq(Database), Begins(d, f, w, s, b, v, t),
         NEW g \in Seq(Block), Pushed(f, g, b)
  PROVE  Kept(d, g, v, t, FALSE)
<1> USE DEF Begins
<1>1. v # NoTx
  BY ClearingTxAssumption
<1>2. Len(f) \in Nat /\ Len(g) = Len(f) + 1 /\ g # <<>> /\ g[Len(g)] = b
  BY DEF Pushed
<1>3. Stacked(g)
  <2>1. g[1].begun
    <3>1. CASE f = <<>>
      BY <1>2, <3>1 DEF Kept, Outside, Inside
    <3>2. CASE f # <<>>
      BY <1>2, <3>2 DEF Kept, Stacked, Pushed
    <3> QED
      BY <3>1, <3>2
  <2>2. /\ \A i \in 1 .. Len(f) : i # 1 => g[i].kind # "application"
        /\ \A i \in 1 .. Len(f) : g[i].todo = <<>>
    <3>1. Stacked(f) /\ (f # <<>> => f[Len(f)].todo = <<>>)
      BY DEF Kept
    <3> QED
      BY <1>2, <3>1 DEF Stacked, Pushed
  <2>3. \A i \in 1 .. Len(g) : i \in 1 .. Len(f) \/ i = Len(g)
    BY <1>2
  <2>4. Len(g) # 1 => b.kind # "application"
    BY <1>2
  <2> QED
    BY <1>2, <2>1, <2>2, <2>3, <2>4 DEF Stacked
<1>4. CASE w = NoTx
  <2>1. Base(g) = Len(g) /\ (f # <<>> => g[1].kind = "application")
    BY <1>2, <1>4 DEF Kept, Outside, Base, Pushed
  <2>2. Inside(d, g, v, t)
    BY <1>2, <1>4, <2>1 DEF Inside, Kept, Outside, Base
  <2> QED
    BY <1>1, <1>2, <1>3, <2>2 DEF Kept
<1>5. CASE w # NoTx
  <2>1. /\ Inside(d, f, w, s) /\ f # <<>> /\ Base(f) <= Len(f) /\ Base(f) \in {1, 2}
        /\ w = f[Len(f)].whole
    BY <1>5 DEF Kept, Inside, EndOf, Base
  <2>2. Base(g) = Base(f) /\ (Base(g) = 2 => g[1].kind = "application")
    BY <1>2, <2>1 DEF Inside, Base, Pushed
  <2>3. /\ Len(t) = Len(g) - Base(g)
        /\ \A j \in 1 .. Len(t) : t[j] = g[Base(g) + j - 1].whole
    <3>1. Len(s) = Len(f) - Base(f) /\ \A j \in 1 .. Len(s) : s[j] = f[Base(f) + j - 1].whole
      BY <2>1 DEF Inside
    <3>2. /\ Len(t) = Len(s) + 1 /\ Len(s) \in Nat /\ t[Len(s) + 1] = w
          /\ \A j \in 1 .. Len(s) : t[j] = s[j]
      <4>1. t = Append(s, w) /\ w \in Database
        BY <1>5
      <4> QED
        BY <4>1, AppendProperties
    <3>3. ASSUME NEW j \in 1 .. Len(t)
          PROVE  t[j] = g[Base(g) + j - 1].whole
      <4>1. PICK i : i = Base(f) + j - 1
        OBVIOUS
      <4>2. i \in 1 .. Len(f) /\ g[i].whole = f[i].whole
        BY <1>2, <2>1, <3>1, <3>2, <4>1 DEF Pushed
      <4>3. CASE j \in 1 .. Len(s)
        BY <2>2, <3>1, <3>2, <4>1, <4>2, <4>3
      <4>4. CASE j = Len(s) + 1
        <5>1. i = Len(f)
          BY <1>2, <2>1, <3>1, <3>2, <4>1, <4>4
        <5> QED
          BY <2>1, <2>2, <3>2, <4>1, <4>2, <4>4, <5>1
      <4> QED
        BY <3>2, <4>3, <4>4
    <3> QED
      BY <1>2, <2>1, <2>2, <3>1, <3>2, <3>3
  <2>4. \A i \in Base(g) .. Len(g) :
          /\ g[i].begun <=> i = Base(g)
          /\ g[i].whole # NoTx /\ Serves(d, g[i].whole, Signer)
    <3>1. \A i \in Base(g) .. Len(g) : i = Len(g) \/ (i \in Base(f) .. Len(f) /\ i \in 1 .. Len(f))
      BY <1>2, <2>1, <2>2
    <3>2. \A i \in 1 .. Len(f) : g[i].begun = f[i].begun /\ g[i].whole = f[i].whole
      BY DEF Pushed
    <3>3. ~b.begun /\ Base(g) # Len(g)
      BY <1>2, <1>5, <2>1, <2>2
    <3> QED
      BY <1>2, <2>1, <2>2, <3>1, <3>2, <3>3 DEF Inside
  <2>5. Inside(d, g, v, t)
    BY <1>2, <2>1, <2>2, <2>3, <2>4 DEF Inside
  <2> QED
    BY <1>1, <1>2, <1>3, <2>5 DEF Kept
<1> QED
  BY <1>4, <1>5

\* The blocks g are f without the innermost.
Dropped(f, g) == Len(g) = Len(f) - 1 /\ \A i \in 1 .. Len(g) : g[i] = f[i]

\* The same but for what the innermost of g stands for.
Merged(f, g, x) ==
  /\ Len(g) = Len(f) - 1
  /\ \A i \in 1 .. Len(g) : /\ g[i].kind = f[i].kind /\ g[i].begun = f[i].begun
                            /\ g[i].todo = f[i].todo
                            /\ g[i].whole = IF i = Len(g) THEN x ELSE f[i].whole

\* A statement of the innermost block is executed.
LEMMA StatementRuns ==
  ASSUME NEW d, NEW f \in Seq(Block), NEW w \in Database, NEW s \in Seq(Database),
         Kept(d, f, w, s, FALSE), f # <<>>, f[Len(f)].todo # <<>>,
         NEW g \in Seq(Block), Len(g) = Len(f),
         \A i \in 1 .. Len(f) : /\ g[i].kind = f[i].kind /\ g[i].begun = f[i].begun
                                /\ g[i].whole = f[i].whole
                                /\ g[i].todo = IF i = Len(f) THEN Tail(f[i].todo) ELSE f[i].todo
  PROVE  Kept(d, g, Head(f[Len(f)].todo), s, FALSE) /\ Head(f[Len(f)].todo) \in Database
<1>1. w # NoTx
  BY ClearingTxAssumption
<1>2. PICK n, l : n = Len(f) /\ l = f[n].todo
  OBVIOUS
<1>3. n \in Nat /\ n > 0 /\ Len(g) = n /\ g # <<>> /\ l \in Seq(Database) /\ l # <<>>
  <2>1. n \in Nat /\ n > 0 /\ Len(g) = n
    BY <1>2
  <2>2. f[n] \in Block
    BY <1>2, <2>1
  <2> QED
    BY <1>2, <2>1, <2>2 DEF Block
<1>4. /\ Head(l) \in Database /\ Head(l) # NoTx /\ Tail(l) \in Seq(Database)
      /\ EndOf(Head(l), Tail(l)) = Last(l)
  <2>1. Head(l) \in Database /\ Tail(l) \in Seq(Database) /\ Len(Tail(l)) = Len(l) - 1
        /\ \A i \in 1 .. Len(l) - 1 : Tail(l)[i] = l[i + 1]
    BY <1>3
  <2>2. EndOf(Head(l), Tail(l)) = Last(l)
    <3>1. CASE Tail(l) = <<>>
      <4>1. Len(l) = 1 /\ Head(l) = l[1]
        <5>1. PICK t : t = Tail(l)
          OBVIOUS
        <5>2. Len(t) = 0
          BY <3>1, <5>1
        <5>3. Len(l) = 1
          BY <1>3, <2>1, <5>1, <5>2, LenProperties
        <5> QED
          BY <1>3, <5>3
      <4> QED
        BY <3>1, <4>1 DEF EndOf, Last
    <3>2. CASE Tail(l) # <<>>
      <4>1. Len(Tail(l)) \in Nat /\ Len(Tail(l)) > 0 /\ Len(l) \in Nat
        BY <1>3, <2>1, <3>2
      <4> QED
        BY <2>1, <3>2, <4>1 DEF EndOf, Last
    <3> QED
      BY <3>1, <3>2
  <2> QED
    BY <2>1, <2>2, ClearingTxAssumption
<1>5. Inside(d, f, w, s)
  BY <1>1 DEF Kept
<1>6. Base(g) = Base(f) /\ Base(f) <= n /\ Base(f) \in {1, 2}
  BY <1>2, <1>3, <1>5 DEF Base, Inside
<1>7. EndOf(Head(l), g[n].todo) = g[n].whole
  <2>1. g[n].todo = Tail(l) /\ g[n].whole = f[n].whole
    BY <1>2, <1>3
  <2>2. Last(l) = f[n].whole
    BY <1>2, <1>3, <1>5 DEF Inside, EndOf
  <2> QED
    BY <1>4, <2>1, <2>2
<1>8. Inside(d, g, Head(l), s)
  <2>1. \A j \in 1 .. Len(s) : s[j] = g[Base(g) + j - 1].whole
    <3>1. Len(s) = n - Base(f) /\ \A j \in 1 .. Len(s) : s[j] = f[Base(f) + j - 1].whole
      BY <1>2, <1>5 DEF Inside
    <3>2. \A j \in 1 .. Len(s) : Base(f) + j - 1 \in 1 .. n
      BY <1>3, <1>6, <3>1
    <3> QED
      BY <1>2, <1>6, <3>1, <3>2
  <2>2. \A i \in Base(g) .. n : /\ g[i].begun <=> i = Base(g)
                                /\ g[i].whole # NoTx /\ Serves(d, g[i].whole, Signer)
    <3>1. \A i \in Base(f) .. n : /\ f[i].begun <=> i = Base(f)
                                  /\ f[i].whole # NoTx /\ Serves(d, f[i].whole, Signer)
      BY <1>2, <1>5 DEF Inside
    <3>2. \A i \in Base(f) .. n : i \in 1 .. n
      BY <1>3, <1>6
    <3> QED
      BY <1>2, <1>6, <3>1, <3>2
  <2>3. /\ Len(s) = n - Base(g)
        /\ Base(g) = 2 => g[1].kind = "application"
    BY <1>2, <1>3, <1>5, <1>6 DEF Inside
  <2> QED
    BY <1>3, <1>6, <1>7, <2>1, <2>2, <2>3 DEF Inside
<1>9. Stacked(g)
  <2>1. Stacked(f)
    BY DEF Kept
  <2> QED
    BY <1>2, <1>3, <2>1 DEF Stacked
<1> QED
  BY <1>2, <1>3, <1>4, <1>8, <1>9 DEF Kept

\* A savepoint's block ends well: the one below stands for what it did, too.
LEMMA SavepointReleased ==
  ASSUME NEW d, NEW f \in Seq(Block), NEW w \in Database, NEW s \in Seq(Database),
         Kept(d, f, w, s, FALSE), f # <<>>, f[Len(f)].todo = <<>>, ~f[Len(f)].begun,
         NEW g \in Seq(Block), Merged(f, g, f[Len(f)].whole)
  PROVE  Kept(d, g, w, Front(s), FALSE) /\ s # <<>>
<1>1. w # NoTx
  BY ClearingTxAssumption
<1>2. PICK n, x : n = Len(f) /\ x = f[n].whole
  OBVIOUS
<1>3. Inside(d, f, w, s)
  BY <1>1 DEF Kept
<1>4. /\ n \in Nat /\ Base(f) < n /\ Base(f) \in {1, 2} /\ w = x /\ x # NoTx /\ Serves(d, x, Signer)
      /\ Len(s) = n - Base(f) /\ Len(g) = n - 1 /\ g # <<>>
  BY <1>2, <1>3 DEF Inside, Base, EndOf, Merged
<1>5. Base(g) = Base(f)
  BY <1>2, <1>3, <1>4 DEF Base, Merged, Inside
<1>6. /\ Front(s) \in Seq(Database) /\ Len(Front(s)) = Len(s) - 1 /\ s # <<>>
      /\ \A j \in 1 .. Len(s) - 1 : Front(s)[j] = s[j]
  <2>1. s # <<>> /\ Len(s) \in Nat /\ Len(s) > 0
    BY <1>4
  <2> QED
    BY <2>1, FrontIs
<1>7. \A j \in 1 .. Len(Front(s)) : Front(s)[j] = g[Base(g) + j - 1].whole
  <2>1. \A j \in 1 .. Len(s) : s[j] = f[Base(f) + j - 1].whole
    BY <1>3 DEF Inside
  <2>2. ASSUME NEW j \in 1 .. Len(Front(s))
        PROVE  Front(s)[j] = g[Base(g) + j - 1].whole
    <3>1. PICK i : i = Base(f) + j - 1
      OBVIOUS
    <3>2. i \in 1 .. Len(g) /\ i # Len(g) /\ j \in 1 .. Len(s) /\ j \in 1 .. Len(s) - 1
      BY <1>4, <1>6, <3>1
    <3>3. g[i].whole = f[i].whole
      BY <3>2 DEF Merged
    <3> QED
      BY <1>5, <1>6, <2>1, <3>1, <3>2, <3>3
  <2> QED
    BY <2>2
<1>8. \A i \in Base(g) .. Len(g) : /\ g[i].begun <=> i = Base(g)
                                   /\ g[i].whole # NoTx /\ Serves(d, g[i].whole, Signer)
  BY <1>2, <1>3, <1>4, <1>5 DEF Inside, Merged
<1>9. EndOf(w, g[Len(g)].todo) = g[Len(g)].whole
  BY <1>2, <1>4 DEF Kept, Stacked, Merged, EndOf
<1>10. Inside(d, g, w, Front(s))
  BY <1>3, <1>4, <1>5, <1>6, <1>7, <1>8, <1>9 DEF Inside, Merged
<1>11. Stacked(g)
  <2>1. Stacked(f)
    BY DEF Kept
  <2>2. \A i \in 1 .. Len(g) : i \in 1 .. Len(f) /\ i # Len(f)
    BY <1>2, <1>4
  <2>3. 1 \in 1 .. Len(g) /\ g[1].begun
    BY <1>2, <1>4, <2>1 DEF Stacked, Merged
  <2>4. \A i \in 1 .. Len(g) : g[i].todo = <<>> /\ (i # 1 => g[i].kind # "application")
    BY <2>1, <2>2 DEF Stacked, Merged
  <2> QED
    BY <2>3, <2>4 DEF Stacked
<1> QED
  BY <1>1, <1>4, <1>6, <1>10, <1>11 DEF Kept

\* The block that began the transaction ends well: what commits is whole.
LEMMA TransactionCommits ==
  ASSUME NEW d, NEW f \in Seq(Block), NEW w \in Database, NEW s \in Seq(Database),
         Kept(d, f, w, s, FALSE), f # <<>>, f[Len(f)].todo = <<>>, f[Len(f)].begun,
         NEW g \in Seq(Block), Dropped(f, g)
  PROVE  /\ Kept(w, g, NoTx, s, FALSE) /\ Serves(d, w, Signer)
         /\ Len(f) = 1 \/ f[1].whole = NoTx
<1>1. Inside(d, f, w, s)
  BY ClearingTxAssumption DEF Kept
<1>2. PICK n : n = Len(f)
  OBVIOUS
<1>3. /\ n \in Nat /\ n = Base(f) /\ n \in {1, 2} /\ Len(s) = 0 /\ Serves(d, w, Signer)
      /\ n = 2 => f[1].whole = NoTx /\ f[1].kind = "application"
  BY <1>1, <1>2 DEF Inside, Base, EndOf
<1>4. Stacked(g) /\ Outside(g, s, FALSE)
  BY <1>2, <1>3 DEF Kept, Stacked, Outside, Dropped
<1> QED
  BY <1>2, <1>3, <1>4 DEF Kept

\* A savepoint's block is left by an exception: its savepoint is what the one below stands for.
LEMMA SavepointRestored ==
  ASSUME NEW d, NEW f \in Seq(Block), NEW w \in Database, NEW s \in Seq(Database), NEW r,
         Kept(d, f, w, s, r), f # <<>>, ~f[Len(f)].begun,
         NEW g \in Seq(Block), Dropped(f, g)
  PROVE  Kept(d, g, Last(s), Front(s), TRUE) /\ s # <<>> /\ Len(f) > 1
<1>1. Inside(d, f, w, s)
  BY ClearingTxAssumption DEF Kept
<1>2. PICK n : n = Len(f)
  OBVIOUS
<1>3. /\ n \in Nat /\ Base(f) < n /\ Base(f) \in {1, 2}
      /\ Len(s) = n - Base(f) /\ Len(g) = n - 1 /\ g # <<>> /\ s # <<>>
  BY <1>1, <1>2 DEF Inside, Base, Dropped
<1>4. /\ Front(s) \in Seq(Database) /\ Len(Front(s)) = Len(s) - 1 /\ Last(s) = s[Len(s)]
      /\ \A j \in 1 .. Len(s) - 1 : Front(s)[j] = s[j]
      /\ Last(s) \in Database /\ Last(s) # NoTx
  <2>1. s \in Seq(Database) /\ s # <<>> /\ NoTx \notin Database
    BY <1>3, ClearingTxAssumption
  <2> QED
    BY ONLY <2>1, FrontIs
<1>5. Base(g) = Base(f)
  BY <1>2, <1>3 DEF Base, Dropped
<1>6. \A j \in 1 .. Len(s) : s[j] = f[Base(f) + j - 1].whole
  BY <1>1 DEF Inside
<1>7. ASSUME NEW j \in 1 .. Len(Front(s))
      PROVE  Front(s)[j] = g[Base(g) + j - 1].whole
  <2>1. PICK i : i = Base(f) + j - 1
    OBVIOUS
  <2>2. i \in 1 .. Len(g) /\ j \in 1 .. Len(s) /\ j \in 1 .. Len(s) - 1
    BY <1>3, <1>4, <2>1
  <2>3. g[i] = f[i]
    BY <2>2 DEF Dropped
  <2> QED
    BY <1>4, <1>5, <1>6, <2>1, <2>2, <2>3
<1>8. Stacked(f) /\ \A i \in 1 .. Len(g) : i \in 1 .. Len(f) /\ i # Len(f) /\ g[i] = f[i]
  BY <1>2, <1>3 DEF Kept, Dropped
<1>9. EndOf(Last(s), g[Len(g)].todo) = g[Len(g)].whole
  <2>1. Len(g) \in 1 .. Len(g) /\ g[Len(g)].todo = <<>> /\ g[Len(g)].whole = f[n - 1].whole
    BY <1>3, <1>8 DEF Stacked
  <2>2. Len(s) \in 1 .. Len(s) /\ Base(f) + Len(s) - 1 = n - 1
    BY <1>3
  <2> QED
    BY <1>4, <1>6, <2>1, <2>2 DEF EndOf
<1>10. \A i \in Base(g) .. Len(g) : /\ g[i].begun <=> i = Base(g)
                                    /\ g[i].whole # NoTx /\ Serves(d, g[i].whole, Signer)
  BY <1>1, <1>2, <1>3, <1>5, <1>8 DEF Inside
<1>11. Inside(d, g, Last(s), Front(s))
  <2>1. Base(g) <= Len(g) /\ (Base(g) = 2 => g[1].kind = "application")
    BY <1>1, <1>3, <1>5, <1>8 DEF Inside
  <2>2. Len(Front(s)) = Len(g) - Base(g)
    BY <1>3, <1>4, <1>5
  <2> QED
    BY <1>3, <1>7, <1>9, <1>10, <2>1, <2>2 DEF Inside
<1>12. Stacked(g)
  BY SMTT(30), <1>3, <1>8 DEF Stacked
<1>13. Len(f) > 1
  BY <1>2, <1>3
<1>14. Kept(d, g, Last(s), Front(s), TRUE)
  BY <1>3, <1>4, <1>11, <1>12 DEF Kept
<1> QED
  BY <1>3, <1>13, <1>14

\* Any other block is left by an exception, with the transaction if there is one.
LEMMA TransactionEnds ==
  ASSUME NEW d, NEW f \in Seq(Block), NEW w \in Database \cup {NoTx}, NEW s \in Seq(Database), NEW r,
         Kept(d, f, w, s, r), f # <<>>, w = NoTx \/ f[Len(f)].begun,
         NEW g \in Seq(Block), Dropped(f, g), NEW e
  PROVE  Kept(e, g, NoTx, s, Len(f) > 1)
<1>1. PICK n : n = Len(f)
  OBVIOUS
<1>2. n \in Nat /\ n > 0 /\ Stacked(f) /\ \A i \in 1 .. Len(g) : i \in 1 .. n /\ i # n /\ g[i] = f[i]
  BY <1>1 DEF Kept, Dropped
<1>3. Stacked(g) /\ (n > 1 => g # <<>>) /\ Len(g) = n - 1
  BY SMTT(30), <1>1, <1>2 DEF Stacked, Dropped
<1>4. Outside(g, s, n > 1)
  <2>1. CASE w = NoTx
    BY <1>1, <1>2, <1>3, <2>1 DEF Kept, Outside
  <2>2. CASE w # NoTx /\ f[n].begun
    <3>1. Inside(d, f, w, s) /\ Base(f) \in {1, 2} /\ (Base(f) = 2 => f[1].whole = NoTx)
      BY <2>2 DEF Kept, Base
    <3>2. n = Base(f) /\ Len(s) = 0 /\ Len(s) \in Nat
      BY <1>1, <1>2, <2>2, <3>1 DEF Inside
    <3>3. s = <<>>
      BY <3>2
    <3> QED
      BY <1>1, <1>2, <1>3, <3>1, <3>2, <3>3 DEF Outside
  <2> QED
    BY <1>1, <2>1, <2>2
<1> QED
  BY <1>1, <1>3, <1>4 DEF Kept

\* An application catches what a step raised.
LEMMA ApplicationCatches ==
  ASSUME NEW d, NEW f \in Seq(Block), NEW w, NEW s,
         Kept(d, f, w, s, TRUE), f[Len(f)].kind = "application"
  PROVE  Kept(d, f, w, s, FALSE)
<1>1. Len(f) = 1 /\ f # <<>>
  <2>1. f # <<>> /\ Stacked(f)
    BY DEF Kept
  <2>2. PICK n : n = Len(f)
    OBVIOUS
  <2>3. n \in Nat /\ n > 0 /\ f[n].kind = "application"
    BY <2>1, <2>2
  <2>4. n \in 1 .. n
    BY <2>3
  <2> QED
    BY <2>1, <2>2, <2>3, <2>4 DEF Stacked
<1> QED
  BY <1>1 DEF Kept, Outside

\* SQLite ends the transaction of a statement that fails.
LEMMA SqliteEnds ==
  ASSUME NEW d, NEW f \in Seq(Block), NEW w, NEW s, NEW r, Kept(d, f, w, s, r), f # <<>>,
         NEW g \in Seq(Block), Len(g) = Len(f) - 1,
         \A i \in 1 .. Len(g) : /\ g[i].kind = f[i].kind /\ g[i].begun = f[i].begun
                                /\ g[i].todo = f[i].todo /\ g[i].whole = NoTx,
         NEW e
  PROVE  Kept(e, g, NoTx, <<>>, Len(f) > 1)
<1>1. PICK n : n = Len(f)
  OBVIOUS
<1>2. n \in Nat /\ n > 0 /\ Stacked(f) /\ Len(g) = n - 1 /\ (n > 1 => g # <<>>)
  BY <1>1 DEF Kept
<1>3. Stacked(g)
  <2>1. \A i \in 1 .. Len(g) : i \in 1 .. n /\ i # n
    BY <1>2
  <2>2. \A i \in 1 .. Len(g) : g[i].todo = <<>> /\ (i # 1 => g[i].kind # "application")
    BY <1>1, <1>2, <2>1 DEF Stacked
  <2>3. g # <<>> => 1 \in 1 .. Len(g) /\ g[1].begun
    BY <1>2 DEF Stacked
  <2> QED
    BY <2>2, <2>3 DEF Stacked
<1>4. Outside(g, <<>>, n > 1)
  BY <1>1, <1>2, <1>3 DEF Outside
<1> QED
  BY <1>1, <1>2, <1>3, <1>4 DEF Kept

-------------------------------------------------------------------------------
\* What the methods' statements leave are databases, and the last is what the method
\* leaves as a whole.
LEMMA InDatabase ==
  ASSUME NEW d, DbTypes(d)
  PROVE  d \in Database
<1>1. d.books \in [DOMAIN d.books -> Book] /\ DOMAIN d.books \in SUBSET BookIds
  BY DEF DbTypes, DbTypeOK
<1>2. d.books \in UNION {[S -> Book] : S \in SUBSET BookIds}
  BY <1>1
<1> QED
  BY <1>2 DEF DbTypes, DbTypeOK, Shape, Database

\* A database that has each of its tables from one of two.
Mixes(d, e, x) ==
  /\ Shape(x)
  /\ x.accounts \in {d.accounts, e.accounts} /\ x.offers \in {d.offers, e.offers}
  /\ x.accrued \in {d.accrued, e.accrued} /\ x.books \in {d.books, e.books}
  /\ x.redemptions \in {d.redemptions, e.redemptions} /\ x.revoked \in {d.revoked, e.revoked}

\* A database in progress has each of its tables from before or after the method.
LEMMA MixInDatabase ==
  ASSUME NEW d, DbTypes(d), NEW e, DbTypes(e), NEW x, Mixes(d, e, x)
  PROVE  x \in Database
<1>1. d \in Database /\ e \in Database
  BY InDatabase
<1>2. /\ x.accounts \in [Buyers -> Account]
      /\ x.offers \in [Publishers -> [Resources -> Offer \cup {NoRow}]]
      /\ x.accrued \in [Publishers -> Nat]
      /\ x.books \in UNION {[S -> Book] : S \in SUBSET BookIds}
      /\ x.redemptions \in SUBSET Receipt /\ x.revoked \in BOOLEAN
  BY <1>1 DEF Mixes, Database
<1> QED
  BY <1>2 DEF Mixes, Shape, Database

\* Two databases with the same tables are one.
LEMMA SameTables ==
  ASSUME NEW d, Shape(d), NEW e, Shape(e), d.accounts = e.accounts, d.offers = e.offers,
         d.accrued = e.accrued, d.books = e.books, d.redemptions = e.redemptions,
         d.revoked = e.revoked
  PROVE  d = e
BY DEF Shape

\* The statements l make e of a database.
LeadsTo(l, e) == l \in Seq(Database) /\ l # <<>> /\ Last(l) = e

\* The three statements of issue: the account, the book, its items.
LEMMA IssueLeads ==
  ASSUME NEW d, DbInv(d), NEW c \in IssueCall, CanIssue(d, c, Now),
         NEW b \in BookIds, b \notin DOMAIN d.books
  PROVE  LeadsTo(IssueStatements(d, c, b), AfterIssue(d, c, Now, b, Signer))
<1> DEFINE u    == c.buyer
           book == NewBook(d, c, Now, Signer)
           bare == [book EXCEPT !.items = [r \in Resources |-> NoRow]]
           one  == [d EXCEPT !.accounts[u].available = @ - Price(d, c),
                             !.accounts[u].reserved = @ + Price(d, c)]
           two  == [one EXCEPT !.books = [x \in DOMAIN d.books \cup {b} |->
                                            IF x = b THEN bare ELSE d.books[x]]]
           all  == [two EXCEPT !.books[b].items = book.items]
<1>1. PICK e : e = AfterIssue(d, c, Now, b, Signer)
  OBVIOUS
<1>2. DbTypes(d) /\ Shape(d) /\ DbTypes(e) /\ Shape(e)
  <2>1. Now \in Positive /\ Signer \in AuthorityKeys
    BY ClearingTxAssumption
  <2>2. DbInv(e)
    BY <1>1, <2>1, IssueKeeps
  <2> QED
    BY <2>2 DEF DbInv, DbTypes
<1>3. /\ e.accounts = [d.accounts EXCEPT ![u].available = @ - Price(d, c),
                                        ![u].reserved = @ + Price(d, c)]
      /\ e.books = [x \in DOMAIN d.books \cup {b} |-> IF x = b THEN book ELSE d.books[x]]
      /\ e.offers = d.offers /\ e.accrued = d.accrued
      /\ e.redemptions = d.redemptions /\ e.revoked = d.revoked
  BY <1>1, <1>2 DEF Shape, AfterIssue
<1>4. /\ Shape(one) /\ one.accounts = e.accounts /\ one.offers = d.offers /\ one.accrued = d.accrued
      /\ one.books = d.books /\ one.redemptions = d.redemptions /\ one.revoked = d.revoked
  <2>1. PICK p : p = Price(d, c)
    OBVIOUS
  <2>2. one = [d EXCEPT !.accounts[u].available = @ - p, !.accounts[u].reserved = @ + p]
    BY <2>1
  <2>3. e.accounts = [d.accounts EXCEPT ![u].available = @ - p, ![u].reserved = @ + p]
    BY <1>3, <2>1
  <2> HIDE DEF one
  <2> QED
    BY <1>2, <2>2, <2>3 DEF Shape
<1>5. one \in Database
  BY <1>2, <1>4, MixInDatabase DEF Mixes
<1>6. /\ Shape(two) /\ two.accounts = e.accounts /\ two.offers = d.offers /\ two.accrued = d.accrued
      /\ two.books = [x \in DOMAIN d.books \cup {b} |-> IF x = b THEN bare ELSE d.books[x]]
      /\ two.redemptions = d.redemptions /\ two.revoked = d.revoked
  <2> HIDE DEF one, bare
  <2> QED
    BY <1>4 DEF Shape
<1>7. book \in Book /\ d.books \in [DOMAIN d.books -> Book] /\ DOMAIN d.books \subseteq BookIds
  BY <1>2, NewBookCosts, ClearingTxAssumption DEF DbTypes, DbTypeOK, CanIssue
<1>8. bare \in Book /\ [bare EXCEPT !.items = book.items] = book
  <2>1. [r \in Resources |-> NoRow] \in [Resources -> Item \cup {NoRow}]
    OBVIOUS
  <2> HIDE DEF book
  <2> QED
    BY <1>7, <2>1 DEF Book
<1>9. two \in Database
  <2>1. PICK y : y = two
    OBVIOUS
  <2>2. y.books \in [DOMAIN d.books \cup {b} -> Book] /\ DOMAIN d.books \cup {b} \in SUBSET BookIds
    BY <1>6, <1>7, <1>8, <2>1
  <2>3. y.books \in UNION {[S -> Book] : S \in SUBSET BookIds}
    BY <2>2
  <2>4. d \in Database /\ e \in Database
    BY <1>2, InDatabase
  <2> QED
    BY <1>6, <2>1, <2>3, <2>4 DEF Shape, Database
<1>10. all = e
  <2>1. PICK y : y = two
    OBVIOUS
  <2>2. [y EXCEPT !.books[b].items = book.items].books = e.books
    <3>1. y.books[b] = bare /\ b \in DOMAIN y.books
      BY <1>6, <2>1
    <3>2. PICK z, v : z = [y EXCEPT !.books[b].items = book.items] /\ v = y.books
      OBVIOUS
    <3>3. z.books = [v EXCEPT ![b] = [v[b] EXCEPT !.items = book.items]]
      BY <1>6, <2>1, <3>2 DEF Shape
    <3>4. z.books = [v EXCEPT ![b] = book]
      BY <1>8, <3>1, <3>2, <3>3
    <3>5. z.books = e.books
      BY SMTT(30), <1>3, <1>6, <2>1, <3>2, <3>4
    <3> QED
      BY <3>2, <3>5
  <2> QED
    BY ZenonT(60), <1>2, <1>3, <1>6, <2>1, <2>2 DEF Shape
<1>11. IssueStatements(d, c, b) = <<one, two, all>>
  BY DEF IssueStatements
<1>12. e \in Database
  BY <1>2, InDatabase
<1> HIDE DEF one, two, all
<1> QED
  BY <1>1, <1>5, <1>9, <1>10, <1>11, <1>12 DEF LeadsTo, Last

\* The four of redeem: the account, the book, the accrual, the receipt.
LEMMA RedeemLeads ==
  ASSUME NEW d, DbInv(d), NEW c \in RedeemCall, CanRedeem(d, c, Now)
  PROVE  LeadsTo(RedeemStatements(d, c), AfterRedeem(d, c, Now))
<1> DEFINE u     == c.buyer
           units == UnitsOfItem(d, c)
           one   == [d EXCEPT !.accounts[u].reserved = @ - units, !.accounts[u].redeemed = @ + units]
           two   == [one EXCEPT !.books[c.book].remaining = @ - units]
           three == [two EXCEPT !.accrued[c.publisher] = @ + units]
           all   == [three EXCEPT !.redemptions = @ \cup {NewReceipt(d, c, Now)}]
<1>1. PICK e, n, x : e = AfterRedeem(d, c, Now) /\ n = units /\ x = NewReceipt(d, c, Now)
  OBVIOUS
<1>2. DbTypes(d) /\ Shape(d) /\ DbTypes(e) /\ Shape(e)
  <2>1. DbInv(e)
    BY <1>1, RedeemKeeps, ClearingTxAssumption
  <2> QED
    BY <2>1 DEF DbInv, DbTypes
<1>3. /\ e.accounts = [d.accounts EXCEPT ![u].reserved = @ - n, ![u].redeemed = @ + n]
      /\ e.books = [d.books EXCEPT ![c.book].remaining = @ - n]
      /\ e.accrued = [d.accrued EXCEPT ![c.publisher] = @ + n]
      /\ e.redemptions = d.redemptions \cup {x}
      /\ e.offers = d.offers /\ e.revoked = d.revoked
  BY <1>1, <1>2 DEF Shape, AfterRedeem
<1>4. /\ one = [d EXCEPT !.accounts[u].reserved = @ - n, !.accounts[u].redeemed = @ + n]
      /\ two = [one EXCEPT !.books[c.book].remaining = @ - n]
      /\ three = [two EXCEPT !.accrued[c.publisher] = @ + n]
      /\ all = [three EXCEPT !.redemptions = @ \cup {x}]
      /\ RedeemStatements(d, c) = <<one, two, three, all>>
  BY SMTT(30), <1>1 DEF RedeemStatements
<1> HIDE DEF one, two, three, all
<1>5. /\ Shape(one) /\ one.accounts = e.accounts /\ one.offers = d.offers /\ one.accrued = d.accrued
      /\ one.books = d.books /\ one.redemptions = d.redemptions /\ one.revoked = d.revoked
  BY <1>2, <1>3, <1>4 DEF Shape
<1>6. /\ Shape(two) /\ two.accounts = e.accounts /\ two.offers = d.offers /\ two.accrued = d.accrued
      /\ two.books = e.books /\ two.redemptions = d.redemptions /\ two.revoked = d.revoked
  BY <1>3, <1>4, <1>5 DEF Shape
<1>7. /\ Shape(three) /\ three.accounts = e.accounts /\ three.offers = d.offers
      /\ three.accrued = e.accrued /\ three.books = e.books
      /\ three.redemptions = d.redemptions /\ three.revoked = d.revoked
  BY <1>3, <1>4, <1>6 DEF Shape
<1>8. all = e
  <2>1. /\ Shape(all) /\ all.accounts = e.accounts /\ all.offers = e.offers
        /\ all.accrued = e.accrued /\ all.books = e.books
        /\ all.redemptions = e.redemptions /\ all.revoked = e.revoked
    BY <1>3, <1>4, <1>7 DEF Shape
  <2> QED
    BY <1>2, <2>1, SameTables
<1>9. one \in Database /\ two \in Database /\ three \in Database /\ e \in Database
  BY <1>2, <1>5, <1>6, <1>7, InDatabase, MixInDatabase DEF Mixes
<1>10. LeadsTo(<<one, two, three, e>>, e)
  BY SMTT(30), <1>9 DEF LeadsTo, Last
<1> QED
  BY <1>1, <1>4, <1>8, <1>10

\* The two of release: the account, the book.
LEMMA ReleaseLeads ==
  ASSUME NEW d, DbInv(d), NEW b \in DOMAIN d.books
  PROVE  LeadsTo(ReleaseStatements(d, b), AfterRelease(d, b))
<1> DEFINE u   == d.books[b].call.buyer
           one == [d EXCEPT !.accounts[u].reserved = @ - d.books[b].remaining,
                            !.accounts[u].available = @ + d.books[b].remaining]
           all == [one EXCEPT !.books[b].remaining = 0, !.books[b].closed = TRUE]
<1>1. PICK e, n, v : e = AfterRelease(d, b) /\ n = d.books[b].remaining /\ v = u
  BY ZenonT(30)
<1>2. DbTypes(d) /\ Shape(d) /\ DbTypes(e) /\ Shape(e)
  <2>1. DbInv(e)
    BY <1>1, ReleaseKeeps
  <2> QED
    BY <2>1 DEF DbInv, DbTypes
<1>3. /\ e.accounts = [d.accounts EXCEPT ![v].reserved = @ - n, ![v].available = @ + n]
      /\ e.books = [d.books EXCEPT ![b].remaining = 0, ![b].closed = TRUE]
      /\ e.accrued = d.accrued /\ e.redemptions = d.redemptions
      /\ e.offers = d.offers /\ e.revoked = d.revoked
  BY <1>1, <1>2 DEF Shape, AfterRelease
<1>4. /\ one = [d EXCEPT !.accounts[v].reserved = @ - n, !.accounts[v].available = @ + n]
      /\ all = [one EXCEPT !.books[b].remaining = 0, !.books[b].closed = TRUE]
      /\ ReleaseStatements(d, b) = <<one, all>>
  BY <1>1 DEF ReleaseStatements
<1> HIDE DEF one, all
<1>5. /\ Shape(one) /\ one.accounts = e.accounts /\ one.offers = d.offers /\ one.accrued = d.accrued
      /\ one.books = d.books /\ one.redemptions = d.redemptions /\ one.revoked = d.revoked
  BY <1>2, <1>3, <1>4 DEF Shape
<1>6. all = e
  <2>1. /\ Shape(all) /\ all.accounts = e.accounts /\ all.offers = e.offers
        /\ all.accrued = e.accrued /\ all.books = e.books
        /\ all.redemptions = e.redemptions /\ all.revoked = e.revoked
    BY <1>3, <1>4, <1>5 DEF Shape
  <2> QED
    BY <1>2, <2>1, SameTables
<1>7. one \in Database /\ e \in Database
  BY <1>2, <1>5, InDatabase, MixInDatabase DEF Mixes
<1>8. LeadsTo(<<one, e>>, e)
  BY <1>7 DEF LeadsTo, Last
<1> QED
  BY <1>1, <1>4, <1>6, <1>8

\* An activation is one statement, or none if the book is active.
LEMMA ActivateLeads ==
  ASSUME NEW d, DbInv(d), NEW b \in DOMAIN d.books
  PROVE  /\ AfterActivate(d, b) \in Database
         /\ d.books[b].active => AfterActivate(d, b) = d
<1>1. PICK e : e = AfterActivate(d, b)
  OBVIOUS
<1>2. DbTypes(d) /\ DbTypes(e) /\ Shape(d) /\ Shape(e)
  BY <1>1, ActivateKeeps DEF DbInv, DbTypes
<1>3. /\ e.books = [d.books EXCEPT ![b].active = TRUE]
      /\ e.accounts = d.accounts /\ e.offers = d.offers /\ e.accrued = d.accrued
      /\ e.redemptions = d.redemptions /\ e.revoked = d.revoked
  BY <1>1, <1>2, ActivateWrites
<1>4. d.books[b].active => e.books = d.books
  <2>1. d.books \in [DOMAIN d.books -> Book] /\ d.books[b] \in Book
    BY <1>2 DEF DbTypes, DbTypeOK
  <2> QED
    BY ZenonT(60), <1>3, <2>1 DEF Book
<1> QED
  BY <1>1, <1>2, <1>3, <1>4, InDatabase DEF Shape

-------------------------------------------------------------------------------
\* The invariant: every caller's blocks are in order, and one caller writes.
TxTyped ==
  /\ frames \in [Callers -> Seq(Block)] /\ work \in [Callers -> Database \cup {NoTx}]
  /\ saves \in [Callers -> Seq(Database)] /\ raised \in [Callers -> BOOLEAN]

OneWriter == \A c, d \in Callers : InTx(c) /\ InTx(d) => c = d

CallersKept == \A c \in Callers : Kept(disk, frames[c], work[c], saves[c], raised[c])

TxInv == TxTyped /\ DbInv(disk) /\ OneWriter /\ CallersKept

\* A step is one caller's; what it commits, no other caller is in the middle of.
LEMMA CallerMoves ==
  ASSUME TxInv, NEW c \in Callers, NEW f \in Seq(Block), NEW w \in Database \cup {NoTx},
         NEW s \in Seq(Database), NEW r \in BOOLEAN,
         frames' = [frames EXCEPT ![c] = f], work' = [work EXCEPT ![c] = w],
         saves' = [saves EXCEPT ![c] = s], raised' = [raised EXCEPT ![c] = r],
         DbInv(disk'), Kept(disk', f, w, s, r),
         UNCHANGED disk \/ InTx(c), w # NoTx => InTx(c) \/ MayBegin(c)
  PROVE  TxInv'
<1>1. /\ frames'[c] = f /\ work'[c] = w /\ saves'[c] = s /\ raised'[c] = r
      /\ \A o \in Callers : o # c => /\ frames'[o] = frames[o] /\ work'[o] = work[o]
                                     /\ saves'[o] = saves[o] /\ raised'[o] = raised[o]
  BY DEF TxInv, TxTyped
<1>2. TxTyped'
  BY DEF TxInv, TxTyped
<1>3. \A o \in Callers : o # c /\ (~UNCHANGED disk \/ w # NoTx) => work[o] = NoTx
  BY DEF TxInv, OneWriter, InTx, MayBegin
<1>4. OneWriter'
  BY <1>1, <1>3 DEF TxInv, OneWriter, InTx
<1>5. ASSUME NEW o \in Callers, o # c
      PROVE  Kept(disk', frames[o], work[o], saves[o], raised[o])
  <2>1. Kept(disk, frames[o], work[o], saves[o], raised[o])
    BY DEF TxInv, CallersKept
  <2>2. CASE UNCHANGED disk
    BY <2>1, <2>2
  <2>3. CASE work[o] = NoTx
    BY <2>1, <2>3 DEF Kept
  <2> QED
    BY <1>3, <1>5, <2>2, <2>3
<1>6. CallersKept'
  BY <1>1, <1>5 DEF CallersKept
<1> QED
  BY <1>2, <1>4, <1>6 DEF TxInv

\* One more step of the innermost block is all that Stepped changes.
LEMMA SteppedIs ==
  ASSUME NEW f \in Seq(Block)
  PROVE  /\ Stepped(f) \in Seq(Block) /\ Len(Stepped(f)) = Len(f) /\ Len(f) \in Nat
         /\ \A i \in 1 .. Len(f) :
              /\ Stepped(f)[i].kind = f[i].kind /\ Stepped(f)[i].begun = f[i].begun
              /\ Stepped(f)[i].todo = f[i].todo /\ Stepped(f)[i].whole = f[i].whole
<1>1. CASE f = <<>>
  BY <1>1 DEF Stepped
<1>2. CASE f # <<>>
  <2>1. PICK n : n = Len(f)
    OBVIOUS
  <2>2. n \in Nat /\ n > 0 /\ f[n] \in Block /\ \A i \in 1 .. n : f[i] \in Block
    BY <1>2, <2>1
  <2>3. PICK x : x = [f[n] EXCEPT !.steps = @ + 1]
    OBVIOUS
  <2>4. /\ x \in Block /\ x.kind = f[n].kind /\ x.begun = f[n].begun
        /\ x.todo = f[n].todo /\ x.whole = f[n].whole
    <3>1. PICK y : y = f[n]
      OBVIOUS
    <3>2. y \in Block /\ x = [y EXCEPT !.steps = @ + 1] /\ y.steps + 1 \in Nat
      BY <2>2, <2>3, <3>1 DEF Block
    <3> QED
      BY ONLY <3>1, <3>2 DEF Block
  <2>5. Stepped(f) = [f EXCEPT ![n] = x]
    BY <1>2, <2>1, <2>3 DEF Stepped
  <2>6. /\ [f EXCEPT ![n] = x] \in Seq(Block) /\ Len([f EXCEPT ![n] = x]) = n
        /\ \A i \in 1 .. n : [f EXCEPT ![n] = x][i] = IF i = n THEN x ELSE f[i]
    BY <2>1, <2>2, <2>4
  <2> QED
    BY <2>1, <2>2, <2>4, <2>5, <2>6
<1> QED
  BY <1>1, <1>2

\* A block that may begin sees what the steps before it made of the database.
LEMMA CallerSees ==
  ASSUME TxInv, NEW c \in Callers, NEW kind, NEW call, MayCall(c, kind, call)
  PROVE  /\ View(c) = Whole(c) /\ View(c) \in Database /\ DbInv(View(c))
         /\ Serves(disk, View(c), Signer) /\ raised[c] = FALSE
         /\ frames[c] # <<>> => frames[c][Len(frames[c])].todo = <<>>
         /\ InTx(c) => View(c) = work[c]
         /\ ~InTx(c) => View(c) = disk
<1>1. /\ frames[c] \in Seq(Block) /\ work[c] \in Database \cup {NoTx} /\ raised[c] \in BOOLEAN
      /\ Kept(disk, frames[c], work[c], saves[c], raised[c])
  BY DEF TxInv, TxTyped, CallersKept
<1>2. raised[c] = FALSE
  BY <1>1 DEF MayCall, Kept
<1>3. frames[c] # <<>> => frames[c][Len(frames[c])].todo = <<>>
  BY DEF MayCall, Top, Last
<1>4. CASE InTx(c)
  <2>1. Inside(disk, frames[c], work[c], saves[c]) /\ frames[c] # <<>>
    BY <1>1, <1>4 DEF Kept, InTx, Inside
  <2>2. PICK n : n = Len(frames[c])
    OBVIOUS
  <2>3. n \in Nat /\ n > 0
    BY <1>1, <2>1, <2>2
  <2>4. work[c] = frames[c][n].whole
    BY <1>3, <2>1, <2>2 DEF Inside, EndOf
  <2>5. Serves(disk, frames[c][n].whole, Signer)
    BY <2>1, <2>2, <2>3 DEF Inside, Base
  <2> QED
    BY <1>1, <1>2, <1>3, <1>4, <2>2, <2>4, <2>5 DEF View, Whole, InTx, Top, Last, Serves
<1>5. CASE ~InTx(c)
  <2>1. DbTypes(disk)
    BY DEF TxInv, DbInv
  <2>2. disk \in Database /\ Serves(disk, disk, Signer)
    BY <2>1, InDatabase, FollowsItself DEF TxInv, Serves
  <2> QED
    BY <1>2, <1>3, <1>5, <2>2 DEF View, Whole, TxInv
<1> QED
  BY <1>4, <1>5

\* A block begins.
LEMMA EnterKeeps ==
  ASSUME TxInv, NEW c \in Callers,
         NEW kind \in {"application", "purchase", "issue", "activate", "redeem", "release"},
         NEW call \in BlockCalls, NEW todo \in Seq(Database), NEW whole \in Database,
         Enter(c, kind, call, todo, whole), kind = "application" => frames[c] = <<>>,
         Serves(View(c), whole, Signer), EndOf(View(c), todo) = whole
  PROVE  TxInv'
<1> DEFINE f == frames[c]
           b == Frame(kind, call, c, todo, whole)
           g == Append(Stepped(f), b)
           v == View(c)
           t == IF InTx(c) THEN Append(saves[c], work[c]) ELSE saves[c]
<1>1. MayCall(c, kind, call)
  BY DEF Enter
<1>2. /\ v \in Database /\ DbInv(v) /\ Serves(disk, v, Signer) /\ raised[c] = FALSE
      /\ f # <<>> => f[Len(f)].todo = <<>>
      /\ InTx(c) => v = work[c]
      /\ ~InTx(c) => v = disk
  BY <1>1, CallerSees
<1>3. /\ f \in Seq(Block) /\ saves[c] \in Seq(Database) /\ work[c] \in Database \cup {NoTx}
      /\ Kept(disk, f, work[c], saves[c], FALSE)
  BY <1>2 DEF TxInv, TxTyped, CallersKept
<1>4. /\ b \in Block /\ b.begun = ~InTx(c) /\ b.kind = kind /\ b.todo = todo /\ b.whole = whole
  BY DEF Frame, Block, InTx
<1>5. g \in Seq(Block) /\ Pushed(f, g, b)
  <2>1. PICK h : h = Stepped(f)
    OBVIOUS
  <2>2. h \in Seq(Block) /\ Len(h) = Len(f) /\ Len(f) \in Nat
    BY <1>3, <2>1, SteppedIs
  <2>3. /\ Append(h, b) \in Seq(Block) /\ Len(Append(h, b)) = Len(h) + 1
        /\ Append(h, b)[Len(h) + 1] = b
        /\ \A i \in 1 .. Len(h) : Append(h, b)[i] = h[i]
    BY <1>4, <2>2, AppendProperties
  <2>4. \A i \in 1 .. Len(f) : /\ h[i].kind = f[i].kind /\ h[i].begun = f[i].begun
                               /\ h[i].todo = f[i].todo /\ h[i].whole = f[i].whole
    BY <1>3, <2>1, SteppedIs
  <2> HIDE DEF b, f
  <2> QED
    BY <2>1, <2>2, <2>3, <2>4 DEF Pushed
<1>6. t \in Seq(Database) /\ (InTx(c) => work[c] \in Database)
  BY <1>3 DEF InTx
<1>7. Serves(disk, whole, Signer) /\ DbInv(disk)
  BY <1>2, ServesOn DEF TxInv
<1>8. whole # NoTx
  BY ClearingTxAssumption
<1>9. Kept(disk, g, v, t, FALSE)
  <2> HIDE DEF f, b, g, v
  <2>1. work[c] = NoTx => v = disk /\ t = saves[c]
    BY <1>2 DEF InTx
  <2>2. work[c] # NoTx => work[c] \in Database /\ v = work[c] /\ t = Append(saves[c], work[c])
    BY <1>2, <1>6 DEF InTx
  <2>3. b.begun <=> work[c] = NoTx
    BY <1>4 DEF InTx
  <2>4. b.kind = "application" => f = <<>>
    BY <1>4 DEF f
  <2>5. EndOf(v, b.todo) = b.whole /\ Serves(disk, b.whole, Signer) /\ b.whole # NoTx
    BY <1>4, <1>7, <1>8 DEF v
  <2> HIDE DEF t
  <2>6. f # <<>> => f[Len(f)].todo = <<>>
    BY <1>2
  <2>7. Begins(disk, f, work[c], saves[c], b, v, t)
    BY <2>1, <2>2, <2>3, <2>4, <2>5, <2>6 DEF Begins
  <2> QED
    BY <1>2, <1>3, <1>4, <1>5, <1>6, <2>7, BlockBegins
<1>10. frames' = [frames EXCEPT ![c] = g] /\ UNCHANGED <<disk, raised>>
  BY DEF Enter
<1>11. work' = [work EXCEPT ![c] = v] /\ saves' = [saves EXCEPT ![c] = t]
       /\ (InTx(c) \/ MayBegin(c))
  <2>1. CASE InTx(c)
    BY <1>2, <2>1 DEF Enter, TxInv, TxTyped
  <2>2. CASE ~InTx(c)
    BY <1>2, <2>2 DEF Enter, TxInv, TxTyped
  <2> QED
    BY <2>1, <2>2
<1>12. raised' = [raised EXCEPT ![c] = FALSE]
  BY <1>2, <1>10 DEF TxInv, TxTyped
<1>13. v \in Database \cup {NoTx} /\ DbInv(disk') /\ Kept(disk', g, v, t, FALSE)
  BY <1>2, <1>7, <1>9, <1>10
<1> HIDE DEF f, b, g, v, t
<1> QED
  BY <1>5, <1>6, <1>10, <1>11, <1>12, <1>13, CallerMoves

\* The steps that begin a block, one method after the other.
LEMMA ApplicationKeeps ==
  ASSUME TxInv, NEW c \in Callers, Application(c)
  PROVE  TxInv'
<1>1. frames[c] = <<>> /\ Enter(c, "application", {}, <<>>, Whole(c))
  BY DEF Application
<1>2. View(c) = Whole(c) /\ View(c) \in Database /\ DbInv(View(c))
  BY <1>1, CallerSees DEF Enter
<1>3. Serves(View(c), Whole(c), Signer) /\ EndOf(View(c), <<>>) = Whole(c)
  BY <1>2, FollowsItself DEF Serves, EndOf, DbInv
<1>4. {} \in BlockCalls /\ <<>> \in Seq(Database)
  BY DEF BlockCalls
<1> QED
  BY <1>1, <1>2, <1>3, <1>4, EnterKeeps

\* A purchase begins with nothing to execute: its steps are the blocks above it.
LEMMA PurchaseKeeps ==
  ASSUME TxInv, NEW c \in Callers, NEW call \in PurchaseCalls, PurchaseBlock(c, call)
  PROVE  TxInv'
<1>1. Enter(c, "purchase", call, <<>>, Whole(c))
  BY DEF PurchaseBlock
<1>2. View(c) = Whole(c) /\ View(c) \in Database /\ DbInv(View(c))
  BY <1>1, CallerSees DEF Enter
<1>3. Serves(View(c), Whole(c), Signer) /\ EndOf(View(c), <<>>) = Whole(c)
  BY <1>2, FollowsItself DEF Serves, EndOf, DbInv
<1>4. call \in BlockCalls /\ <<>> \in Seq(Database)
  BY DEF BlockCalls
<1> QED
  BY <1>1, <1>2, <1>3, <1>4, EnterKeeps

\* When the statements of a method are done the connection reads what it leaves.
LEMMA LeadsInOrder ==
  ASSUME NEW l, NEW e, LeadsTo(l, e), NEW w
  PROVE  l \in Seq(Database) /\ EndOf(w, l) = e /\ e \in Database
<1>1. l \in Seq(Database) /\ l # <<>> /\ Last(l) = e
  BY DEF LeadsTo
<1>2. Last(l) \in Database
  BY <1>1, FrontIs
<1> QED
  BY <1>1, <1>2 DEF EndOf

\* Issue begins with three statements, or none when it answers a repeated call.
LEMMA IssueBlockKeeps ==
  ASSUME TxInv, NEW c \in Callers, NEW call \in IssueCalls, IssueBlock(c, call)
  PROVE  TxInv'
<1>1. call \in BlockCalls /\ call \in IssueCall /\ Now \in Positive /\ Signer \in AuthorityKeys
  BY ClearingTxAssumption DEF BlockCalls
<1>2. ASSUME NEW b \in BookIds \ DOMAIN View(c).books, CanIssue(View(c), call, Now),
             Enter(c, "issue", call, IssueStatements(View(c), call, b),
                   AfterIssue(Whole(c), call, Now, b, Signer))
      PROVE  TxInv'
  <2>1. PICK v, e, l : /\ v = View(c) /\ e = AfterIssue(v, call, Now, b, Signer)
                       /\ l = IssueStatements(v, call, b)
    OBVIOUS
  <2>2. v = Whole(c) /\ DbInv(v)
    BY <1>2, <2>1, CallerSees DEF Enter
  <2>3. Serves(v, e, Signer)
    BY <1>1, <1>2, <2>1, <2>2, IssueKeeps, IssueFollows DEF Serves
  <2>4. LeadsTo(l, e)
    BY <1>1, <1>2, <2>1, <2>2, IssueLeads
  <2>5. l \in Seq(Database) /\ EndOf(v, l) = e /\ e \in Database
    BY <2>4, LeadsInOrder
  <2>6. Enter(c, "issue", call, l, e) /\ Serves(View(c), e, Signer) /\ EndOf(View(c), l) = e
    BY <1>2, <2>1, <2>2, <2>3, <2>5
  <2> QED
    BY <1>1, <2>5, <2>6, EnterKeeps
<1>3. ASSUME Enter(c, "issue", call, <<>>, Whole(c))
      PROVE  TxInv'
  <2>1. View(c) = Whole(c) /\ View(c) \in Database /\ DbInv(View(c))
    BY <1>3, CallerSees DEF Enter
  <2>2. Serves(View(c), Whole(c), Signer) /\ EndOf(View(c), <<>>) = Whole(c)
    BY <2>1, FollowsItself DEF Serves, EndOf, DbInv
  <2>3. <<>> \in Seq(Database)
    OBVIOUS
  <2> QED
    BY <1>1, <1>3, <2>1, <2>2, <2>3, EnterKeeps
<1> QED
  BY <1>2, <1>3 DEF IssueBlock

\* Activate begins with one statement, or none when the book is active.
LEMMA ActivateBlockKeeps ==
  ASSUME TxInv, NEW c \in Callers, NEW b \in BookIds, ActivateBlock(c, b)
  PROVE  TxInv'
<1>1. PICK v, e, l : /\ v = View(c) /\ e = AfterActivate(v, b)
                     /\ l = IF v.books[b].active THEN <<>> ELSE <<e>>
  OBVIOUS
<1>2. /\ b \in DOMAIN v.books /\ Enter(c, "activate", b, l, AfterActivate(Whole(c), b))
      /\ CanActivate(v, b, [book |-> b, signer |-> v.books[b].signer], v.books[b].call.buyer,
                     v.books[b].call.publisher, Now, Now, Signer)
  BY <1>1 DEF ActivateBlock
<1>3. v = Whole(c) /\ DbInv(v)
  BY <1>1, <1>2, CallerSees DEF Enter
<1>4. Serves(v, e, Signer)
  BY <1>1, <1>2, <1>3, ActivateServes
<1>5. e \in Database /\ (v.books[b].active => e = v)
  BY <1>1, <1>2, <1>3, ActivateLeads
<1>6. l \in Seq(Database) /\ EndOf(v, l) = e
  <2>1. CASE v.books[b].active
    BY <1>1, <1>5, <2>1 DEF EndOf
  <2>2. CASE ~v.books[b].active
    BY <1>1, <1>5, <2>2 DEF EndOf, Last
  <2> QED
    BY <2>1, <2>2
<1>7. Enter(c, "activate", b, l, e) /\ Serves(View(c), e, Signer) /\ EndOf(View(c), l) = e
  BY <1>1, <1>2, <1>3, <1>4, <1>6
<1>8. b \in BlockCalls
  BY DEF BlockCalls
<1> QED
  BY <1>5, <1>6, <1>7, <1>8, EnterKeeps

\* Redeem begins with four statements, or none when it answers a repeated call.
LEMMA RedeemBlockKeeps ==
  ASSUME TxInv, NEW c \in Callers, NEW call \in RedeemCall, RedeemBlock(c, call)
  PROVE  TxInv'
<1>1. call \in BlockCalls /\ Now \in Positive
  BY ClearingTxAssumption DEF BlockCalls
<1>2. ASSUME CanRedeem(View(c), call, Now),
             Enter(c, "redeem", call, RedeemStatements(View(c), call),
                   AfterRedeem(Whole(c), call, Now))
      PROVE  TxInv'
  <2>1. PICK v, e, l : /\ v = View(c) /\ e = AfterRedeem(v, call, Now)
                       /\ l = RedeemStatements(v, call)
    OBVIOUS
  <2>2. v = Whole(c) /\ DbInv(v)
    BY <1>2, <2>1, CallerSees DEF Enter
  <2>3. Serves(v, e, Signer)
    BY <1>1, <1>2, <2>1, <2>2, RedeemKeeps, RedeemFollows DEF Serves
  <2>4. LeadsTo(l, e)
    BY <1>1, <1>2, <2>1, <2>2, RedeemLeads
  <2>5. l \in Seq(Database) /\ EndOf(v, l) = e /\ e \in Database
    BY <2>4, LeadsInOrder
  <2>6. Enter(c, "redeem", call, l, e) /\ Serves(View(c), e, Signer) /\ EndOf(View(c), l) = e
    BY <1>2, <2>1, <2>2, <2>3, <2>5
  <2> QED
    BY <1>1, <2>5, <2>6, EnterKeeps
<1>3. ASSUME Enter(c, "redeem", call, <<>>, Whole(c))
      PROVE  TxInv'
  <2>1. View(c) = Whole(c) /\ View(c) \in Database /\ DbInv(View(c))
    BY <1>3, CallerSees DEF Enter
  <2>2. Serves(View(c), Whole(c), Signer) /\ EndOf(View(c), <<>>) = Whole(c)
    BY <2>1, FollowsItself DEF Serves, EndOf, DbInv
  <2>3. <<>> \in Seq(Database)
    OBVIOUS
  <2> QED
    BY <1>1, <1>3, <2>1, <2>2, <2>3, EnterKeeps
<1> QED
  BY <1>2, <1>3 DEF RedeemBlock

\* Release begins with two statements.
LEMMA ReleaseBlockKeeps ==
  ASSUME TxInv, NEW c \in Callers, NEW b \in BookIds, ReleaseBlock(c, b)
  PROVE  TxInv'
<1>1. PICK v, e, l : v = View(c) /\ e = AfterRelease(v, b) /\ l = ReleaseStatements(v, b)
  OBVIOUS
<1>2. b \in DOMAIN v.books /\ Enter(c, "release", b, l, AfterRelease(Whole(c), b))
  BY <1>1 DEF ReleaseBlock, CanRelease
<1>3. v = Whole(c) /\ DbInv(v)
  BY <1>1, <1>2, CallerSees DEF Enter
<1>4. Serves(v, e, Signer) /\ LeadsTo(l, e)
  BY <1>1, <1>2, <1>3, ReleaseKeeps, ReleaseFollows, ReleaseLeads DEF Serves
<1>5. l \in Seq(Database) /\ EndOf(v, l) = e /\ e \in Database
  BY <1>4, LeadsInOrder
<1>6. Enter(c, "release", b, l, e) /\ Serves(View(c), e, Signer) /\ EndOf(View(c), l) = e
  BY <1>1, <1>2, <1>3, <1>4, <1>5
<1>7. b \in BlockCalls
  BY DEF BlockCalls
<1> QED
  BY <1>5, <1>6, <1>7, EnterKeeps

-------------------------------------------------------------------------------
\* What is known of a caller with blocks.
LEMMA CallerIs ==
  ASSUME TxInv, NEW c \in Callers
  PROVE  /\ frames[c] \in Seq(Block) /\ work[c] \in Database \cup {NoTx}
         /\ saves[c] \in Seq(Database) /\ raised[c] \in BOOLEAN /\ DbInv(disk)
         /\ Kept(disk, frames[c], work[c], saves[c], raised[c])
         /\ frames[c] # <<>> =>
              /\ Top(c) = frames[c][Len(frames[c])] /\ Top(c) \in Block
              /\ Front(frames[c]) \in Seq(Block) /\ Dropped(frames[c], Front(frames[c]))
<1>1. frames[c] \in Seq(Block)
  BY DEF TxInv, TxTyped
<1>2. ASSUME frames[c] # <<>>
      PROVE  /\ Top(c) = frames[c][Len(frames[c])] /\ Top(c) \in Block
             /\ Front(frames[c]) \in Seq(Block) /\ Dropped(frames[c], Front(frames[c]))
  <2>1. PICK f : f = frames[c]
    OBVIOUS
  <2>2. /\ Front(f) \in Seq(Block) /\ Len(Front(f)) = Len(f) - 1 /\ Len(f) \in Nat
        /\ \A i \in 1 .. Len(f) - 1 : Front(f)[i] = f[i]
        /\ Last(f) = f[Len(f)] /\ f[Len(f)] \in Block
    BY <1>1, <1>2, <2>1, FrontIs
  <2> QED
    BY <2>1, <2>2 DEF Dropped, Top
<1> QED
  BY <1>1, <1>2 DEF TxInv, TxTyped, CallersKept

\* One statement: those that remain still lead to what the block stands for.
LEMMA ExecuteKeeps ==
  ASSUME TxInv, NEW c \in Callers, Execute(c)
  PROVE  TxInv'
<1>1. PICK f, n, w, s : f = frames[c] /\ n = Len(f) /\ w = work[c] /\ s = saves[c]
  OBVIOUS
<1>2. /\ f \in Seq(Block) /\ f # <<>> /\ w \in Database /\ s \in Seq(Database) /\ DbInv(disk)
      /\ raised[c] = FALSE /\ Kept(disk, f, w, s, FALSE)
      /\ Top(c) = f[n] /\ f[n] \in Block /\ f[n].todo # <<>>
  BY <1>1, CallerIs DEF Execute, Running, InTx
<1>3. PICK x, h : x = [f[n] EXCEPT !.todo = Tail(@)] /\ h = Head(f[n].todo)
  OBVIOUS
<1>4. /\ x \in Block /\ x.kind = f[n].kind /\ x.begun = f[n].begun
      /\ x.whole = f[n].whole /\ x.todo = Tail(f[n].todo)
  <2>1. PICK y : y = f[n]
    OBVIOUS
  <2>2. y \in Block /\ y.todo # <<>> /\ x = [y EXCEPT !.todo = Tail(@)]
    BY <1>2, <1>3, <2>1
  <2>3. y.todo \in Seq(Database) /\ Tail(y.todo) \in Seq(Database)
    BY <2>2 DEF Block
  <2>4. x \in Block /\ x.kind = y.kind /\ x.begun = y.begun /\ x.whole = y.whole
        /\ x.todo = Tail(y.todo)
    BY ONLY <2>2, <2>3 DEF Block
  <2> QED
    BY <2>1, <2>4
<1>5. PICK g : g = [f EXCEPT ![n] = x]
  OBVIOUS
<1>6. n \in Nat /\ n \in 1 .. n
  BY <1>1, <1>2
<1>7. g \in Seq(Block) /\ Len(g) = n /\ \A i \in 1 .. n : g[i] = IF i = n THEN x ELSE f[i]
  BY <1>1, <1>2, <1>4, <1>5, <1>6
<1>8. Kept(disk, g, h, s, FALSE) /\ h \in Database
  <2>1. \A i \in 1 .. Len(f) : /\ g[i].kind = f[i].kind /\ g[i].begun = f[i].begun
                               /\ g[i].whole = f[i].whole
                               /\ g[i].todo = IF i = Len(f) THEN Tail(f[i].todo) ELSE f[i].todo
    BY <1>1, <1>4, <1>7
  <2>2. f[Len(f)].todo # <<>> /\ h = Head(f[Len(f)].todo) /\ Len(g) = Len(f)
    BY <1>1, <1>2, <1>3, <1>7
  <2>3. Kept(disk, g, Head(f[Len(f)].todo), s, FALSE) /\ Head(f[Len(f)].todo) \in Database
    BY <1>2, <1>7, <2>1, <2>2, StatementRuns
  <2> QED
    BY <2>2, <2>3
<1>9. frames' = [frames EXCEPT ![c] = g]
  BY <1>1, <1>3, <1>5 DEF Execute, TxInv, TxTyped
<1>10. /\ work' = [work EXCEPT ![c] = h] /\ UNCHANGED <<disk, saves, raised>> /\ InTx(c)
  BY <1>1, <1>2, <1>3 DEF Execute
<1>11. saves' = [saves EXCEPT ![c] = s] /\ raised' = [raised EXCEPT ![c] = FALSE]
  BY <1>1, <1>2, <1>10 DEF TxInv, TxTyped
<1>12. DbInv(disk') /\ Kept(disk', g, h, s, FALSE) /\ h \in Database \cup {NoTx}
  BY <1>2, <1>8, <1>10
<1> QED
  BY <1>2, <1>7, <1>9, <1>10, <1>11, <1>12, CallerMoves

\* What a block that ends well makes of the ones below, and of the disk.
LEMMA LeaveKeeps ==
  ASSUME TxInv, NEW c \in Callers, Leave(c)
  PROVE  /\ TxInv' /\ Serves(disk, disk', Signer)
         /\ UNCHANGED disk \/ /\ frames[c] # <<>>
                              /\ \/ Len(frames[c]) = 1 /\ frames'[c] = <<>>
                                 \/ frames[c][1].whole = NoTx
<1>1. PICK f, n, w, s : f = frames[c] /\ n = Len(f) /\ w = work[c] /\ s = saves[c]
  OBVIOUS
<1>2. /\ f \in Seq(Block) /\ f # <<>> /\ w \in Database /\ s \in Seq(Database) /\ DbInv(disk)
      /\ raised[c] = FALSE /\ Kept(disk, f, w, s, FALSE) /\ InTx(c)
      /\ Top(c) = f[n] /\ f[n] \in Block /\ f[n].todo = <<>>
      /\ Front(f) \in Seq(Block) /\ Dropped(f, Front(f))
  <2>1. frames[c] # <<>> /\ work[c] # NoTx /\ ~raised[c] /\ Top(c).todo = <<>>
    BY DEF Leave, Running, InTx
  <2>2. raised[c] = FALSE
    BY <2>1, CallerIs
  <2> QED
    BY <1>1, <2>1, <2>2, CallerIs DEF InTx
<1>3. raised' = [raised EXCEPT ![c] = FALSE] /\ DbTypes(disk)
  BY <1>2 DEF Leave, TxInv, TxTyped, DbInv
<1>4. ASSUME f[n].begun
      PROVE  /\ TxInv' /\ Serves(disk, disk', Signer)
             /\ (Len(frames[c]) = 1 /\ frames'[c] = <<>>) \/ frames[c][1].whole = NoTx
  <2>1. /\ Kept(w, Front(f), NoTx, s, FALSE) /\ Serves(disk, w, Signer)
        /\ Len(f) = 1 \/ f[1].whole = NoTx
    BY <1>1, <1>2, <1>4, TransactionCommits
  <2>2. /\ frames' = [frames EXCEPT ![c] = Front(f)] /\ disk' = w
        /\ work' = [work EXCEPT ![c] = NoTx] /\ UNCHANGED saves
    BY <1>1, <1>2, <1>4 DEF Leave, Commits, Resumed
  <2>3. saves' = [saves EXCEPT ![c] = s]
    BY <1>1, <2>2 DEF TxInv, TxTyped
  <2>4. DbInv(disk') /\ Kept(disk', Front(f), NoTx, s, FALSE)
    BY <2>1, <2>2 DEF Serves
  <2>5. TxInv'
    BY <1>2, <1>3, <2>2, <2>3, <2>4, CallerMoves
  <2>6. Len(f) = 1 => frames'[c] = <<>>
    <3>1. frames'[c] = Front(f)
      BY <2>2 DEF TxInv, TxTyped
    <3>2. Len(f) = 1 => Len(Front(f)) = 0
      BY <1>2 DEF Dropped
    <3> QED
      BY <1>2, <3>1, <3>2
  <2> QED
    BY <1>1, <2>1, <2>2, <2>5, <2>6
<1>5. ASSUME ~f[n].begun
      PROVE  TxInv' /\ UNCHANGED disk
  <2>1. PICK h, m, g : /\ h = Front(f) /\ m = Len(h)
                       /\ g = [h EXCEPT ![m].whole = f[n].whole]
    OBVIOUS
  <2>2. /\ frames' = [frames EXCEPT ![c] = g] /\ UNCHANGED disk
        /\ UNCHANGED work /\ saves' = [saves EXCEPT ![c] = Front(s)]
    BY <1>1, <1>2, <1>5, <2>1 DEF Leave, Commits, Resumed, TxInv, TxTyped
  <2>3. h \in Seq(Block) /\ m \in Nat /\ m = n - 1 /\ n \in Nat /\ n > 0
    BY <1>1, <1>2, <2>1 DEF Dropped
  <2>4. m # 0
    <3>1. Stacked(f)
      BY <1>2 DEF Kept
    <3> QED
      BY <1>1, <1>2, <1>5, <2>3, <3>1 DEF Stacked
  <2>5. PICK x : x = [h[m] EXCEPT !.whole = f[n].whole]
    OBVIOUS
  <2>6. /\ x \in Block /\ x.kind = h[m].kind /\ x.begun = h[m].begun
        /\ x.todo = h[m].todo /\ x.whole = f[n].whole
    <3>1. PICK y, z : y = h[m] /\ z = f[n].whole
      OBVIOUS
    <3>2. y \in Block /\ z \in Database \cup {NoTx} /\ x = [y EXCEPT !.whole = z]
      <4>1. m \in 1 .. Len(h)
        <5>1. m = Len(h)
          BY <2>1
        <5> QED
          BY <2>3, <2>4, <5>1
      <4>2. h[m] \in Block
        BY <2>3, <4>1
      <4>3. f[n].whole \in Database \cup {NoTx}
        BY <1>2 DEF Block
      <4> QED
        BY <2>5, <3>1, <4>2, <4>3
    <3>3. x \in Block /\ x.kind = y.kind /\ x.begun = y.begun /\ x.todo = y.todo /\ x.whole = z
      BY ONLY <3>2 DEF Block
    <3> QED
      BY <3>1, <3>3
  <2>7. /\ g \in Seq(Block) /\ Len(g) = m
        /\ \A i \in 1 .. m : g[i] = IF i = m THEN x ELSE h[i]
    <3>1. g = [h EXCEPT ![m] = x]
      BY <2>1, <2>5
    <3>2. m \in 1 .. m /\ Len(h) = m
      BY <2>1, <2>3, <2>4
    <3> QED
      BY <2>3, <2>6, <3>1, <3>2
  <2>8. Merged(f, g, f[n].whole)
    <3>1. \A i \in 1 .. m : h[i] = f[i]
      BY <1>2, <2>1 DEF Dropped
    <3> QED
      BY <1>1, <2>3, <2>4, <2>6, <2>7, <3>1 DEF Merged
  <2>9. Kept(disk, g, w, Front(s), FALSE) /\ s # <<>>
    BY <1>1, <1>2, <1>5, <2>7, <2>8, SavepointReleased
  <2>10. Front(s) \in Seq(Database)
    BY <1>2, <2>9, FrontIs
  <2>11. work' = [work EXCEPT ![c] = w]
    BY <1>1, <2>2 DEF TxInv, TxTyped
  <2>12. DbInv(disk') /\ Kept(disk', g, w, Front(s), FALSE) /\ w \in Database \cup {NoTx}
    BY <1>2, <2>2, <2>9
  <2> QED
    BY <1>2, <1>3, <2>2, <2>7, <2>10, <2>11, <2>12, CallerMoves
<1>6. Serves(disk, disk, Signer)
  BY <1>2, <1>3, FollowsItself DEF Serves
<1> QED
  BY <1>1, <1>2, <1>4, <1>5, <1>6

\* A block is left by an exception.
LEMMA RaiseKeeps ==
  ASSUME TxInv, NEW c \in Callers, Raise(c)
  PROVE  TxInv'
<1>1. PICK f, w, s, r : f = frames[c] /\ w = work[c] /\ s = saves[c] /\ r = raised[c]
  OBVIOUS
<1>2. /\ f \in Seq(Block) /\ f # <<>> /\ w \in Database \cup {NoTx} /\ s \in Seq(Database)
      /\ DbInv(disk) /\ Kept(disk, f, w, s, r) /\ Top(c) = f[Len(f)]
      /\ Front(f) \in Seq(Block) /\ Dropped(f, Front(f))
  <2>1. frames[c] # <<>>
    BY DEF Raise, Running
  <2> QED
    BY <1>1, <2>1, CallerIs
<1>3. /\ frames' = [frames EXCEPT ![c] = Front(f)] /\ UNCHANGED disk
      /\ raised' = [raised EXCEPT ![c] = Len(f) > 1] /\ (Len(f) > 1) \in BOOLEAN
  BY <1>1 DEF Raise, TxInv, TxTyped
<1>4. ASSUME InTx(c), ~f[Len(f)].begun
      PROVE  TxInv'
  <2>1. w \in Database
    BY <1>1, <1>2, <1>4 DEF InTx
  <2>2. Kept(disk, Front(f), Last(s), Front(s), TRUE) /\ s # <<>> /\ Len(f) > 1
    BY <1>2, <1>4, <2>1, SavepointRestored
  <2>3. /\ work' = [work EXCEPT ![c] = Last(s)] /\ saves' = [saves EXCEPT ![c] = Front(s)]
    BY <1>1, <1>2, <1>4 DEF Raise, Restored, Unwound, TxInv, TxTyped
  <2>4. Last(s) \in Database /\ Front(s) \in Seq(Database)
    BY <1>2, <2>2, FrontIs
  <2>5. raised' = [raised EXCEPT ![c] = TRUE]
    BY <1>3, <2>2
  <2>6. DbInv(disk') /\ Kept(disk', Front(f), Last(s), Front(s), TRUE)
    BY <1>2, <1>3, <2>2
  <2>7. Last(s) \in Database \cup {NoTx}
    BY <2>4
  <2> QED
    BY <1>2, <1>3, <1>4, <2>3, <2>4, <2>5, <2>6, <2>7, CallerMoves
<1>5. ASSUME ~(InTx(c) /\ ~f[Len(f)].begun)
      PROVE  TxInv'
  <2>1. w = NoTx \/ f[Len(f)].begun
    BY <1>1, <1>5 DEF InTx
  <2>2. Kept(disk, Front(f), NoTx, s, Len(f) > 1)
    BY <1>2, <2>1, TransactionEnds
  <2>3. work' = [work EXCEPT ![c] = NoTx] /\ saves' = [saves EXCEPT ![c] = s]
    BY <1>1, <1>2, <1>5 DEF Raise, TxInv, TxTyped
  <2>4. DbInv(disk') /\ Kept(disk', Front(f), NoTx, s, Len(f) > 1)
    BY <1>2, <1>3, <2>2
  <2> QED
    BY <1>2, <1>3, <2>3, <2>4, CallerMoves
<1> QED
  BY <1>4, <1>5

\* An application goes on after an exception of one of its steps.
LEMMA CatchKeeps ==
  ASSUME TxInv, NEW c \in Callers, Catch(c)
  PROVE  TxInv'
<1>1. PICK f, w, s : f = frames[c] /\ w = work[c] /\ s = saves[c]
  OBVIOUS
<1>2. /\ f \in Seq(Block) /\ w \in Database \cup {NoTx} /\ s \in Seq(Database) /\ DbInv(disk)
      /\ Kept(disk, f, w, s, TRUE) /\ f[Len(f)].kind = "application"
  <2>1. frames[c] # <<>> /\ raised[c] /\ Top(c).kind = "application"
    BY DEF Catch, Running
  <2>2. raised[c] = TRUE
    BY <2>1, CallerIs
  <2> QED
    BY <1>1, <2>1, <2>2, CallerIs
<1>3. Kept(disk, f, w, s, FALSE)
  BY <1>2, ApplicationCatches
<1>4. UNCHANGED <<disk, frames, work, saves>> /\ raised' = [raised EXCEPT ![c] = FALSE]
  BY DEF Catch
<1>5. /\ frames' = [frames EXCEPT ![c] = f] /\ work' = [work EXCEPT ![c] = w]
      /\ saves' = [saves EXCEPT ![c] = s]
  BY <1>1, <1>4 DEF TxInv, TxTyped
<1>6. DbInv(disk') /\ Kept(disk', f, w, s, FALSE) /\ (w # NoTx => InTx(c))
  BY <1>1, <1>2, <1>3, <1>4 DEF InTx
<1> QED
  BY <1>2, <1>4, <1>5, <1>6, CallerMoves

\* SQLite ends a transaction: what the blocks stood for is gone.
LEMMA EndKeeps ==
  ASSUME TxInv, NEW c \in Callers, End(c)
  PROVE  TxInv'
<1>1. PICK f, w, s, r, g : /\ f = frames[c] /\ w = work[c] /\ s = saves[c] /\ r = raised[c]
                           /\ g = [i \in 1 .. Len(f) - 1 |-> [f[i] EXCEPT !.whole = NoTx]]
  OBVIOUS
<1>2. f \in Seq(Block) /\ f # <<>> /\ DbInv(disk) /\ Kept(disk, f, w, s, r)
  BY <1>1, CallerIs DEF End, Running
<1>3. PICK m : m = Len(f) - 1
  OBVIOUS
<1>4. m \in Nat /\ \A i \in 1 .. m : f[i] \in Block
  BY <1>2, <1>3
<1>5. ASSUME NEW i \in 1 .. m
      PROVE  /\ g[i] \in Block /\ g[i].kind = f[i].kind /\ g[i].begun = f[i].begun
             /\ g[i].todo = f[i].todo /\ g[i].whole = NoTx
  <2>1. PICK y, x : y = f[i] /\ x = [y EXCEPT !.whole = NoTx]
    OBVIOUS
  <2>2. y \in Block /\ g[i] = x
    BY <1>1, <1>3, <1>4, <2>1
  <2>3. /\ x \in Block /\ x.kind = y.kind /\ x.begun = y.begun /\ x.todo = y.todo
        /\ x.whole = NoTx
    BY <2>1, <2>2 DEF Block
  <2> QED
    BY <2>1, <2>2, <2>3
<1>6. g \in Seq(Block) /\ Len(g) = m
  <2>1. g \in [1 .. m -> Block]
    BY <1>1, <1>3, <1>5
  <2> QED
    BY <1>4, <2>1
<1>7. Kept(disk, g, NoTx, <<>>, Len(f) > 1)
  BY <1>2, <1>3, <1>5, <1>6, SqliteEnds
<1>8. /\ frames' = [frames EXCEPT ![c] = g] /\ work' = [work EXCEPT ![c] = NoTx]
      /\ saves' = [saves EXCEPT ![c] = <<>>] /\ UNCHANGED disk
      /\ raised' = [raised EXCEPT ![c] = Len(f) > 1] /\ (Len(f) > 1) \in BOOLEAN
  BY <1>1 DEF End, TxInv, TxTyped
<1>9. DbInv(disk') /\ Kept(disk', g, NoTx, <<>>, Len(f) > 1) /\ <<>> \in Seq(Database)
  BY <1>2, <1>7, <1>8
<1> QED
  BY ZenonT(60), <1>6, <1>8, <1>9, CallerMoves

\* A process stops: its blocks, its view and its savepoints are gone.
LEMMA CrashKeeps ==
  ASSUME TxInv, NEW c \in Callers, Crash(c)
  PROVE  TxInv'
<1>1. Kept(disk, <<>>, NoTx, <<>>, FALSE)
  BY DEF Kept, Stacked, Outside
<1>2. /\ frames' = [frames EXCEPT ![c] = <<>>] /\ work' = [work EXCEPT ![c] = NoTx]
      /\ saves' = [saves EXCEPT ![c] = <<>>] /\ raised' = [raised EXCEPT ![c] = FALSE]
      /\ UNCHANGED disk
  BY DEF Crash
<1>3. DbInv(disk') /\ Kept(disk', <<>>, NoTx, <<>>, FALSE)
  BY <1>1, <1>2 DEF TxInv
<1>4. <<>> \in Seq(Block) /\ <<>> \in Seq(Database)
  OBVIOUS
<1> QED
  BY <1>2, <1>3, <1>4, CallerMoves

-------------------------------------------------------------------------------
\* The disk changes with the end of the one block of a caller, or of one of a caller
\* that goes on after SQLite ended its transaction.
AtItsEnd ==
  disk' # disk => \E c \in Callers :
    /\ frames[c] # <<>>
    /\ \/ Len(frames[c]) = 1 /\ frames'[c] = <<>>
       \/ frames[c][1].whole = NoTx

\* Every step keeps the invariant, and what it commits serves what was on the disk.
LEMMA TxStep ==
  ASSUME TxInv, [TxNext]_txVars
  PROVE  TxInv' /\ Serves(disk, disk', Signer) /\ AtItsEnd
<1>1. Serves(disk, disk, Signer)
  BY FollowsItself DEF TxInv, DbInv, Serves
<1>2. ASSUME NEW c \in Callers, Leave(c)
      PROVE  TxInv' /\ Serves(disk, disk', Signer) /\ AtItsEnd
  BY <1>2, LeaveKeeps DEF AtItsEnd
<1>3. ASSUME TxInv', UNCHANGED disk
      PROVE  TxInv' /\ Serves(disk, disk', Signer) /\ AtItsEnd
  BY <1>1, <1>3 DEF AtItsEnd
<1>4. ASSUME NEW c \in Callers
      PROVE  /\ Application(c) => TxInv' /\ UNCHANGED disk
             /\ \A call \in PurchaseCalls : PurchaseBlock(c, call) => TxInv' /\ UNCHANGED disk
             /\ \A call \in IssueCalls : IssueBlock(c, call) => TxInv' /\ UNCHANGED disk
             /\ \A b \in BookIds : ActivateBlock(c, b) => TxInv' /\ UNCHANGED disk
             /\ \A b \in BookIds : ReleaseBlock(c, b) => TxInv' /\ UNCHANGED disk
             /\ \A call \in RedeemCall : RedeemBlock(c, call) => TxInv' /\ UNCHANGED disk
  <2>1. \A kind, call, todo, whole : Enter(c, kind, call, todo, whole) => UNCHANGED disk
    BY DEF Enter
  <2>2. Application(c) => TxInv' /\ UNCHANGED disk
    BY <2>1, ApplicationKeeps DEF Application
  <2>3. \A call \in PurchaseCalls : PurchaseBlock(c, call) => TxInv' /\ UNCHANGED disk
    BY <2>1, PurchaseKeeps DEF PurchaseBlock
  <2>4. \A call \in IssueCalls : IssueBlock(c, call) => TxInv' /\ UNCHANGED disk
    BY <2>1, IssueBlockKeeps DEF IssueBlock
  <2>5. \A b \in BookIds : ActivateBlock(c, b) => TxInv' /\ UNCHANGED disk
    BY <2>1, ActivateBlockKeeps DEF ActivateBlock
  <2>6. \A b \in BookIds : ReleaseBlock(c, b) => TxInv' /\ UNCHANGED disk
    BY <2>1, ReleaseBlockKeeps DEF ReleaseBlock
  <2>7. \A call \in RedeemCall : RedeemBlock(c, call) => TxInv' /\ UNCHANGED disk
    BY <2>1, RedeemBlockKeeps DEF RedeemBlock
  <2> QED
    BY <2>2, <2>3, <2>4, <2>5, <2>6, <2>7
<1>5. ASSUME NEW c \in Callers, Execute(c) \/ Raise(c) \/ Catch(c) \/ End(c) \/ Crash(c)
      PROVE  TxInv' /\ UNCHANGED disk
  <2>1. UNCHANGED disk
    BY <1>5 DEF Execute, Raise, Catch, End, Crash
  <2>2. TxInv'
    BY <1>5, ExecuteKeeps, RaiseKeeps, CatchKeeps, EndKeeps, CrashKeeps
  <2> QED
    BY <2>1, <2>2
<1>6. ASSUME UNCHANGED txVars
      PROVE  TxInv' /\ UNCHANGED disk
  BY <1>6 DEF txVars, TxInv, TxTyped, OneWriter, InTx, CallersKept
<1>7. CASE TxNext
  BY <1>2, <1>3, <1>4, <1>5, <1>7 DEF TxNext
<1>8. CASE UNCHANGED txVars
  BY <1>3, <1>6, <1>8
<1> QED
  BY <1>7, <1>8

\* Nothing is open at the start.
LEMMA TxStarts == DbInv(Start) /\ TxInit => TxInv
<1> SUFFICES ASSUME DbInv(Start), TxInit
             PROVE  TxInv
  OBVIOUS
<1>1. \A c \in Callers : /\ frames[c] = <<>> /\ work[c] = NoTx /\ saves[c] = <<>>
                         /\ raised[c] = FALSE
  BY DEF TxInit
<1>2. TxTyped
  BY DEF TxInit, TxTyped
<1>3. Kept(disk, <<>>, NoTx, <<>>, FALSE)
  BY DEF Kept, Stacked, Outside
<1>4. OneWriter /\ CallersKept
  BY <1>1, <1>3 DEF OneWriter, InTx, CallersKept
<1> QED
  BY <1>2, <1>4 DEF TxInv, TxInit

\* The savepoints are those of the open blocks that did not begin the transaction.
LEMMA SavepointsCounted ==
  ASSUME NEW d, NEW f \in Seq(Block), NEW w, NEW s \in Seq(Database), NEW r, Kept(d, f, w, s, r)
  PROVE  Len(s) = IF w # NoTx THEN Cardinality({i \in DOMAIN f : ~f[i].begun}) ELSE 0
<1>1. CASE w = NoTx
  BY <1>1 DEF Kept, Outside
<1>2. CASE w # NoTx
  <2>1. Inside(d, f, w, s) /\ Stacked(f)
    BY <1>2 DEF Kept
  <2>2. PICK b, n : b = Base(f) /\ n = Len(f)
    OBVIOUS
  <2>3. b \in {1, 2} /\ n \in Nat /\ b <= n /\ Len(s) = n - b /\ DOMAIN f = 1 .. n
    BY <2>1, <2>2 DEF Inside, Base
  <2>4. \A i \in 1 .. n : f[i].begun <=> i <= b
    BY <2>1, <2>2, <2>3 DEF Inside, Stacked
  <2>5. {i \in DOMAIN f : ~f[i].begun} = b + 1 .. n
    BY <2>3, <2>4
  <2>6. Cardinality(b + 1 .. n) = n - b
    <3>1. PICK a : a = b + 1
      OBVIOUS
    <3>2. a \in Int /\ n \in Int
      BY <2>3, <3>1
    <3>3. Cardinality(a .. n) = IF a > n THEN 0 ELSE n - a + 1
      BY <3>2, FS_Interval
    <3> QED
      BY <2>3, <3>1, <3>3
  <2> QED
    BY <1>2, <2>3, <2>5, <2>6
<1> QED
  BY <1>1, <1>2

\* What the invariant says of callers is what the run checks.
LEMMA TxWhole == TxInv => WorkIsWhole
<1> SUFFICES ASSUME TxInv
             PROVE  WorkIsWhole
  OBVIOUS
<1>1. TxTypes
  <2>1. \A c \in Callers : (InTx(c) => Running(c)) /\ (raised[c] => Running(c))
    BY CallerIs DEF Kept, Inside, InTx, Running
  <2>2. ASSUME NEW c \in Callers
        PROVE  Len(saves[c]) = IF InTx(c)
                 THEN Cardinality({i \in DOMAIN frames[c] : ~frames[c][i].begun}) ELSE 0
    <3>1. PICK f, w, s, r : f = frames[c] /\ w = work[c] /\ s = saves[c] /\ r = raised[c]
      OBVIOUS
    <3>2. f \in Seq(Block) /\ s \in Seq(Database) /\ Kept(disk, f, w, s, r)
      BY <3>1, CallerIs
    <3>3. Len(s) = IF w # NoTx THEN Cardinality({i \in DOMAIN f : ~f[i].begun}) ELSE 0
      BY <3>2, SavepointsCounted
    <3> QED
      BY <3>1, <3>3 DEF InTx
  <2> QED
    BY <2>1, <2>2 DEF TxTypes, TxInv, OneWriter
<1>2. StepsAreWhole
  BY CallerIs DEF StepsAreWhole, Kept, Inside, InTx, EndOf
<1>3. CommittedAudits
  BY DEF CommittedAudits, TxInv, DbInv
<1> QED
  BY <1>1, <1>2, <1>3 DEF WorkIsWhole

\* From a database in order, nothing is read between steps and nothing is committed
\* but what whole steps make of it.
THEOREM StepsWhole ==
  ASSUME DbInv(Start)
  PROVE  TxSpec => []WorkIsWhole
<1>1. TxInit => TxInv
  BY TxStarts
<1>2. TxInv /\ [TxNext]_txVars => TxInv'
  BY TxStep
<1> QED
  BY <1>1, <1>2, TxWhole, PTL DEF TxSpec

\* Each block commits at its end, once, and what it commits keeps every book,
\* activation and receipt that is on the disk.
THEOREM BlocksCommitOnce ==
  ASSUME DbInv(Start)
  PROVE  TxSpec => CommitsAreOne
<1>1. TxInit => TxInv
  BY TxStarts
<1>2. TxInv /\ [TxNext]_txVars => TxInv'
  BY TxStep
<1>3. TxInv /\ [TxNext]_txVars =>
        [disk' # disk => \E c \in Callers :
           /\ frames[c] # <<>>
           /\ \/ Len(frames[c]) = 1 /\ frames'[c] = <<>>
              \/ frames[c][1].whole = NoTx]_txVars
  BY TxStep DEF AtItsEnd
<1>4. TxInv /\ [TxNext]_txVars =>
        [/\ DOMAIN disk.books \subseteq DOMAIN disk'.books
         /\ disk.redemptions \subseteq disk'.redemptions
         /\ \A b \in DOMAIN disk.books : disk.books[b].active => disk'.books[b].active]_txVars
  BY TxStep DEF Serves, Follows, Permanent
<1> QED
  BY <1>1, <1>2, <1>3, <1>4, PTL DEF TxSpec, CommitsAreOne, OneCommit, CommittedIsPermanent
===============================================================================
