--------------------------- MODULE HttpLedgerProofs ---------------------------
(***************************************************************************)
(* The issuer's ledger is right for any buyers, workers, batches and       *)
(* clocks, whatever is committed between the three steps of an issuance:   *)
(* what each transaction does to the database, the invariant of the        *)
(* database, of the keys and of the issuances in progress, and that each   *)
(* step is one of a prepaid account.                                       *)
(***************************************************************************)
EXTENDS HttpLedger, TotalsProofs, SequenceTheorems

\* A database has these seven tables.
Shape(d) ==
  d = [accounts |-> d.accounts, books |-> d.books, issues |-> d.issues,
       receipts |-> d.receipts, cancellations |-> d.cancellations,
       revoked |-> d.revoked, accrued |-> d.accrued]

Issuance     == [call : IssueCall, books : Seq(BookIds)]
Receipt      == [call : SpendCall, units : Nat, at : Nat]
Cancellation == [call : CancelCall, released : Nat]

DbTypes(d) ==
  /\ Shape(d)
  /\ d.accounts \in [Buyers -> Account]
  /\ DOMAIN d.books \subseteq BookIds /\ d.books \in [DOMAIN d.books -> Book]
  /\ IsFiniteSet(DOMAIN d.books)
  /\ d.issues \subseteq Issuance
  /\ d.receipts \subseteq Receipt /\ IsFiniteSet(d.receipts)
  /\ d.cancellations \subseteq Cancellation
  /\ d.revoked \subseteq Kids /\ d.accrued \in Nat

\* The sums of audit().
Held(d, u)    == {b \in DOMAIN d.books : d.books[b].buyer = u}
Remains(d)    == [b \in DOMAIN d.books |-> d.books[b].remaining]
PaidBy(d, u)  == {x \in d.receipts : x.call.buyer = u}
UnitsIn(d)    == [x \in d.receipts |-> x.units]

Audited(d) ==
  /\ \A u \in Buyers :
       /\ d.accounts[u].initial =
            d.accounts[u].available + d.accounts[u].reserved + d.accounts[u].spent
       /\ d.accounts[u].reserved = Total(Remains(d), Held(d, u))
       /\ d.accounts[u].spent = Total(UnitsIn(d), PaidBy(d, u))
  /\ d.accrued = Total(UnitsIn(d), d.receipts)

\* The resources of a book without a receipt, and what it holds for them.
Open(d, b) ==
  {r \in d.books[b].items : \A x \in d.receipts : x.call.book # b \/ x.call.resource # r}

RemainingIsOpen(d) ==
  \A b \in DOMAIN d.books :
    d.books[b].remaining = IF d.books[b].closed THEN 0 ELSE Units(Open(d, b))

Matches(d, x) ==
  /\ x.call.book \in Held(d, x.call.buyer)
  /\ x.call.resource \in d.books[x.call.book].items
  /\ \A y \in d.receipts :
       y.call.book = x.call.book /\ y.call.resource = x.call.resource => y = x

ReceiptsMatch(d) == \A x \in d.receipts : x.call.book # NoBook => Matches(d, x)

MoneyInv(d) == DbTypes(d) /\ Audited(d) /\ RemainingIsOpen(d) /\ ReceiptsMatch(d)

\* An issuance has a book for each set of resources it asked for.
Whole(d, x) ==
  /\ Len(x.books) = Len(x.call.books)
  /\ \A i \in DOMAIN x.books : /\ x.books[i] \in Held(d, x.call.buyer)
                               /\ d.books[x.books[i]].items = x.call.books[i]
  /\ BatchUnits(x.call.books) <= x.call.maxUnits

\* b is the i-th book of the issuance x and in no other place.
PlacedAt(d, b, x, i) ==
  /\ x.books[i] = b
  /\ \A y \in d.issues : \A j \in DOMAIN y.books : y.books[j] = b => y = x /\ j = i

IssuesWhole(d) ==
  /\ \A x \in d.issues : Whole(d, x)
  /\ \A b \in DOMAIN d.books : \E x \in d.issues : \E i \in DOMAIN x.books : PlacedAt(d, b, x, i)

OneRow(rows) ==
  \A x, y \in rows : x.call.buyer = y.call.buyer /\ x.call.request = y.call.request => x = y

OneAnswer(d) == OneRow(d.issues) /\ OneRow(d.receipts) /\ OneRow(d.cancellations)

DbInv(d) == MoneyInv(d) /\ IssuesWhole(d) /\ OneAnswer(d)

-------------------------------------------------------------------------------
\* The moves of an account, field by field.
LEMMA AccountMoves ==
  ASSUME NEW a \in Account, NEW n, NEW b
  PROVE  /\ b = [a EXCEPT !["available"] = @ - n, !.spent = @ + n] =>
              b = [initial |-> a.initial, available |-> a.available - n,
                   reserved |-> a.reserved, spent |-> a.spent + n]
         /\ b = [a EXCEPT !["reserved"] = @ - n, !.spent = @ + n] =>
              b = [initial |-> a.initial, available |-> a.available,
                   reserved |-> a.reserved - n, spent |-> a.spent + n]
BY DEF Account

-------------------------------------------------------------------------------
\* The ids of a batch.
Ids(p) == {p.ids[i] : i \in DOMAIN p.ids}

Prepared ==
  [call : IssueCall, now : Times, ids : Seq(BookIds), kid : 0 .. LastEpoch]

\* A batch within its budget, with as many ids as books, all different.
Sound(p) ==
  /\ p \in Prepared
  /\ Len(p.ids) = Len(p.call.books)
  /\ \A i, j \in DOMAIN p.ids : p.ids[i] = p.ids[j] => i = j
  /\ BatchUnits(p.call.books) <= p.call.maxUnits

\* What issue, spend and cancel write, table by table.
Sold(d, e, p, units) ==
  /\ Shape(e)
  /\ e.accounts = [d.accounts EXCEPT ![p.call.buyer] =
       [initial |-> d.accounts[p.call.buyer].initial,
        available |-> d.accounts[p.call.buyer].available - units,
        reserved |-> d.accounts[p.call.buyer].reserved + units,
        spent |-> d.accounts[p.call.buyer].spent]]
  /\ e.books = [b \in DOMAIN d.books \cup Ids(p) |-> e.books[b]]
  /\ \A b \in DOMAIN d.books : e.books[b] = d.books[b]
  /\ \A i \in DOMAIN p.ids : e.books[p.ids[i]] = NewBook(p, i)
  /\ e.issues = d.issues \cup {[call |-> p.call, books |-> p.ids]}
  /\ e.receipts = d.receipts /\ e.cancellations = d.cancellations
  /\ e.revoked = d.revoked /\ e.accrued = d.accrued

\* What AfterIssue writes: the books of one batch and their units set aside.
LEMMA IssueWrites ==
  ASSUME DbTypes(db), NEW p, Sound(p), Ids(p) \cap DOMAIN db.books = {}, NEW e, e = AfterIssue(p)
  PROVE  Sold(db, e, p, BatchUnits(p.call.books))
<1> DEFINE u == p.call.buyer
           units == BatchUnits(p.call.books)
<1>1. /\ Shape(e)
      /\ e.accounts = [db.accounts EXCEPT ![u].available = @ - units, ![u].reserved = @ + units]
      /\ e.books = [b \in DOMAIN db.books \cup Ids(p) |->
                      IF b \in Ids(p) THEN NewBook(p, CHOOSE i \in DOMAIN p.ids : p.ids[i] = b)
                                      ELSE db.books[b]]
      /\ e.issues = db.issues \cup {[call |-> p.call, books |-> p.ids]}
      /\ e.receipts = db.receipts /\ e.cancellations = db.cancellations
      /\ e.revoked = db.revoked /\ e.accrued = db.accrued
  BY DEF DbTypes, Shape, AfterIssue, Ids
<1>2. db.accounts \in [Buyers -> Account] /\ u \in Buyers /\ db.accounts[u] \in Account
  BY DEF DbTypes, Sound, Prepared, IssueCall
<1>3. e.accounts = [db.accounts EXCEPT ![u] =
        [initial |-> db.accounts[u].initial, available |-> db.accounts[u].available - units,
         reserved |-> db.accounts[u].reserved + units, spent |-> db.accounts[u].spent]]
  BY <1>1, <1>2 DEF Account
<1>4. ASSUME NEW i \in DOMAIN p.ids
      PROVE  e.books[p.ids[i]] = NewBook(p, i)
  <2>1. p.ids[i] \in Ids(p)
    BY DEF Ids
  <2>2. (CHOOSE j \in DOMAIN p.ids : p.ids[j] = p.ids[i]) = i
    BY DEF Sound
  <2> QED
    BY <1>1, <2>1, <2>2
<1>5. \A b \in DOMAIN db.books : e.books[b] = db.books[b]
  BY <1>1
<1>6. e.books = [b \in DOMAIN db.books \cup Ids(p) |-> e.books[b]]
  BY <1>1
<1> QED
  BY <1>1, <1>3, <1>4, <1>5, <1>6 DEF Sold

\* A receipt x, paid from what is available or from what a book holds.
Paid(d, e, c, from, units, x) ==
  /\ Shape(e)
  /\ e.accounts = [d.accounts EXCEPT ![c.buyer] =
       [initial |-> d.accounts[c.buyer].initial,
        available |-> IF from = "available" THEN d.accounts[c.buyer].available - units
                                            ELSE d.accounts[c.buyer].available,
        reserved |-> IF from = "reserved" THEN d.accounts[c.buyer].reserved - units
                                          ELSE d.accounts[c.buyer].reserved,
        spent |-> d.accounts[c.buyer].spent + units]]
  /\ e.books = IF c.book = NoBook THEN d.books
               ELSE [d.books EXCEPT ![c.book].remaining = @ - units]
  /\ e.receipts = d.receipts \cup {x}
  /\ e.accrued = d.accrued + units
  /\ e.issues = d.issues /\ e.cancellations = d.cancellations /\ e.revoked = d.revoked

NewReceipt(c, at) == [call |-> c, units |-> Catalog[c.resource], at |-> at]

\* What AfterSpend writes: one payment and its receipt.
LEMMA SpendWrites ==
  ASSUME DbTypes(db), NEW c \in SpendCall, NEW from \in {"available", "reserved"}, NEW at,
         NEW e, e = AfterSpend(c, from, at)
  PROVE  Paid(db, e, c, from, Catalog[c.resource], NewReceipt(c, at))
<1> DEFINE u == c.buyer
           units == Catalog[c.resource]
<1>1. /\ Shape(e)
      /\ e.accounts = [db.accounts EXCEPT ![u] =
                         [db.accounts[u] EXCEPT ![from] = @ - units, !.spent = @ + units]]
      /\ e.books = IF c.book = NoBook THEN db.books
                   ELSE [db.books EXCEPT ![c.book].remaining = @ - units]
      /\ e.receipts = db.receipts \cup {NewReceipt(c, at)}
      /\ e.accrued = db.accrued + units
      /\ e.issues = db.issues /\ e.cancellations = db.cancellations /\ e.revoked = db.revoked
  BY DEF DbTypes, Shape, AfterSpend, NewReceipt
<1>2. db.accounts \in [Buyers -> Account] /\ u \in Buyers /\ db.accounts[u] \in Account
  BY DEF DbTypes, SpendCall
<1>3. [db.accounts[u] EXCEPT ![from] = @ - units, !.spent = @ + units] =
        [initial |-> db.accounts[u].initial,
         available |-> IF from = "available" THEN db.accounts[u].available - units
                                             ELSE db.accounts[u].available,
         reserved |-> IF from = "reserved" THEN db.accounts[u].reserved - units
                                           ELSE db.accounts[u].reserved,
         spent |-> db.accounts[u].spent + units]
  <2>1. CASE from = "available"
    BY <1>2, <2>1, AccountMoves
  <2>2. CASE from = "reserved"
    BY <1>2, <2>2, AccountMoves
  <2> QED
    BY <2>1, <2>2
<1> QED
  BY <1>1, <1>3 DEF Paid

\* The books bs of u are closed, and the cancellations are these.
Freed(d, e, u, bs, units, answers) ==
  /\ Shape(e)
  /\ e.accounts = [d.accounts EXCEPT ![u] =
       [initial |-> d.accounts[u].initial,
        available |-> d.accounts[u].available + units,
        reserved |-> d.accounts[u].reserved - units,
        spent |-> d.accounts[u].spent]]
  /\ e.books = [b \in DOMAIN d.books |-> IF b \in bs THEN Closed(d.books[b]) ELSE d.books[b]]
  /\ e.cancellations = d.cancellations \cup answers
  /\ e.receipts = d.receipts /\ e.issues = d.issues
  /\ e.revoked = d.revoked /\ e.accrued = d.accrued

\* What AfterCancel writes: books closed, their units given back, and the answer kept.
LEMMA CancelWrites ==
  ASSUME DbTypes(db), NEW u \in Buyers, NEW bs, NEW answers, NEW e,
         \/ e = AfterCancel(u, bs) /\ answers = {}
         \/ e = [AfterCancel(u, bs) EXCEPT !.cancellations = @ \cup answers]
  PROVE  Freed(db, e, u, bs, Remaining(bs), answers)
<1> DEFINE units == Remaining(bs)
<1>1. PICK f : f = AfterCancel(u, bs)
  OBVIOUS
<1>2. /\ Shape(f)
      /\ f.accounts = [db.accounts EXCEPT ![u].reserved = @ - units, ![u].available = @ + units]
      /\ f.books = [b \in DOMAIN db.books |-> IF b \in bs THEN Closed(db.books[b])
                                                         ELSE db.books[b]]
      /\ f.cancellations = db.cancellations
      /\ f.receipts = db.receipts /\ f.issues = db.issues
      /\ f.revoked = db.revoked /\ f.accrued = db.accrued
  BY <1>1 DEF DbTypes, Shape, AfterCancel
<1>3. /\ Shape(e) /\ e.accounts = f.accounts /\ e.books = f.books
      /\ e.cancellations = db.cancellations \cup answers
      /\ e.receipts = f.receipts /\ e.issues = f.issues
      /\ e.revoked = f.revoked /\ e.accrued = f.accrued
  BY <1>1, <1>2 DEF Shape
<1>4. db.accounts \in [Buyers -> Account] /\ db.accounts[u] \in Account
  BY DEF DbTypes
<1>5. e.accounts = [db.accounts EXCEPT ![u] =
        [initial |-> db.accounts[u].initial, available |-> db.accounts[u].available + units,
         reserved |-> db.accounts[u].reserved - units, spent |-> db.accounts[u].spent]]
  BY <1>2, <1>3, <1>4 DEF Account
<1> QED
  BY <1>2, <1>3, <1>5 DEF Freed

-------------------------------------------------------------------------------
Opened(d) == \A u \in Buyers : d.accounts[u].initial \in {0} \cup Balances

KeysPinned ==
  /\ keys \in [epoch : Kids, pins : SUBSET Kids] /\ keys.epoch \in keys.pins
  /\ \A b \in DOMAIN db.books : db.books[b].kid \in keys.pins

\* An issuance in progress has ids of its own and, once signed, a pinned key.
InProgress(w) ==
  pending[w] # Idle =>
    /\ Sound(pending[w])
    /\ pending[w].kid # 0 => pending[w].kid \in keys.pins
    /\ Ids(pending[w]) \cap DOMAIN db.books = {}
    /\ \A v \in Workers : v # w /\ pending[v] # Idle => Ids(pending[v]) \cap Ids(pending[w]) = {}

IInv ==
  /\ DbInv(db) /\ Opened(db) /\ KeysPinned
  /\ pending = [w \in Workers |-> pending[w]] /\ \A w \in Workers : InProgress(w)
  /\ answered \subseteq db.issues \cup db.receipts \cup db.cancellations

-------------------------------------------------------------------------------
\* Catalog prices and the sums of audit() are sums over finitely many rows.
LEMMA UnitsFinite ==
  ASSUME NEW rs \in SUBSET Resources
  PROVE  IsFiniteSet(rs) /\ Summable(Catalog, rs) /\ Units(rs) \in Nat
<1>1. IsFiniteSet(rs)
  BY HttpLedgerAssumption, FS_Subset
<1>2. Summable(Catalog, rs)
  BY HttpLedgerAssumption DEF Summable, Positive
<1> QED
  BY <1>1, <1>2, TotalType DEF Units

\* The sums over the books and receipts of a database are of finite sets of naturals.
LEMMA SumsFinite ==
  ASSUME NEW d, DbTypes(d)
  PROVE  /\ \A S \in SUBSET DOMAIN d.books :
              IsFiniteSet(S) /\ Summable(Remains(d), S) /\ Total(Remains(d), S) \in Nat
         /\ \A S \in SUBSET d.receipts :
              IsFiniteSet(S) /\ Summable(UnitsIn(d), S) /\ Total(UnitsIn(d), S) \in Nat
<1>1. ASSUME NEW S \in SUBSET DOMAIN d.books
      PROVE  IsFiniteSet(S) /\ Summable(Remains(d), S) /\ Total(Remains(d), S) \in Nat
  <2>1. IsFiniteSet(S)
    BY FS_Subset DEF DbTypes
  <2>2. Summable(Remains(d), S)
    BY DEF Summable, Remains, DbTypes, Book
  <2> QED
    BY <2>1, <2>2, TotalType
<1>2. ASSUME NEW S \in SUBSET d.receipts
      PROVE  IsFiniteSet(S) /\ Summable(UnitsIn(d), S) /\ Total(UnitsIn(d), S) \in Nat
  <2>1. IsFiniteSet(S)
    BY FS_Subset DEF DbTypes
  <2>2. Summable(UnitsIn(d), S)
    BY DEF Summable, UnitsIn, DbTypes, Receipt
  <2> QED
    BY <2>1, <2>2, TotalType
<1> QED
  BY <1>1, <1>2

\* The ids of a batch are finitely many, one for each of its books.
LEMMA BatchFacts ==
  ASSUME NEW p, Sound(p)
  PROVE  /\ p.call \in IssueCall /\ p.call.buyer \in Buyers /\ p.call.maxUnits \in Nat
         /\ p.now \in Nat /\ p.now + p.call.ttl \in Nat
         /\ DOMAIN p.call.books = DOMAIN p.ids
         /\ p.ids \in [DOMAIN p.ids -> Ids(p)] /\ Ids(p) \subseteq BookIds
         /\ IsFiniteSet(DOMAIN p.ids)
         /\ \A i \in DOMAIN p.ids : p.call.books[i] \in SUBSET Resources
         /\ p.ids \in Seq(BookIds)
<1>1. /\ p.call \in IssueCall /\ p.now \in Times /\ p.ids \in Seq(BookIds)
      /\ Len(p.ids) = Len(p.call.books)
  BY DEF Sound, Prepared
<1>2. /\ p.call.buyer \in Buyers /\ p.call.books \in Seq(SUBSET Resources)
      /\ p.call.maxUnits \in Nat /\ p.call.ttl \in Nat /\ p.now \in Nat
  BY <1>1, HttpLedgerAssumption DEF IssueCall, Positive
<1>3. /\ DOMAIN p.call.books = 1 .. Len(p.ids) /\ DOMAIN p.ids = 1 .. Len(p.ids)
      /\ p.ids \in [1 .. Len(p.ids) -> BookIds] /\ Len(p.ids) \in Nat
      /\ p.call.books \in [1 .. Len(p.ids) -> SUBSET Resources]
  BY <1>1, <1>2, LenProperties
<1>4. IsFiniteSet(DOMAIN p.ids)
  BY <1>3, FS_Interval
<1> QED
  BY <1>1, <1>2, <1>3, <1>4 DEF Ids

\* What the books of a batch hold together is what the batch costs.
LEMMA BatchCosts ==
  ASSUME NEW p, Sound(p), NEW g, \A i \in DOMAIN p.ids : g[p.ids[i]] = Units(p.call.books[i])
  PROVE  /\ BatchUnits(p.call.books) \in Nat
         /\ IsFiniteSet(Ids(p)) /\ Summable(g, Ids(p))
         /\ Total(g, Ids(p)) = BatchUnits(p.call.books)
<1>1. PICK f, h, S, T : /\ f = [i \in DOMAIN p.call.books |-> Units(p.call.books[i])]
                        /\ h = p.ids /\ S = DOMAIN p.ids /\ T = Ids(p)
  OBVIOUS
<1>2. /\ DOMAIN p.call.books = S /\ IsFiniteSet(S) /\ h \in [S -> T]
      /\ \A i \in S : p.call.books[i] \in SUBSET Resources
  BY <1>1, BatchFacts
<1>3. \A i \in S : f[i] = Units(p.call.books[i])
  BY <1>1, <1>2
<1>4. Summable(f, S)
  BY <1>2, <1>3, UnitsFinite DEF Summable
<1>5. \A i \in S : g[h[i]] = f[i]
  BY <1>1, <1>3
<1>6. \A i, j \in S : h[i] = h[j] => i = j
  BY <1>1 DEF Sound
<1>7. \A t \in T : \E i \in S : h[i] = t
  BY <1>1 DEF Ids
<1>8. IsFiniteSet(T) /\ Summable(g, T) /\ Total(g, T) = Total(f, S)
  BY SMTT(30), <1>2, <1>4, <1>5, <1>6, <1>7, TotalRename
<1>9. Total(f, S) \in Nat
  BY <1>2, <1>4, TotalType
<1>10. BatchUnits(p.call.books) = Total(f, S)
  BY <1>1, <1>2 DEF BatchUnits
<1> QED
  BY <1>1, <1>8, <1>9, <1>10

-------------------------------------------------------------------------------
\* The rows of a new batch.
BatchIn(e, p) ==
  \A i \in DOMAIN p.ids :
    /\ p.ids[i] \in DOMAIN e.books /\ e.books[p.ids[i]] \in Book
    /\ e.books[p.ids[i]].buyer = p.call.buyer /\ e.books[p.ids[i]].kid = p.kid
    /\ e.books[p.ids[i]].items = p.call.books[i]
    /\ e.books[p.ids[i]].closed = FALSE
    /\ e.books[p.ids[i]].remaining = Units(p.call.books[i])

\* A batch that is sold has its rows, all of them, under its key.
LEMMA BatchRows ==
  ASSUME NEW d, NEW p, Sound(p), p.kid \in Kids, NEW e, NEW units, Sold(d, e, p, units)
  PROVE  DOMAIN e.books = DOMAIN d.books \cup Ids(p) /\ BatchIn(e, p)
<1>1. DOMAIN e.books = DOMAIN d.books \cup Ids(p)
  BY DEF Sold
<1>2. ASSUME NEW i \in DOMAIN p.ids
      PROVE  /\ NewBook(p, i) \in Book /\ NewBook(p, i).buyer = p.call.buyer
             /\ NewBook(p, i).kid = p.kid /\ NewBook(p, i).items = p.call.books[i]
             /\ NewBook(p, i).closed = FALSE
             /\ NewBook(p, i).remaining = Units(p.call.books[i])
  <2>1. p.call.books[i] \in SUBSET Resources
    BY BatchFacts
  <2>2. Units(p.call.books[i]) \in Nat
    BY <2>1, UnitsFinite
  <2>3. p.call.buyer \in Buyers /\ p.now \in Nat /\ p.now + p.call.ttl \in Nat
    BY BatchFacts
  <2> QED
    BY <2>1, <2>2, <2>3 DEF NewBook, Book
<1>3. \A i \in DOMAIN p.ids : e.books[p.ids[i]] = NewBook(p, i)
  BY DEF Sold
<1>4. \A i \in DOMAIN p.ids : p.ids[i] \in DOMAIN e.books
  BY <1>1 DEF Ids
<1> QED
  BY <1>1, <1>2, <1>3, <1>4 DEF BatchIn

\* A sale keeps every unit accounted for,
LEMMA IssueMoney ==
  ASSUME NEW d, MoneyInv(d), NEW p, Sound(p), p.kid \in Kids, Ids(p) \cap DOMAIN d.books = {},
         NEW units, units = BatchUnits(p.call.books),
         units <= d.accounts[p.call.buyer].available, NEW e, Sold(d, e, p, units)
  PROVE  MoneyInv(e)
<1>1. DbTypes(d)
  BY DEF MoneyInv
<1>2. /\ DOMAIN e.books = DOMAIN d.books \cup Ids(p)
      /\ \A b \in DOMAIN d.books : e.books[b] = d.books[b]
      /\ e.receipts = d.receipts
  BY DEF Sold
<1>3. /\ \A i \in DOMAIN p.ids : Remains(e)[p.ids[i]] = Units(p.call.books[i])
      /\ \A b \in Ids(p) : /\ e.books[b] \in Book /\ e.books[b].buyer = p.call.buyer
                           /\ e.books[b].closed = FALSE
                           /\ e.books[b].remaining = Units(e.books[b].items)
  <2>0. BatchIn(e, p)
    BY BatchRows
  <2>1. \A i \in DOMAIN p.ids :
          /\ p.ids[i] \in DOMAIN e.books /\ e.books[p.ids[i]] \in Book
          /\ e.books[p.ids[i]].buyer = p.call.buyer /\ e.books[p.ids[i]].closed = FALSE
          /\ e.books[p.ids[i]].remaining = Units(p.call.books[i])
          /\ e.books[p.ids[i]].items = p.call.books[i]
    BY <2>0 DEF BatchIn
  <2>2. \A i \in DOMAIN p.ids : Remains(e)[p.ids[i]] = Units(p.call.books[i])
    BY <2>1 DEF Remains
  <2>3. \A b \in Ids(p) : \E i \in DOMAIN p.ids : b = p.ids[i]
    BY DEF Ids
  <2>4. ASSUME NEW b \in Ids(p)
        PROVE  /\ e.books[b] \in Book /\ e.books[b].buyer = p.call.buyer
               /\ e.books[b].closed = FALSE
               /\ e.books[b].remaining = Units(e.books[b].items)
    BY <2>1, <2>3
  <2> QED
    BY <2>2, <2>4
<1>4. /\ units \in Nat /\ IsFiniteSet(Ids(p)) /\ Summable(Remains(e), Ids(p))
      /\ Total(Remains(e), Ids(p)) = units
  <2>1. PICK g : g = Remains(e)
    OBVIOUS
  <2>2. \A i \in DOMAIN p.ids : g[p.ids[i]] = Units(p.call.books[i])
    BY <1>3, <2>1
  <2> QED
    BY <2>1, <2>2, BatchCosts
<1>5. p.call.buyer \in Buyers /\ Ids(p) \subseteq BookIds
  BY BatchFacts
<1>6. DbTypes(e)
  <2>1. d.accounts \in [Buyers -> Account] /\ d.accounts[p.call.buyer] \in Account
    BY <1>1, <1>5 DEF DbTypes
  <2>2. /\ d.accounts[p.call.buyer].available - units \in Nat
        /\ d.accounts[p.call.buyer].reserved + units \in Nat
    BY <2>1, <1>4 DEF Account
  <2>3. [initial |-> d.accounts[p.call.buyer].initial,
         available |-> d.accounts[p.call.buyer].available - units,
         reserved |-> d.accounts[p.call.buyer].reserved + units,
         spent |-> d.accounts[p.call.buyer].spent] \in Account
    BY <2>1, <2>2 DEF Account
  <2>4. e.accounts \in [Buyers -> Account]
    BY <2>1, <2>3 DEF Sold
  <2>5. IsFiniteSet(DOMAIN e.books)
    <3>1. PICK S, T : S = DOMAIN d.books /\ T = Ids(p)
      OBVIOUS
    <3>2. IsFiniteSet(S \cup T)
      BY <1>1, <1>4, <3>1, FS_Union DEF DbTypes
    <3> QED
      BY <1>2, <3>1, <3>2
  <2>6. \A b \in DOMAIN e.books : e.books[b] \in Book
    BY <1>1, <1>2, <1>3 DEF DbTypes
  <2>7. e.books \in [DOMAIN e.books -> Book] /\ DOMAIN e.books \subseteq BookIds
    BY <1>1, <1>2, <1>5, <2>6 DEF DbTypes, Sold
  <2>8. [call |-> p.call, books |-> p.ids] \in Issuance
    BY BatchFacts DEF Issuance
  <2> QED
    BY <1>1, <2>4, <2>5, <2>7, <2>8 DEF DbTypes, Sold
<1>7. /\ Held(e, p.call.buyer) = Held(d, p.call.buyer) \cup Ids(p)
      /\ \A u \in Buyers : u # p.call.buyer => Held(e, u) = Held(d, u)
  BY <1>2, <1>3 DEF Held
<1>8. \A b \in DOMAIN d.books : Remains(e)[b] = Remains(d)[b]
  BY <1>2 DEF Remains
<1>9. Total(Remains(e), Held(e, p.call.buyer)) = Total(Remains(d), Held(d, p.call.buyer)) + units
  <2>1. PICK f, g, S, T : f = Remains(d) /\ g = Remains(e) /\ S = Held(d, p.call.buyer) /\ T = Ids(p)
    OBVIOUS
  <2>2. S \subseteq DOMAIN d.books
    BY <2>1 DEF Held
  <2>3. S \cap T = {} /\ \A b \in S : g[b] = f[b]
    BY <1>8, <2>1, <2>2
  <2>4. IsFiniteSet(S) /\ Summable(f, S)
    BY <1>1, <2>1, <2>2, SumsFinite
  <2>5. Summable(g, S) /\ Total(g, S) = Total(f, S)
    BY <2>3, <2>4, TotalSame DEF Summable
  <2>6. Total(g, S \cup T) = Total(g, S) + Total(g, T)
    BY <1>4, <2>1, <2>3, <2>4, <2>5, TotalUnion
  <2> QED
    BY <1>4, <1>7, <2>1, <2>5, <2>6
<1>10. \A u \in Buyers : u # p.call.buyer =>
         Total(Remains(e), Held(e, u)) = Total(Remains(d), Held(d, u))
  <2>1. \A u : \A b \in Held(d, u) : Remains(e)[b] = Remains(d)[b]
    BY <1>8 DEF Held
  <2>2. \A u : Total(Remains(e), Held(d, u)) = Total(Remains(d), Held(d, u))
    BY <2>1, TotalSame
  <2> QED
    BY <1>7, <2>2
<1>11. Audited(e)
  <2>1. \A u : PaidBy(e, u) = PaidBy(d, u)
    BY <1>2 DEF PaidBy
  <2>2. UnitsIn(e) = UnitsIn(d) /\ e.accrued = d.accrued
    BY <1>2 DEF UnitsIn, Sold
  <2>3. ASSUME NEW u \in Buyers
        PROVE  /\ e.accounts[u].initial =
                    e.accounts[u].available + e.accounts[u].reserved + e.accounts[u].spent
               /\ e.accounts[u].reserved = Total(Remains(e), Held(e, u))
               /\ e.accounts[u].spent = Total(UnitsIn(e), PaidBy(e, u))
    <3>1. /\ d.accounts[u].initial =
               d.accounts[u].available + d.accounts[u].reserved + d.accounts[u].spent
          /\ d.accounts[u].reserved = Total(Remains(d), Held(d, u))
          /\ d.accounts[u].spent = Total(UnitsIn(d), PaidBy(d, u))
          /\ d.accounts \in [Buyers -> Account] /\ d.accounts[u] \in Account
      BY <1>1 DEF MoneyInv, Audited, DbTypes
    <3>2. /\ d.accounts[u].initial \in Nat /\ d.accounts[u].available \in Nat
          /\ d.accounts[u].reserved \in Nat /\ d.accounts[u].spent \in Nat
      BY <3>1 DEF Account
    <3>3. CASE u # p.call.buyer
      <4>1. e.accounts[u] = d.accounts[u]
        BY <3>1, <3>3 DEF Sold
      <4> QED
        BY <1>10, <2>1, <2>2, <3>1, <3>3, <4>1
    <3>4. CASE u = p.call.buyer
      <4>1. /\ e.accounts[u].initial = d.accounts[u].initial
            /\ e.accounts[u].available = d.accounts[u].available - units
            /\ e.accounts[u].reserved = d.accounts[u].reserved + units
            /\ e.accounts[u].spent = d.accounts[u].spent
        BY <3>1, <3>4 DEF Sold
      <4>2. e.accounts[u].reserved = Total(Remains(e), Held(e, u))
        BY <1>9, <3>1, <3>4, <4>1
      <4>3. e.accounts[u].spent = Total(UnitsIn(e), PaidBy(e, u))
        BY <2>1, <2>2, <3>1, <4>1
      <4>4. e.accounts[u].initial =
              e.accounts[u].available + e.accounts[u].reserved + e.accounts[u].spent
        BY <1>4, <3>1, <3>2, <4>1
      <4> QED
        BY <4>2, <4>3, <4>4
    <3> QED
      BY <3>3, <3>4
  <2> QED
    BY <1>2, <2>2, <2>3 DEF Audited, MoneyInv
<1>12. \A x \in d.receipts : x.call.book # NoBook => x.call.book \in DOMAIN d.books
  BY DEF MoneyInv, ReceiptsMatch, Matches, Held
<1>13. RemainingIsOpen(e)
  <2>1. ASSUME NEW b \in DOMAIN e.books
        PROVE  e.books[b].remaining = IF e.books[b].closed THEN 0 ELSE Units(Open(e, b))
    <3>1. CASE b \in DOMAIN d.books
      <4>1. Open(e, b) = Open(d, b)
        BY <1>2, <3>1 DEF Open
      <4> QED
        BY <1>2, <3>1, <4>1 DEF MoneyInv, RemainingIsOpen
    <3>2. CASE b \in Ids(p)
      <4>1. b # NoBook /\ b \notin DOMAIN d.books
        BY <1>5, <3>2, HttpLedgerAssumption
      <4>2. Open(e, b) = e.books[b].items
        BY <1>2, <1>12, <4>1 DEF Open
      <4> QED
        BY <1>3, <3>2, <4>2
    <3> QED
      BY <1>2, <3>1, <3>2
  <2> QED
    BY <2>1 DEF RemainingIsOpen
<1>14. ReceiptsMatch(e)
  <2>1. \A b \in DOMAIN d.books : \A u : b \in Held(d, u) => b \in Held(e, u)
    BY <1>2 DEF Held
  <2> QED
    BY <1>2, <1>12, <2>1 DEF MoneyInv, ReceiptsMatch, Matches
<1> QED
  BY <1>6, <1>11, <1>13, <1>14 DEF MoneyInv

\* The books of old issuances stay, those of the new one have no other place.
LEMMA IssueWhole ==
  ASSUME NEW d, DbTypes(d), IssuesWhole(d), NEW p, Sound(p), p.kid \in Kids,
         Ids(p) \cap DOMAIN d.books = {}, NEW units, NEW e, Sold(d, e, p, units)
  PROVE  IssuesWhole(e)
<1>1. PICK n : n = [call |-> p.call, books |-> p.ids]
  OBVIOUS
<1>2. /\ e.issues = d.issues \cup {n} /\ n.books = p.ids /\ n.call = p.call
      /\ \A b \in DOMAIN d.books : e.books[b] = d.books[b]
      /\ DOMAIN e.books = DOMAIN d.books \cup Ids(p)
  BY <1>1 DEF Sold
<1>3. \A u : Held(d, u) \subseteq Held(e, u)
  BY <1>2 DEF Held
<1>4. \A x \in d.issues : Whole(d, x) /\ \A i \in DOMAIN x.books : x.books[i] \in DOMAIN d.books
  BY DEF IssuesWhole, Whole, Held
<1>5. \A i \in DOMAIN n.books : n.books[i] \in Ids(p) /\ n.books[i] \notin DOMAIN d.books
  BY <1>2 DEF Ids
<1>6. ASSUME NEW x \in d.issues
      PROVE  Whole(e, x)
  BY <1>2, <1>3, <1>4 DEF Whole
<1>7. Whole(e, n)
  <2>0. BatchIn(e, p)
    BY BatchRows
  <2>1. \A i \in DOMAIN p.ids : /\ p.ids[i] \in DOMAIN e.books
                                /\ e.books[p.ids[i]].buyer = p.call.buyer
                                /\ e.books[p.ids[i]].items = p.call.books[i]
    BY <2>0 DEF BatchIn
  <2>2. /\ Len(p.ids) = Len(p.call.books)
        /\ BatchUnits(p.call.books) <= p.call.maxUnits
    BY DEF Sound
  <2> QED
    BY <1>2, <2>1, <2>2 DEF Whole, Held
<1>8. ASSUME NEW b \in DOMAIN d.books
      PROVE  \E x \in e.issues : \E i \in DOMAIN x.books : PlacedAt(e, b, x, i)
  <2>1. PICK x \in d.issues : \E i \in DOMAIN x.books : PlacedAt(d, b, x, i)
    BY DEF IssuesWhole
  <2>2. PICK i \in DOMAIN x.books : PlacedAt(d, b, x, i)
    BY <2>1
  <2>3. PlacedAt(e, b, x, i)
    BY <1>2, <1>5, <2>2 DEF PlacedAt
  <2> QED
    BY <1>2, <2>3
<1>9. ASSUME NEW i \in DOMAIN p.ids
      PROVE  PlacedAt(e, p.ids[i], n, i)
  <2>1. \A j \in DOMAIN p.ids : p.ids[j] = p.ids[i] => j = i
    BY DEF Sound
  <2>2. p.ids[i] \notin DOMAIN d.books
    BY <1>2, <1>5
  <2> QED
    BY <1>2, <1>4, <2>1, <2>2 DEF PlacedAt
<1>10. ASSUME NEW b \in Ids(p)
       PROVE  \E x \in e.issues : \E i \in DOMAIN x.books : PlacedAt(e, b, x, i)
  <2>1. PICK i \in DOMAIN p.ids : b = p.ids[i]
    BY DEF Ids
  <2>2. n \in e.issues /\ i \in DOMAIN n.books /\ PlacedAt(e, b, n, i)
    BY <1>2, <1>9, <2>1
  <2> QED
    BY <2>2
<1> QED
  BY <1>2, <1>6, <1>7, <1>8, <1>10 DEF IssuesWhole

\* A row for a request that has none keeps one row for each request.
LEMMA OneRowMore ==
  ASSUME NEW rows, OneRow(rows), NEW x, Prior(rows, x.call) = {}
  PROVE  OneRow(rows \cup {x})
BY DEF OneRow, Prior

\* What is needed of a committing issuance.
Committable(d, p) ==
  /\ Sound(p) /\ p.kid \in Kids /\ Ids(p) \cap DOMAIN d.books = {}
  /\ Prior(d.issues, p.call) = {}
  /\ BatchUnits(p.call.books) <= d.accounts[p.call.buyer].available

\* and the database in order.
LEMMA IssueKeeps ==
  ASSUME DbInv(db), NEW p, Committable(db, p), NEW e, e = AfterIssue(p)
  PROVE  DbInv(e) /\ Sold(db, e, p, BatchUnits(p.call.books))
<1>1. PICK units : units = BatchUnits(p.call.books)
  OBVIOUS
<1>2. Sold(db, e, p, units)
  BY <1>1, IssueWrites DEF DbInv, MoneyInv, Committable
<1>3. MoneyInv(e)
  BY <1>1, <1>2, IssueMoney DEF DbInv, Committable
<1>4. IssuesWhole(e)
  BY <1>2, IssueWhole DEF DbInv, MoneyInv, Committable
<1>5. OneAnswer(e)
  <2>1. PICK n : n = [call |-> p.call, books |-> p.ids]
    OBVIOUS
  <2>2. /\ e.issues = db.issues \cup {n} /\ n.call = p.call
        /\ e.receipts = db.receipts /\ e.cancellations = db.cancellations
    BY <1>2, <2>1 DEF Sold
  <2>3. OneRow(e.issues)
    BY <2>2, OneRowMore DEF DbInv, OneAnswer, Committable
  <2> QED
    BY <2>2, <2>3 DEF DbInv, OneAnswer
<1> QED
  BY <1>1, <1>2, <1>3, <1>4, <1>5 DEF DbInv

-------------------------------------------------------------------------------
\* What a fresh spend is paid from.
Chargeable(d, c, from) ==
  /\ c \in SpendCall /\ Prior(d.receipts, c) = {}
  /\ \/ /\ from = "available" /\ c.book = NoBook
        /\ Catalog[c.resource] <= d.accounts[c.buyer].available
     \/ /\ from = "reserved" /\ c.book # NoBook
        /\ c.book \in Held(d, c.buyer) /\ ~d.books[c.book].closed
        /\ c.resource \in d.books[c.book].items
        /\ \A x \in d.receipts : x.call.book # c.book \/ x.call.resource # c.resource

\* An open item is paid with units that its book holds and its buyer reserved.
LEMMA ItemFits ==
  ASSUME NEW d, MoneyInv(d), NEW c, Chargeable(d, c, "reserved")
  PROVE  /\ d.books[c.book].remaining = Units(Open(d, c.book))
         /\ Open(d, c.book) \in SUBSET Resources /\ c.resource \in Open(d, c.book)
         /\ Units(Open(d, c.book)) = Units(Open(d, c.book) \ {c.resource}) + Catalog[c.resource]
         /\ Units(Open(d, c.book) \ {c.resource}) \in Nat
         /\ Catalog[c.resource] <= d.books[c.book].remaining
         /\ d.books[c.book].remaining <= d.accounts[c.buyer].reserved
<1>1. /\ c.book \in DOMAIN d.books /\ d.books[c.book].buyer = c.buyer /\ c.buyer \in Buyers
      /\ ~d.books[c.book].closed /\ c.book \in Held(d, c.buyer)
      /\ c.resource \in d.books[c.book].items
      /\ \A x \in d.receipts : x.call.book # c.book \/ x.call.resource # c.resource
  BY DEF Chargeable, Held, SpendCall
<1>2. d.books[c.book] \in Book
  BY <1>1 DEF MoneyInv, DbTypes
<1>3. Open(d, c.book) \in SUBSET Resources /\ c.resource \in Open(d, c.book)
  BY <1>1, <1>2 DEF Open, Book
<1>4. d.books[c.book].remaining = Units(Open(d, c.book))
  BY <1>1 DEF MoneyInv, RemainingIsOpen
<1>5. /\ Units(Open(d, c.book)) = Units(Open(d, c.book) \ {c.resource}) + Catalog[c.resource]
      /\ Units(Open(d, c.book) \ {c.resource}) \in Nat
      /\ Catalog[c.resource] <= Units(Open(d, c.book))
  <2>1. PICK f, S, r : f = Catalog /\ S = Open(d, c.book) /\ r = c.resource
    OBVIOUS
  <2>2. IsFiniteSet(S) /\ Summable(f, S) /\ r \in S
    BY <1>3, <2>1, UnitsFinite
  <2>3. /\ Total(f, S) = Total(f, S \ {r}) + f[r] /\ Total(f, S \ {r}) \in Nat
        /\ f[r] <= Total(f, S)
    BY <2>2, TotalRemove
  <2> QED
    BY <2>1, <2>3 DEF Units
<1>6. d.books[c.book].remaining <= d.accounts[c.buyer].reserved
  <2>1. PICK f, S, b : f = Remains(d) /\ S = Held(d, c.buyer) /\ b = c.book
    OBVIOUS
  <2>2. S \in SUBSET DOMAIN d.books /\ b \in S
    BY <1>1, <2>1 DEF Held
  <2>3. IsFiniteSet(S) /\ Summable(f, S)
    BY <2>1, <2>2, SumsFinite DEF MoneyInv
  <2>4. f[b] <= Total(f, S)
    BY <2>2, <2>3, TotalRemove
  <2>5. f[b] = d.books[c.book].remaining
    BY <1>1, <2>1 DEF Remains
  <2>6. d.accounts[c.buyer].reserved = Total(f, S)
    BY <1>1, <2>1 DEF MoneyInv, Audited
  <2> QED
    BY <2>4, <2>5, <2>6
<1> QED
  BY <1>3, <1>4, <1>5, <1>6

\* A new receipt adds its units, to its buyer's sum and to the publisher's.
Added(d, e, x) ==
  /\ IsFiniteSet(e.receipts)
  /\ Total(UnitsIn(e), e.receipts) = Total(UnitsIn(d), d.receipts) + x.units
  /\ Total(UnitsIn(e), PaidBy(e, x.call.buyer)) =
       Total(UnitsIn(d), PaidBy(d, x.call.buyer)) + x.units
  /\ \A u : u # x.call.buyer =>
       Total(UnitsIn(e), PaidBy(e, u)) = Total(UnitsIn(d), PaidBy(d, u))

\* A new receipt adds its own units to the sums over receipts.
LEMMA ReceiptAdds ==
  ASSUME NEW d, DbTypes(d), NEW x, x \in Receipt, x \notin d.receipts,
         NEW e, e.receipts = d.receipts \cup {x}
  PROVE  Added(d, e, x)
<1>1. x.units \in Nat
  BY DEF Receipt
<1>2. IsFiniteSet(e.receipts)
  BY FS_AddElement DEF DbTypes
<1>3. UnitsIn(e)[x] = x.units /\ \A y \in d.receipts : UnitsIn(e)[y] = UnitsIn(d)[y]
  BY DEF UnitsIn
<1>4. ASSUME NEW S \in SUBSET d.receipts
      PROVE  /\ Total(UnitsIn(e), S) = Total(UnitsIn(d), S)
             /\ Total(UnitsIn(e), S \cup {x}) = Total(UnitsIn(d), S) + x.units
  <2>1. PICK f, g : f = UnitsIn(d) /\ g = UnitsIn(e)
    OBVIOUS
  <2>2. IsFiniteSet(S) /\ Summable(f, S)
    BY <2>1, SumsFinite
  <2>3. \A y \in S : g[y] = f[y]
    BY <1>3, <2>1
  <2>4. Summable(g, S) /\ x \notin S /\ g[x] = x.units
    BY <1>3, <2>1, <2>2, <2>3 DEF Summable
  <2>5. Total(g, S) = Total(f, S)
    BY <2>3, TotalSame
  <2>6. Total(g, S \cup {x}) = Total(g, S) + g[x]
    BY <1>1, <2>2, <2>4, TotalAdd
  <2> QED
    BY <2>1, <2>4, <2>5, <2>6
<1>5. PaidBy(e, x.call.buyer) = PaidBy(d, x.call.buyer) \cup {x}
  BY DEF PaidBy
<1>6. \A u : u # x.call.buyer => PaidBy(e, u) = PaidBy(d, u)
  BY DEF PaidBy
<1>7. \A u : PaidBy(d, u) \in SUBSET d.receipts
  BY DEF PaidBy
<1>8. d.receipts \in SUBSET d.receipts
  OBVIOUS
<1>9. Total(UnitsIn(e), e.receipts) = Total(UnitsIn(d), d.receipts) + x.units
  BY <1>4, <1>8
<1>10. Total(UnitsIn(e), PaidBy(e, x.call.buyer)) =
         Total(UnitsIn(d), PaidBy(d, x.call.buyer)) + x.units
  BY <1>4, <1>5, <1>7
<1>11. \A u : u # x.call.buyer =>
         Total(UnitsIn(e), PaidBy(e, u)) = Total(UnitsIn(d), PaidBy(d, u))
  BY <1>4, <1>6, <1>7
<1> QED
  BY <1>2, <1>9, <1>10, <1>11 DEF Added

\* A receipt on a book takes its units from the book; from the account, from none.
TookFrom(d, e, c, units) ==
  /\ DOMAIN e.books = DOMAIN d.books /\ e.books \in [DOMAIN d.books -> Book]
  /\ \A b \in DOMAIN d.books :
       /\ e.books[b].buyer = d.books[b].buyer /\ e.books[b].items = d.books[b].items
       /\ e.books[b].kid = d.books[b].kid /\ e.books[b].closed = d.books[b].closed
       /\ b # c.book => e.books[b].remaining = d.books[b].remaining
  /\ c.book # NoBook => e.books[c.book].remaining = d.books[c.book].remaining - units

\* A charge takes its units from its own book and from no other.
LEMMA BookPays ==
  ASSUME NEW d, MoneyInv(d), NEW c, NEW from, Chargeable(d, c, from), NEW units,
         units = Catalog[c.resource], NEW x, NEW e, Paid(d, e, c, from, units, x)
  PROVE  TookFrom(d, e, c, units)
<1>1. d.books \in [DOMAIN d.books -> Book] /\ NoBook \notin DOMAIN d.books
  BY HttpLedgerAssumption DEF MoneyInv, DbTypes
<1>2. CASE c.book = NoBook
  BY <1>1, <1>2 DEF Paid, TookFrom
<1>3. CASE c.book # NoBook
  <2>1. from = "reserved" /\ c.book \in DOMAIN d.books /\ d.books[c.book] \in Book
    BY <1>1, <1>3 DEF Chargeable, Held
  <2>2. units \in Nat /\ d.books[c.book].remaining - units \in Nat
    <3>1. Catalog[c.resource] <= d.books[c.book].remaining
      BY <2>1, ItemFits
    <3>2. units \in Nat
      BY HttpLedgerAssumption DEF Chargeable, SpendCall, Positive
    <3> QED
      BY <2>1, <3>1, <3>2 DEF Book
  <2>3. PICK row : row = [d.books[c.book] EXCEPT !.remaining = @ - units]
    OBVIOUS
  <2>4. /\ row \in Book /\ row.remaining = d.books[c.book].remaining - units
        /\ row.buyer = d.books[c.book].buyer /\ row.items = d.books[c.book].items
        /\ row.kid = d.books[c.book].kid /\ row.closed = d.books[c.book].closed
    BY <2>1, <2>2, <2>3 DEF Book
  <2>5. e.books = [d.books EXCEPT ![c.book] = row]
    BY <1>3, <2>3 DEF Paid
  <2> QED
    BY <1>1, <1>3, <2>1, <2>4, <2>5 DEF TookFrom
<1> QED
  BY <1>2, <1>3

\* A payment keeps every unit accounted for,
LEMMA SpendMoney ==
  ASSUME NEW d, MoneyInv(d), NEW c, NEW from, Chargeable(d, c, from), NEW units,
         units = Catalog[c.resource], NEW at \in Nat, NEW x, x = NewReceipt(c, at),
         NEW e, Paid(d, e, c, from, units, x)
  PROVE  MoneyInv(e)
<1>1. /\ DbTypes(d) /\ c \in SpendCall /\ c.buyer \in Buyers /\ c.resource \in Resources
      /\ d.accounts \in [Buyers -> Account] /\ d.accounts[c.buyer] \in Account
  BY DEF MoneyInv, Chargeable, SpendCall, DbTypes
<1>2. x \in Receipt /\ x.units = units /\ x.call = c /\ units \in Nat
  BY <1>1, HttpLedgerAssumption DEF NewReceipt, Receipt, Positive
<1>3. x \notin d.receipts
  BY <1>2 DEF Chargeable, Prior
<1>4. /\ DOMAIN e.books = DOMAIN d.books /\ e.books \in [DOMAIN d.books -> Book]
      /\ \A b \in DOMAIN d.books :
           /\ e.books[b].buyer = d.books[b].buyer /\ e.books[b].items = d.books[b].items
           /\ e.books[b].kid = d.books[b].kid /\ e.books[b].closed = d.books[b].closed
           /\ b # c.book => e.books[b].remaining = d.books[b].remaining
      /\ c.book # NoBook => e.books[c.book].remaining = d.books[c.book].remaining - units
  <2>1. TookFrom(d, e, c, units)
    BY BookPays
  <2> QED
    BY <2>1 DEF TookFrom
<1>5. e.receipts = d.receipts \cup {x} /\ e.accrued = d.accrued + units
  BY DEF Paid
<1>6. /\ IsFiniteSet(e.receipts)
      /\ Total(UnitsIn(e), e.receipts) = Total(UnitsIn(d), d.receipts) + units
      /\ Total(UnitsIn(e), PaidBy(e, c.buyer)) = Total(UnitsIn(d), PaidBy(d, c.buyer)) + units
      /\ \A u : u # c.buyer => Total(UnitsIn(e), PaidBy(e, u)) = Total(UnitsIn(d), PaidBy(d, u))
  <2>1. Added(d, e, x)
    BY <1>1, <1>2, <1>3, <1>5, ReceiptAdds
  <2> QED
    BY <1>2, <2>1 DEF Added
<1>7. /\ from = "available" => c.book = NoBook /\ units <= d.accounts[c.buyer].available
      /\ from = "reserved" => c.book # NoBook /\ units <= d.accounts[c.buyer].reserved
                              /\ c.book \in Held(d, c.buyer)
      /\ from \in {"available", "reserved"}
  <2>1. CASE from = "available"
    BY <2>1 DEF Chargeable
  <2>2. CASE from = "reserved"
    <3>1. /\ units <= d.books[c.book].remaining
          /\ d.books[c.book].remaining <= d.accounts[c.buyer].reserved
      BY <2>2, ItemFits
    <3>2. c.book # NoBook /\ c.book \in Held(d, c.buyer)
      BY <2>2 DEF Chargeable
    <3>3. d.books[c.book].remaining \in Nat /\ d.accounts[c.buyer].reserved \in Nat
      BY <1>1, <3>2 DEF Held, DbTypes, Book, Account
    <3> QED
      BY <1>2, <2>2, <3>1, <3>2, <3>3
  <2> QED
    BY <2>1, <2>2 DEF Chargeable
<1>8. PICK row : row =
        [initial |-> d.accounts[c.buyer].initial,
         available |-> IF from = "available" THEN d.accounts[c.buyer].available - units
                                             ELSE d.accounts[c.buyer].available,
         reserved |-> IF from = "reserved" THEN d.accounts[c.buyer].reserved - units
                                           ELSE d.accounts[c.buyer].reserved,
         spent |-> d.accounts[c.buyer].spent + units]
  OBVIOUS
<1>9. e.accounts = [d.accounts EXCEPT ![c.buyer] = row]
  BY <1>8 DEF Paid
<1>10. DbTypes(e)
  <2>1. row \in Account
    <3>1. /\ d.accounts[c.buyer].initial \in Nat /\ d.accounts[c.buyer].available \in Nat
          /\ d.accounts[c.buyer].reserved \in Nat /\ d.accounts[c.buyer].spent \in Nat
      BY <1>1 DEF Account
    <3>2. /\ row.initial \in Nat /\ row.available \in Nat /\ row.reserved \in Nat
          /\ row.spent \in Nat
      BY <1>2, <1>7, <1>8, <3>1
    <3> QED
      BY <1>8, <3>2 DEF Account
  <2>2. e.accounts \in [Buyers -> Account]
    BY <1>1, <1>9, <2>1
  <2>3. e.receipts \subseteq Receipt
    BY <1>1, <1>2, <1>5 DEF DbTypes
  <2>4. e.accrued \in Nat
    BY <1>1, <1>2, <1>5 DEF DbTypes
  <2> QED
    BY <1>1, <1>4, <1>6, <2>2, <2>3, <2>4 DEF DbTypes, Paid
<1>11. \A u : Held(e, u) = Held(d, u)
  BY <1>4 DEF Held
<1>12. /\ from = "available" => Total(Remains(e), Held(e, c.buyer)) = Total(Remains(d), Held(d, c.buyer))
       /\ from = "reserved" =>
            Total(Remains(e), Held(e, c.buyer)) = Total(Remains(d), Held(d, c.buyer)) - units
       /\ \A u \in Buyers : u # c.buyer =>
            Total(Remains(e), Held(e, u)) = Total(Remains(d), Held(d, u))
  <2>1. \A b \in DOMAIN d.books : b # c.book => Remains(e)[b] = Remains(d)[b]
    BY <1>4 DEF Remains
  <2>2. CASE from = "available"
    <3>1. \A b \in DOMAIN d.books : Remains(e)[b] = Remains(d)[b]
      BY <1>1, <1>7, <2>1, <2>2, HttpLedgerAssumption DEF DbTypes
    <3>2. \A u : \A b \in Held(d, u) : Remains(e)[b] = Remains(d)[b]
      BY <3>1 DEF Held
    <3>3. \A u : Total(Remains(e), Held(d, u)) = Total(Remains(d), Held(d, u))
      BY <3>2, TotalSame
    <3> QED
      BY <1>11, <2>2, <3>3
  <2>3. CASE from = "reserved"
    <3>1. PICK f, g, S, b : /\ f = Remains(d) /\ g = Remains(e) /\ S = Held(d, c.buyer)
                            /\ b = c.book
      OBVIOUS
    <3>2. S \in SUBSET DOMAIN d.books /\ b \in S
      BY <1>7, <2>3, <3>1 DEF Held
    <3>3. IsFiniteSet(S) /\ Summable(f, S)
      BY <1>1, <3>1, <3>2, SumsFinite
    <3>4. f[b] = d.books[b].remaining /\ g[b] = d.books[b].remaining - units /\ g[b] \in Nat
      BY <1>4, <1>7, <2>3, <3>1, <3>2 DEF Remains, Book
    <3>5. \A y \in S : y # b => g[y] = f[y]
      BY <2>1, <3>1, <3>2
    <3>6. /\ Total(g, S) = Total(f, S) - f[b] + g[b]
          /\ Total(f, S) \in Nat
      <4>1. Total(f, S) \in Nat
        BY <3>3, TotalType
      <4>2. Total(g, S) = Total(f, S) - f[b] + g[b]
        BY <3>2, <3>3, <3>4, <3>5, TotalChange
      <4> QED
        BY <4>1, <4>2
    <3>7. Total(g, S) = Total(f, S) - units
      BY <1>2, <3>2, <3>3, <3>4, <3>6 DEF Summable
    <3>8. \A u : u # c.buyer => \A y \in Held(d, u) : Remains(e)[y] = Remains(d)[y]
      BY <1>7, <2>1, <2>3 DEF Held
    <3>9. \A u : u # c.buyer => Total(Remains(e), Held(d, u)) = Total(Remains(d), Held(d, u))
      BY <3>8, TotalSame
    <3> QED
      BY <1>11, <2>3, <3>1, <3>7, <3>9
  <2> QED
    BY <1>7, <2>2, <2>3
<1>13. Audited(e)
  <2>1. ASSUME NEW u \in Buyers
        PROVE  /\ e.accounts[u].initial =
                    e.accounts[u].available + e.accounts[u].reserved + e.accounts[u].spent
               /\ e.accounts[u].reserved = Total(Remains(e), Held(e, u))
               /\ e.accounts[u].spent = Total(UnitsIn(e), PaidBy(e, u))
    <3>1. /\ d.accounts[u].initial =
               d.accounts[u].available + d.accounts[u].reserved + d.accounts[u].spent
          /\ d.accounts[u].reserved = Total(Remains(d), Held(d, u))
          /\ d.accounts[u].spent = Total(UnitsIn(d), PaidBy(d, u))
      BY DEF MoneyInv, Audited
    <3>2. CASE u # c.buyer
      <4>1. e.accounts[u] = d.accounts[u]
        BY <1>1, <1>9, <3>2
      <4> QED
        BY <1>6, <1>12, <3>1, <3>2, <4>1
    <3>3. CASE u = c.buyer
      <4>1. e.accounts[u] = row
        BY <1>1, <1>9, <3>3
      <4>2. /\ d.accounts[u].initial \in Nat /\ d.accounts[u].available \in Nat
            /\ d.accounts[u].reserved \in Nat /\ d.accounts[u].spent \in Nat
        BY <1>1, <3>3 DEF Account
      <4>3. /\ row.initial = d.accounts[u].initial
            /\ row.available = IF from = "available" THEN d.accounts[u].available - units
                                                     ELSE d.accounts[u].available
            /\ row.reserved = IF from = "reserved" THEN d.accounts[u].reserved - units
                                                   ELSE d.accounts[u].reserved
            /\ row.spent = d.accounts[u].spent + units
        BY <1>8, <3>3
      <4>4. row.initial = row.available + row.reserved + row.spent
        BY <1>2, <1>7, <3>1, <4>2, <4>3
      <4>5. row.reserved = Total(Remains(e), Held(e, u))
        BY <1>7, <1>12, <3>1, <3>3, <4>3
      <4>6. row.spent = Total(UnitsIn(e), PaidBy(e, u))
        BY <1>6, <3>1, <3>3, <4>3
      <4> QED
        BY <4>1, <4>4, <4>5, <4>6
    <3> QED
      BY <3>2, <3>3
  <2>2. e.accrued = Total(UnitsIn(e), e.receipts)
    BY <1>5, <1>6 DEF MoneyInv, Audited
  <2> QED
    BY <2>1, <2>2 DEF Audited
<1>14. RemainingIsOpen(e)
  <2>1. ASSUME NEW b \in DOMAIN d.books
        PROVE  e.books[b].remaining = IF e.books[b].closed THEN 0 ELSE Units(Open(e, b))
    <3>1. d.books[b].remaining = IF d.books[b].closed THEN 0 ELSE Units(Open(d, b))
      BY DEF MoneyInv, RemainingIsOpen
    <3>2. CASE b # c.book
      <4>1. Open(e, b) = Open(d, b)
        BY <1>2, <1>4, <1>5, <3>2 DEF Open
      <4> QED
        BY <1>4, <3>1, <3>2, <4>1
    <3>3. CASE b = c.book
      <4>1. Chargeable(d, c, "reserved") /\ c.book # NoBook
        BY <1>1, <1>7, <3>3, HttpLedgerAssumption DEF DbTypes
      <4>2. Open(e, b) = Open(d, b) \ {c.resource}
        BY <1>2, <1>4, <1>5, <3>3 DEF Open
      <4>3. /\ d.books[b].remaining = Units(Open(d, b))
            /\ Units(Open(d, b)) = Units(Open(d, b) \ {c.resource}) + units
            /\ Units(Open(d, b) \ {c.resource}) \in Nat
        BY <3>3, <4>1, ItemFits
      <4>4. e.books[b].remaining = Units(Open(d, b) \ {c.resource})
        BY <1>2, <1>4, <3>3, <4>1, <4>3
      <4>5. ~d.books[b].closed
        BY <3>3, <4>1 DEF Chargeable
      <4> QED
        BY <1>4, <4>2, <4>4, <4>5
    <3> QED
      BY <3>2, <3>3
  <2> QED
    BY <1>4, <2>1 DEF RemainingIsOpen
<1>15. ReceiptsMatch(e)
  <2>1. ASSUME NEW y \in d.receipts, y.call.book # NoBook
        PROVE  Matches(e, y)
    <3>1. Matches(d, y) /\ y.call.book \in DOMAIN d.books
      BY <2>1 DEF MoneyInv, ReceiptsMatch, Matches, Held
    <3>2. ~(c.book = y.call.book /\ c.resource = y.call.resource)
      BY <2>1 DEF Chargeable
    <3> QED
      BY <1>2, <1>4, <1>5, <1>11, <3>1, <3>2 DEF Matches
  <2>2. ASSUME c.book # NoBook
        PROVE  Matches(e, x)
    <3>1. /\ c.book \in Held(d, c.buyer) /\ c.resource \in d.books[c.book].items
          /\ \A y \in d.receipts : y.call.book # c.book \/ y.call.resource # c.resource
          /\ c.book \in DOMAIN d.books
      BY <2>2 DEF Chargeable, Held
    <3> QED
      BY <1>2, <1>4, <1>5, <1>11, <3>1 DEF Matches
  <2> QED
    BY <1>2, <1>5, <2>1, <2>2 DEF ReceiptsMatch
<1> QED
  BY <1>10, <1>13, <1>14, <1>15 DEF MoneyInv

\* A step that leaves a book where it is, with its items, leaves issuances whole.
LEMMA WholeStays ==
  ASSUME NEW d, IssuesWhole(d), NEW e, e.issues = d.issues, DOMAIN e.books = DOMAIN d.books,
         \A b \in DOMAIN d.books : /\ e.books[b].buyer = d.books[b].buyer
                                   /\ e.books[b].items = d.books[b].items
  PROVE  IssuesWhole(e)
<1>1. \A u : Held(e, u) = Held(d, u)
  BY DEF Held
<1>2. ASSUME NEW x \in d.issues
      PROVE  Whole(e, x)
  <2>1. \A i \in DOMAIN x.books : x.books[i] \in DOMAIN d.books
    BY DEF IssuesWhole, Whole, Held
  <2> QED
    BY <1>1, <2>1 DEF IssuesWhole, Whole
<1>3. \A b, x, i : PlacedAt(d, b, x, i) => PlacedAt(e, b, x, i)
  BY DEF PlacedAt
<1> QED
  BY <1>2, <1>3 DEF IssuesWhole

\* and the database in order.
LEMMA SpendKeeps ==
  ASSUME DbInv(db), NEW c, NEW from, Chargeable(db, c, from), NEW at \in Nat,
         NEW e, e = AfterSpend(c, from, at)
  PROVE  DbInv(e) /\ Paid(db, e, c, from, Catalog[c.resource], NewReceipt(c, at))
<1>1. PICK x, units : x = NewReceipt(c, at) /\ units = Catalog[c.resource]
  OBVIOUS
<1>2. MoneyInv(db) /\ DbTypes(db) /\ c \in SpendCall /\ from \in {"available", "reserved"}
  BY DEF DbInv, MoneyInv, Chargeable
<1>3. Paid(db, e, c, from, units, x)
  BY <1>1, <1>2, SpendWrites
<1>4. MoneyInv(e)
  BY <1>1, <1>2, <1>3, SpendMoney
<1>5. IssuesWhole(e)
  <2>1. /\ DOMAIN e.books = DOMAIN db.books
        /\ \A b \in DOMAIN db.books : /\ e.books[b].buyer = db.books[b].buyer
                                      /\ e.books[b].items = db.books[b].items
    <3>1. TookFrom(db, e, c, units)
      BY <1>1, <1>2, <1>3, BookPays
    <3> QED
      BY <3>1 DEF TookFrom
  <2>2. e.issues = db.issues
    BY <1>3 DEF Paid
  <2> QED
    BY <2>1, <2>2, WholeStays DEF DbInv
<1>6. OneAnswer(e)
  <2>1. /\ e.receipts = db.receipts \cup {x} /\ x.call = c
        /\ e.issues = db.issues /\ e.cancellations = db.cancellations
    BY <1>1, <1>3 DEF Paid, NewReceipt
  <2>2. OneRow(e.receipts)
    BY <2>1, OneRowMore DEF DbInv, OneAnswer, Chargeable
  <2> QED
    BY <2>1, <2>2 DEF DbInv, OneAnswer
<1> QED
  BY <1>1, <1>3, <1>4, <1>5, <1>6 DEF DbInv

-------------------------------------------------------------------------------
\* A cancelled book is closed and holds nothing; the others are as they were.
Shut(d, e, bs) ==
  /\ DOMAIN e.books = DOMAIN d.books /\ e.books \in [DOMAIN d.books -> Book]
  /\ \A b \in DOMAIN d.books :
       /\ e.books[b].buyer = d.books[b].buyer /\ e.books[b].items = d.books[b].items
       /\ e.books[b].kid = d.books[b].kid
       /\ b \in bs => e.books[b].closed = TRUE /\ e.books[b].remaining = 0
       /\ b \notin bs => e.books[b] = d.books[b]

\* A cancellation shuts the books it names and no others.
LEMMA BooksShut ==
  ASSUME NEW d, DbTypes(d), NEW u, NEW bs, NEW units, NEW answers, NEW e,
         Freed(d, e, u, bs, units, answers)
  PROVE  Shut(d, e, bs)
<1>1. e.books = [b \in DOMAIN d.books |-> IF b \in bs THEN Closed(d.books[b]) ELSE d.books[b]]
  BY DEF Freed
<1>2. ASSUME NEW row \in Book
      PROVE  /\ Closed(row) \in Book /\ Closed(row).buyer = row.buyer
             /\ Closed(row).items = row.items /\ Closed(row).kid = row.kid
             /\ Closed(row).closed = TRUE /\ Closed(row).remaining = 0
  <2>1. PICK new : new = Closed(row)
    OBVIOUS
  <2>2. /\ new \in Book /\ new.buyer = row.buyer /\ new.items = row.items
        /\ new.kid = row.kid /\ new.closed = TRUE /\ new.remaining = 0
    BY <2>1 DEF Closed, Book
  <2> QED
    BY <2>1, <2>2
<1>3. \A b \in DOMAIN d.books : d.books[b] \in Book
  BY DEF DbTypes
<1>4. DOMAIN e.books = DOMAIN d.books
  BY <1>1
<1>5. \A b \in DOMAIN d.books : b \in bs => e.books[b] = Closed(d.books[b])
  BY <1>1
<1>6. \A b \in DOMAIN d.books : b \notin bs => e.books[b] = d.books[b]
  BY <1>1
<1>7. e.books \in [DOMAIN d.books -> Book]
  BY <1>1, <1>2, <1>3
<1>8. ASSUME NEW b \in DOMAIN d.books
      PROVE  /\ e.books[b].buyer = d.books[b].buyer /\ e.books[b].items = d.books[b].items
             /\ e.books[b].kid = d.books[b].kid
             /\ b \in bs => e.books[b].closed = TRUE /\ e.books[b].remaining = 0
  <2>1. CASE b \in bs
    <3>1. d.books[b] \in Book /\ e.books[b] = Closed(d.books[b])
      BY <1>3, <1>5, <2>1
    <3> QED
      BY <1>2, <3>1
  <2>2. CASE b \notin bs
    BY <1>6, <2>2
  <2> QED
    BY <2>1, <2>2
<1> QED
  BY <1>4, <1>6, <1>7, <1>8 DEF Shut

\* A cancellation keeps every unit accounted for and gives back what was set aside,
LEMMA CancelMoney ==
  ASSUME NEW d, MoneyInv(d), NEW u \in Buyers, NEW bs, bs \subseteq Held(d, u),
         NEW units, units = Total(Remains(d), bs), NEW answers, answers \subseteq Cancellation,
         NEW e, Freed(d, e, u, bs, units, answers)
  PROVE  /\ MoneyInv(e)
         /\ units \in Nat /\ units <= d.accounts[u].reserved
<1>1. /\ DbTypes(d) /\ d.accounts \in [Buyers -> Account] /\ d.accounts[u] \in Account
      /\ Held(d, u) \in SUBSET DOMAIN d.books
  BY DEF MoneyInv, DbTypes, Held
<1>2. /\ DOMAIN e.books = DOMAIN d.books /\ e.books \in [DOMAIN d.books -> Book]
      /\ \A b \in DOMAIN d.books :
           /\ e.books[b].buyer = d.books[b].buyer /\ e.books[b].items = d.books[b].items
           /\ e.books[b].kid = d.books[b].kid
           /\ b \in bs => e.books[b].closed = TRUE /\ e.books[b].remaining = 0
           /\ b \notin bs => e.books[b] = d.books[b]
  <2>1. Shut(d, e, bs)
    BY <1>1, BooksShut
  <2> QED
    BY <2>1 DEF Shut
<1>3. /\ e.receipts = d.receipts /\ e.accrued = d.accrued /\ \A v : Held(e, v) = Held(d, v)
      /\ \A v : PaidBy(e, v) = PaidBy(d, v) /\ UnitsIn(e) = UnitsIn(d)
  BY <1>2 DEF Freed, Held, PaidBy, UnitsIn
<1>4. /\ units \in Nat /\ Total(Remains(d), Held(d, u)) \in Nat
      /\ Total(Remains(d), Held(d, u)) = units + Total(Remains(e), Held(e, u))
      /\ Total(Remains(e), Held(e, u)) \in Nat
  <2>1. PICK f, g, S : f = Remains(d) /\ g = Remains(e) /\ S = Held(d, u)
    OBVIOUS
  <2>2. IsFiniteSet(S) /\ Summable(f, S) /\ S \in SUBSET DOMAIN d.books
    BY <1>1, <2>1, SumsFinite
  <2>3. \A b \in bs : g[b] = 0
    BY <1>2, <2>1, <2>2 DEF Remains
  <2>4. \A b \in S \ bs : g[b] = f[b]
    BY <1>2, <2>1, <2>2 DEF Remains
  <2>5. Summable(g, S)
    BY <2>2, <2>3, <2>4 DEF Summable
  <2>6. /\ Total(f, S) = Total(f, bs) + Total(f, S \ bs)
        /\ Total(f, bs) \in Nat /\ Total(f, S \ bs) \in Nat
    <3>1. bs \subseteq S
      BY <2>1
    <3>2. Total(f, S) = Total(f, bs) + Total(f, S \ bs)
      BY <2>2, <3>1, TotalSplit
    <3>3. Total(f, bs) \in Nat /\ Total(f, S \ bs) \in Nat
      BY <2>2, <3>1, TotalSplit
    <3> QED
      BY <3>2, <3>3
  <2>7. Total(g, S) = Total(g, bs) + Total(g, S \ bs)
    BY <2>1, <2>2, <2>5, TotalSplit
  <2>8. Total(g, bs) = 0
    BY <2>3, TotalZero
  <2>9. Total(g, S \ bs) = Total(f, S \ bs)
    BY <2>4, TotalSame
  <2>10. /\ Total(f, S) = Total(f, bs) + Total(g, S) /\ Total(g, S) \in Nat
         /\ Total(f, S) \in Nat
    BY <2>6, <2>7, <2>8, <2>9
  <2> QED
    BY <1>3, <2>1, <2>6, <2>10
<1>5. \A v \in Buyers : v # u => Total(Remains(e), Held(e, v)) = Total(Remains(d), Held(d, v))
  <2>1. \A v : v # u => \A b \in Held(d, v) : Remains(e)[b] = Remains(d)[b]
    BY <1>2 DEF Held, Remains
  <2>2. \A v : v # u => Total(Remains(e), Held(d, v)) = Total(Remains(d), Held(d, v))
    BY <2>1, TotalSame
  <2> QED
    BY <1>3, <2>2
<1>6. units <= d.accounts[u].reserved
  BY <1>4 DEF MoneyInv, Audited
<1>7. PICK row : row = [initial |-> d.accounts[u].initial,
                        available |-> d.accounts[u].available + units,
                        reserved |-> d.accounts[u].reserved - units,
                        spent |-> d.accounts[u].spent]
  OBVIOUS
<1>8. e.accounts = [d.accounts EXCEPT ![u] = row]
  BY <1>7 DEF Freed
<1>9. /\ d.accounts[u].initial \in Nat /\ d.accounts[u].available \in Nat
      /\ d.accounts[u].reserved \in Nat /\ d.accounts[u].spent \in Nat
  BY <1>1 DEF Account
<1>10. DbTypes(e)
  <2>1. d.accounts[u].available + units \in Nat /\ d.accounts[u].reserved - units \in Nat
    BY <1>4, <1>6, <1>9
  <2>2. row \in Account
    BY <1>7, <1>9, <2>1 DEF Account
  <2>3. e.accounts \in [Buyers -> Account]
    BY <1>1, <1>8, <2>2
  <2> QED
    BY <1>1, <1>2, <1>3, <2>3 DEF DbTypes, Freed
<1>11. Audited(e)
  <2>1. ASSUME NEW v \in Buyers
        PROVE  /\ e.accounts[v].initial =
                    e.accounts[v].available + e.accounts[v].reserved + e.accounts[v].spent
               /\ e.accounts[v].reserved = Total(Remains(e), Held(e, v))
               /\ e.accounts[v].spent = Total(UnitsIn(e), PaidBy(e, v))
    <3>1. /\ d.accounts[v].initial =
               d.accounts[v].available + d.accounts[v].reserved + d.accounts[v].spent
          /\ d.accounts[v].reserved = Total(Remains(d), Held(d, v))
          /\ d.accounts[v].spent = Total(UnitsIn(d), PaidBy(d, v))
      BY DEF MoneyInv, Audited
    <3>2. CASE v # u
      <4>1. e.accounts[v] = d.accounts[v]
        BY <1>1, <1>8, <3>2
      <4> QED
        BY <1>3, <1>5, <3>1, <3>2, <4>1
    <3>3. CASE v = u
      <4>1. /\ e.accounts[v].initial = d.accounts[v].initial
            /\ e.accounts[v].available = d.accounts[v].available + units
            /\ e.accounts[v].reserved = d.accounts[v].reserved - units
            /\ e.accounts[v].spent = d.accounts[v].spent
        BY <1>1, <1>7, <1>8, <3>3
      <4>2. e.accounts[v].reserved = Total(Remains(e), Held(e, v))
        BY <1>4, <3>1, <3>3, <4>1
      <4>3. e.accounts[v].spent = Total(UnitsIn(e), PaidBy(e, v))
        BY <1>3, <3>1, <4>1
      <4>4. e.accounts[v].initial =
              e.accounts[v].available + e.accounts[v].reserved + e.accounts[v].spent
        BY <1>4, <1>6, <1>9, <3>1, <3>3, <4>1
      <4> QED
        BY <4>2, <4>3, <4>4
    <3> QED
      BY <3>2, <3>3
  <2>2. e.accrued = Total(UnitsIn(e), e.receipts)
    BY <1>3 DEF MoneyInv, Audited
  <2> QED
    BY <2>1, <2>2 DEF Audited
<1>12. RemainingIsOpen(e)
  <2>1. ASSUME NEW b \in DOMAIN d.books
        PROVE  e.books[b].remaining = IF e.books[b].closed THEN 0 ELSE Units(Open(e, b))
    <3>1. CASE b \in bs
      BY <1>2, <3>1
    <3>2. CASE b \notin bs
      <4>1. Open(e, b) = Open(d, b)
        BY <1>2, <1>3, <3>2 DEF Open
      <4> QED
        BY <1>2, <3>2, <4>1 DEF MoneyInv, RemainingIsOpen
    <3> QED
      BY <3>1, <3>2
  <2> QED
    BY <1>2, <2>1 DEF RemainingIsOpen
<1>13. ReceiptsMatch(e)
  <2>1. ASSUME NEW x \in d.receipts, x.call.book # NoBook
        PROVE  Matches(e, x)
    <3>1. Matches(d, x) /\ x.call.book \in DOMAIN d.books
      BY <2>1 DEF MoneyInv, ReceiptsMatch, Matches, Held
    <3> QED
      BY <1>2, <1>3, <3>1 DEF Matches
  <2> QED
    BY <1>3, <2>1 DEF ReceiptsMatch
<1> QED
  BY <1>4, <1>6, <1>10, <1>11, <1>12, <1>13 DEF MoneyInv

\* and keeps the database in order.
LEMMA CancelKeeps ==
  ASSUME DbInv(db), NEW u \in Buyers, NEW bs, bs \subseteq Held(db, u),
         NEW answers, answers \subseteq Cancellation, OneRow(db.cancellations \cup answers), NEW e,
         \/ e = AfterCancel(u, bs) /\ answers = {}
         \/ e = [AfterCancel(u, bs) EXCEPT !.cancellations = @ \cup answers]
  PROVE  /\ DbInv(e) /\ Freed(db, e, u, bs, Remaining(bs), answers)
         /\ Remaining(bs) \in Nat /\ Remaining(bs) <= db.accounts[u].reserved
<1>1. PICK units : units = Remaining(bs)
  OBVIOUS
<1>2. MoneyInv(db) /\ DbTypes(db)
  BY DEF DbInv, MoneyInv
<1>3. Freed(db, e, u, bs, units, answers)
  BY <1>1, <1>2, CancelWrites
<1>4. units = Total(Remains(db), bs)
  <2>1. PICK f, g : f = Remains(db) /\ g = [b \in bs |-> db.books[b].remaining]
    OBVIOUS
  <2>2. \A b \in bs : g[b] = f[b]
    BY <2>1 DEF Remains, Held
  <2>3. Total(g, bs) = Total(f, bs)
    BY <2>2, TotalSame
  <2> QED
    BY <1>1, <2>1, <2>3 DEF Remaining
<1>5. MoneyInv(e) /\ units \in Nat /\ units <= db.accounts[u].reserved
  BY <1>2, <1>3, <1>4, CancelMoney
<1>6. IssuesWhole(e)
  <2>1. /\ DOMAIN e.books = DOMAIN db.books
        /\ \A b \in DOMAIN db.books : /\ e.books[b].buyer = db.books[b].buyer
                                      /\ e.books[b].items = db.books[b].items
    <3>1. Shut(db, e, bs)
      BY <1>2, <1>3, BooksShut
    <3> QED
      BY <3>1 DEF Shut
  <2>2. e.issues = db.issues
    BY <1>3 DEF Freed
  <2> QED
    BY <2>1, <2>2, WholeStays DEF DbInv
<1>7. OneAnswer(e)
  BY <1>3 DEF DbInv, OneAnswer, Freed
<1> QED
  BY <1>1, <1>3, <1>5, <1>6, <1>7 DEF DbInv

-------------------------------------------------------------------------------
\* What a step never takes back, and what it never does under a revoked key or
\* with a closed book.
RevocationHolds(d, e) ==
  /\ d.revoked \subseteq e.revoked
  /\ \A b \in DOMAIN e.books \ DOMAIN d.books : e.books[b].kid \notin d.revoked
  /\ \A x \in e.receipts \ d.receipts :
       x.call.book # NoBook => d.books[x.call.book].kid \notin d.revoked

CommittedStays(d, e) ==
  /\ d.issues \subseteq e.issues
  /\ d.receipts \subseteq e.receipts
  /\ d.cancellations \subseteq e.cancellations
  /\ \A b \in DOMAIN d.books : d.books[b].closed =>
       /\ e.books[b].closed
       /\ \A x \in e.receipts \ d.receipts : x.call.book # b

BooksStay(d, e) ==
  /\ DOMAIN d.books \subseteq DOMAIN e.books
  /\ \A b \in DOMAIN d.books : e.books[b].kid = d.books[b].kid

Follows(d, e) ==
  /\ RevocationHolds(d, e) /\ CommittedStays(d, e) /\ BooksStay(d, e)
  /\ Opened(d) => Opened(e)

\* A database whose rows are the same takes nothing back.
LEMMA FollowsItself ==
  ASSUME NEW d, NEW e, e.accounts = d.accounts, e.books = d.books, e.issues = d.issues,
         e.receipts = d.receipts, e.cancellations = d.cancellations, d.revoked \subseteq e.revoked
  PROVE  Follows(d, e)
BY DEF Follows, RevocationHolds, CommittedStays, BooksStay, Opened

\* A sale takes nothing back.
LEMMA IssueFollows ==
  ASSUME NEW d, DbTypes(d), NEW p, Sound(p), p.kid \in Kids, p.kid \notin d.revoked,
         NEW units, NEW e, Sold(d, e, p, units)
  PROVE  Follows(d, e)
<1>1. DOMAIN e.books = DOMAIN d.books \cup Ids(p) /\ BatchIn(e, p)
  BY BatchRows
<1>2. \A b \in Ids(p) : e.books[b].kid = p.kid
  BY <1>1 DEF BatchIn, Ids
<1>3. /\ d.issues \subseteq e.issues /\ e.receipts = d.receipts
      /\ e.cancellations = d.cancellations /\ e.revoked = d.revoked
      /\ \A b \in DOMAIN d.books : e.books[b] = d.books[b]
  BY DEF Sold
<1>4. RevocationHolds(d, e)
  BY <1>1, <1>2, <1>3 DEF RevocationHolds
<1>5. CommittedStays(d, e)
  BY <1>3 DEF CommittedStays
<1>6. BooksStay(d, e)
  BY <1>1, <1>3 DEF BooksStay
<1>7. \A u \in Buyers : e.accounts[u].initial = d.accounts[u].initial
  <2>1. d.accounts \in [Buyers -> Account]
    BY DEF DbTypes
  <2> QED
    BY <2>1 DEF Sold
<1> QED
  BY <1>4, <1>5, <1>6, <1>7 DEF Follows, Opened

\* A payment takes nothing back.
LEMMA SpendFollows ==
  ASSUME NEW d, MoneyInv(d), NEW c, NEW from, Chargeable(d, c, from), NEW units,
         units = Catalog[c.resource], c.book # NoBook => d.books[c.book].kid \notin d.revoked,
         NEW x, x.call = c, NEW e, Paid(d, e, c, from, units, x)
  PROVE  Follows(d, e)
<1>1. TookFrom(d, e, c, units)
  BY BookPays
<1>2. /\ e.issues = d.issues /\ e.receipts = d.receipts \cup {x}
      /\ e.cancellations = d.cancellations /\ e.revoked = d.revoked
  BY DEF Paid
<1>3. RevocationHolds(d, e)
  BY <1>1, <1>2 DEF RevocationHolds, TookFrom
<1>4. CommittedStays(d, e)
  <2>1. \A b \in DOMAIN d.books : d.books[b].closed => e.books[b].closed /\ c.book # b
    <3>1. NoBook \notin DOMAIN d.books
      BY HttpLedgerAssumption DEF MoneyInv, DbTypes
    <3> QED
      BY <1>1, <3>1 DEF TookFrom, Chargeable
  <2> QED
    BY <1>2, <2>1 DEF CommittedStays
<1>5. BooksStay(d, e)
  BY <1>1 DEF BooksStay, TookFrom
<1>6. \A u \in Buyers : e.accounts[u].initial = d.accounts[u].initial
  <2>1. d.accounts \in [Buyers -> Account]
    BY DEF MoneyInv, DbTypes
  <2> QED
    BY <2>1 DEF Paid
<1> QED
  BY <1>3, <1>4, <1>5, <1>6 DEF Follows, Opened

\* A cancellation takes nothing back.
LEMMA CancelFollows ==
  ASSUME NEW d, DbTypes(d), NEW u, NEW bs, NEW units, NEW answers, NEW e,
         Freed(d, e, u, bs, units, answers)
  PROVE  Follows(d, e)
<1>1. Shut(d, e, bs)
  BY BooksShut
<1>2. /\ e.issues = d.issues /\ e.receipts = d.receipts
      /\ e.cancellations = d.cancellations \cup answers /\ e.revoked = d.revoked
  BY DEF Freed
<1>3. RevocationHolds(d, e)
  BY <1>1, <1>2 DEF RevocationHolds, Shut
<1>4. CommittedStays(d, e)
  BY <1>1, <1>2 DEF CommittedStays, Shut
<1>5. BooksStay(d, e)
  BY <1>1 DEF BooksStay, Shut
<1>6. \A v \in Buyers : e.accounts[v].initial = d.accounts[v].initial
  <2>1. d.accounts \in [Buyers -> Account]
    BY DEF DbTypes
  <2> QED
    BY <2>1 DEF Freed
<1> QED
  BY <1>3, <1>4, <1>5, <1>6 DEF Follows, Opened

\* An account is opened once, with nothing reserved or spent.
\* The one deposit of an account.
Deposits(d, e, u, units) ==
  /\ d.accounts[u] = [initial |-> 0, available |-> 0, reserved |-> 0, spent |-> 0]
  /\ e.accounts = [d.accounts EXCEPT ![u] =
       [initial |-> units, available |-> units, reserved |-> 0, spent |-> 0]]
  /\ e.receipts = d.receipts

\* A deposit keeps the database in order and takes nothing back.
LEMMA SeedKeeps ==
  ASSUME DbInv(db), Opened(db), NEW u \in Buyers, NEW units \in Balances,
         db.accounts[u].initial = 0, NEW e,
         e = [db EXCEPT !.accounts[u].initial = units, !.accounts[u].available = units]
  PROVE  Deposits(db, e, u, units) /\ DbInv(e) /\ Follows(db, e)
<1>1. DbTypes(db) /\ db.accounts \in [Buyers -> Account] /\ db.accounts[u] \in Account
  BY DEF DbInv, MoneyInv, DbTypes
<1>2. units \in Nat
  BY HttpLedgerAssumption DEF Positive
<1>3. /\ db.accounts[u].available = 0 /\ db.accounts[u].reserved = 0 /\ db.accounts[u].spent = 0
  <2>1. /\ db.accounts[u].available \in Nat /\ db.accounts[u].reserved \in Nat
        /\ db.accounts[u].spent \in Nat
    BY <1>1 DEF Account
  <2>2. db.accounts[u].initial =
          db.accounts[u].available + db.accounts[u].reserved + db.accounts[u].spent
    BY DEF DbInv, MoneyInv, Audited
  <2>3. PICK v, r, t : /\ v = db.accounts[u].available /\ r = db.accounts[u].reserved
                       /\ t = db.accounts[u].spent
    OBVIOUS
  <2>4. v \in Nat /\ r \in Nat /\ t \in Nat /\ 0 = v + r + t
    BY <2>1, <2>2, <2>3
  <2>5. v = 0 /\ r = 0 /\ t = 0
    BY <2>4
  <2> QED
    BY <2>3, <2>5
<1>4. db.accounts[u] = [initial |-> 0, available |-> 0, reserved |-> 0, spent |-> 0]
  BY <1>1, <1>3 DEF Account
<1>5. /\ Shape(e)
      /\ e.accounts = [db.accounts EXCEPT ![u].initial = units, ![u].available = units]
      /\ e.books = db.books /\ e.issues = db.issues /\ e.receipts = db.receipts
      /\ e.cancellations = db.cancellations /\ e.revoked = db.revoked /\ e.accrued = db.accrued
  BY <1>1 DEF DbTypes, Shape
<1>6. e.accounts = [db.accounts EXCEPT ![u] =
        [initial |-> units, available |-> units, reserved |-> 0, spent |-> 0]]
  BY <1>1, <1>4, <1>5 DEF Account
<1>7. DbTypes(e)
  <2>1. e.accounts \in [Buyers -> Account]
    BY <1>1, <1>2, <1>6 DEF Account
  <2> QED
    BY <1>1, <1>5, <2>1 DEF DbTypes
<1>8. /\ \A v : Held(e, v) = Held(db, v) /\ PaidBy(e, v) = PaidBy(db, v)
      /\ Remains(e) = Remains(db) /\ UnitsIn(e) = UnitsIn(db)
  BY <1>5 DEF Held, PaidBy, Remains, UnitsIn
<1>9. Audited(e)
  <2>1. ASSUME NEW v \in Buyers
        PROVE  /\ e.accounts[v].initial =
                    e.accounts[v].available + e.accounts[v].reserved + e.accounts[v].spent
               /\ e.accounts[v].reserved = db.accounts[v].reserved
               /\ e.accounts[v].spent = db.accounts[v].spent
    <3>1. CASE v = u
      BY <1>1, <1>2, <1>3, <1>6, <3>1
    <3>2. CASE v # u
      BY <1>1, <1>6, <3>2 DEF DbInv, MoneyInv, Audited
    <3> QED
      BY <3>1, <3>2
  <2> QED
    BY <1>5, <1>8, <2>1 DEF DbInv, MoneyInv, Audited
<1>10. RemainingIsOpen(e) /\ ReceiptsMatch(e)
  BY <1>5 DEF DbInv, MoneyInv, RemainingIsOpen, Open, ReceiptsMatch, Matches, Held
<1>11. IssuesWhole(e) /\ OneAnswer(e)
  BY <1>5, WholeStays DEF DbInv, OneAnswer
<1>12. Follows(db, e)
  <2>1. RevocationHolds(db, e) /\ CommittedStays(db, e) /\ BooksStay(db, e)
    BY <1>5 DEF RevocationHolds, CommittedStays, BooksStay
  <2>2. Opened(e)
    BY <1>1, <1>6 DEF Opened
  <2> QED
    BY <2>1, <2>2 DEF Follows
<1> QED
  BY <1>4, <1>5, <1>6, <1>7, <1>9, <1>10, <1>11, <1>12 DEF Deposits, DbInv, MoneyInv

\* A revocation keeps the database in order and takes nothing back.
LEMMA RevokeKeeps ==
  ASSUME DbInv(db), NEW kid \in Kids, NEW e, e = [db EXCEPT !.revoked = @ \cup {kid}]
  PROVE  /\ DbInv(e) /\ Follows(db, e)
         /\ e.accounts = db.accounts /\ e.receipts = db.receipts
<1>1. /\ Shape(e) /\ e.accounts = db.accounts /\ e.books = db.books /\ e.issues = db.issues
      /\ e.receipts = db.receipts /\ e.cancellations = db.cancellations
      /\ e.revoked = db.revoked \cup {kid} /\ e.accrued = db.accrued
  BY DEF DbInv, MoneyInv, DbTypes, Shape
<1>2. DbTypes(e)
  BY <1>1 DEF DbInv, MoneyInv, DbTypes
<1>3. Audited(e)
  <2>1. /\ \A u : Held(e, u) = Held(db, u) /\ PaidBy(e, u) = PaidBy(db, u)
        /\ Remains(e) = Remains(db) /\ UnitsIn(e) = UnitsIn(db)
    BY <1>1 DEF Held, PaidBy, Remains, UnitsIn
  <2> QED
    BY <1>1, <2>1 DEF DbInv, MoneyInv, Audited
<1>4. RemainingIsOpen(e) /\ ReceiptsMatch(e)
  BY <1>1 DEF DbInv, MoneyInv, RemainingIsOpen, Open, ReceiptsMatch, Matches, Held
<1>5. IssuesWhole(e) /\ OneAnswer(e)
  BY <1>1, WholeStays DEF DbInv, OneAnswer
<1>6. Follows(db, e)
  BY <1>1, FollowsItself
<1> QED
  BY <1>1, <1>2, <1>3, <1>4, <1>5, <1>6 DEF DbInv, MoneyInv

-------------------------------------------------------------------------------
\* The steps.  Those of no issuance leave the keys and the issuances alone.
Issuances ==
  pending = [w \in Workers |-> pending[w]] /\ \A w \in Workers : InProgress(w)

\* Issuances in progress stay sound while no book comes or goes.
LEMMA IssuancesStay ==
  ASSUME IInv, UNCHANGED <<keys, pending>>, BooksStay(db, db'), DOMAIN db'.books = DOMAIN db.books
  PROVE  KeysPinned' /\ Issuances'
<1>1. KeysPinned'
  BY DEF IInv, KeysPinned, BooksStay
<1>2. ASSUME NEW w \in Workers
      PROVE  InProgress(w)'
  BY DEF IInv, InProgress
<1> QED
  BY <1>1, <1>2 DEF IInv, Issuances

\* What is answered is a row that stays.
Answered(e) == e.issues \cup e.receipts \cup e.cancellations

\* What was answered stays in the database.
LEMMA AnswersStay ==
  ASSUME IInv, CommittedStays(db, db'), answered' \subseteq answered \cup Answered(db')
  PROVE  answered' \subseteq Answered(db')
BY DEF IInv, CommittedStays, Answered

\* An earlier answer changes nothing, and is one the database holds.
LEMMA PriorAnswered ==
  ASSUME IInv, NEW rows \in {db.issues, db.receipts, db.cancellations}, NEW c,
         AnswerPrior(rows, c)
  PROVE  /\ db' = db /\ answered' \subseteq answered \cup Answered(db')
         /\ DbInv(db') /\ Follows(db, db')
<1>1. PICK x \in Prior(rows, c) : Send(x) /\ UNCHANGED db
  BY DEF AnswerPrior
<1>2. x \in Answered(db)
  BY DEF Prior, Answered
<1>3. DbInv(db') /\ Follows(db, db')
  BY <1>1, FollowsItself DEF IInv
<1> QED
  BY <1>1, <1>2, <1>3 DEF Send

\* The invariant, of the parts that the steps establish.
LEMMA IInvParts ==
  ASSUME DbInv(db'), Opened(db'), KeysPinned', Issuances', answered' \subseteq Answered(db')
  PROVE  IInv'
BY DEF IInv, Issuances, Answered

\* A new signing key keeps the invariant.
LEMMA RotateStep ==
  ASSUME IInv, Rotate
  PROVE  IInv' /\ Follows(db, db')
<1>1. /\ db' = db /\ pending' = pending /\ answered' = answered
      /\ keys' = [epoch |-> keys.epoch + 1, pins |-> keys.pins \cup {keys.epoch + 1}]
      /\ keys.epoch < LastEpoch
  BY DEF Rotate, NextEpoch, Pinned
<1>2. keys \in [epoch : Kids, pins : SUBSET Kids] /\ keys.epoch \in Kids /\ keys.pins \subseteq Kids
  BY DEF IInv, KeysPinned
<1>3. keys.epoch + 1 \in Kids
  BY <1>1, <1>2, HttpLedgerAssumption DEF Kids, Positive
<1>4. KeysPinned'
  BY <1>1, <1>2, <1>3 DEF IInv, KeysPinned
<1>5. ASSUME NEW w \in Workers
      PROVE  InProgress(w)'
  BY <1>1 DEF IInv, InProgress
<1>6. Follows(db, db')
  BY <1>1, FollowsItself
<1> QED
  BY <1>1, <1>4, <1>5, <1>6 DEF IInv

\* So does a deposit,
LEMMA SeedStep ==
  ASSUME IInv, NEW u \in Buyers, NEW units \in Balances, Seed(u, units)
  PROVE  IInv' /\ Follows(db, db')
<1>1. /\ DbInv(db) /\ Opened(db) /\ db.accounts[u].initial = 0
      /\ db' = [db EXCEPT !.accounts[u].initial = units, !.accounts[u].available = units]
      /\ keys' = keys /\ pending' = pending /\ answered' = answered
  BY DEF IInv, Seed
<1>2. DbInv(db') /\ Follows(db, db')
  BY <1>1, SeedKeeps
<1>3. DOMAIN db'.books = DOMAIN db.books
  BY <1>1 DEF DbInv, MoneyInv, DbTypes, Shape
<1>4. KeysPinned' /\ Issuances'
  BY <1>1, <1>2, <1>3, IssuancesStay DEF Follows
<1>5. answered' \subseteq Answered(db')
  BY <1>1, <1>2, AnswersStay DEF Follows
<1> QED
  BY <1>1, <1>2, <1>4, <1>5, IInvParts DEF Follows

\* a revocation,
LEMMA RevokeStep ==
  ASSUME IInv, NEW kid \in Kids, Revoke(kid)
  PROVE  IInv' /\ Follows(db, db')
<1>1. /\ DbInv(db) /\ Opened(db) /\ db' = [db EXCEPT !.revoked = @ \cup {kid}]
      /\ keys' = keys /\ pending' = pending /\ answered' = answered
  BY DEF IInv, Revoke
<1>2. DbInv(db') /\ Follows(db, db')
  BY <1>1, RevokeKeeps
<1>3. DOMAIN db'.books = DOMAIN db.books
  BY <1>1 DEF DbInv, MoneyInv, DbTypes, Shape
<1>4. KeysPinned' /\ Issuances'
  BY <1>1, <1>2, <1>3, IssuancesStay DEF Follows
<1>5. answered' \subseteq Answered(db')
  BY <1>1, <1>2, AnswersStay DEF Follows
<1> QED
  BY <1>1, <1>2, <1>4, <1>5, IInvParts DEF Follows

\* The ids drawn for a batch are of no book and of no other batch.
LEMMA IdsFresh ==
  ASSUME IInv, NEW c \in IssueCall, NEW ids \in FreshIds(Len(c.books))
  PROVE  /\ Len(c.books) \in Nat
         /\ ids \in Seq(BookIds) /\ Len(ids) = Len(c.books) /\ DOMAIN ids = 1 .. Len(c.books)
         /\ \A i, j \in DOMAIN ids : ids[i] = ids[j] => i = j
         /\ \A i \in DOMAIN ids : ids[i] \notin DOMAIN db.books
         /\ \A w \in Workers : pending[w] # Idle => \A i \in DOMAIN ids : ids[i] \notin Ids(pending[w])
<1> DEFINE n == Len(c.books)
           taken == DOMAIN db.books \cup
             UNION {{pending[w].ids[i] : i \in DOMAIN pending[w].ids} :
                      w \in {v \in Workers : pending[v] # Idle}}
<1>1. n \in Nat
  <2>1. c.books \in Seq(SUBSET Resources)
    BY HttpLedgerAssumption DEF IssueCall
  <2> QED
    BY <2>1, LenProperties
<1>2. /\ ids \in [1 .. n -> BookIds \ taken]
      /\ \A i, j \in 1 .. n : i # j => ids[i] # ids[j]
  BY DEF FreshIds
<1>3. ids \in Seq(BookIds) /\ DOMAIN ids = 1 .. n /\ Len(ids) = n
  <2>1. ids \in [1 .. n -> BookIds]
    BY <1>2
  <2>2. ids \in Seq(BookIds)
    BY <1>1, <2>1, SeqDef
  <2>3. DOMAIN ids = 1 .. Len(ids) /\ Len(ids) \in Nat
    BY <2>2, LenProperties
  <2> QED
    BY <1>1, <2>1, <2>2, <2>3
<1>4. \A i \in 1 .. n : ids[i] \notin taken
  BY <1>2
<1>5. \A w \in Workers : pending[w] # Idle => Ids(pending[w]) \subseteq taken
  BY DEF Ids
<1> QED
  BY <1>1, <1>2, <1>3, <1>4, <1>5

\* the first step of an issuance, which writes nothing,
LEMMA PrepareStep ==
  ASSUME IInv, NEW w \in Workers, NEW c \in IssueCall, Prepare(w, c)
  PROVE  IInv' /\ Follows(db, db') /\ db' = db
<1>1. CASE AnswerPrior(db.issues, c) /\ UNCHANGED pending
  <2>1. db' = db /\ answered' \subseteq answered \cup Answered(db') /\ DbInv(db') /\ Follows(db, db')
    BY <1>1, PriorAnswered
  <2>2. keys' = keys /\ pending' = pending
    BY <1>1 DEF Prepare
  <2>3. KeysPinned' /\ Issuances'
    BY <2>1, <2>2, IssuancesStay DEF Follows
  <2>4. answered' \subseteq Answered(db')
    BY <2>1, AnswersStay DEF Follows
  <2> QED
    BY <2>1, <2>3, <2>4, IInvParts DEF IInv, Follows
<1>2. ASSUME NEW now \in Times, NEW ids \in FreshIds(Len(c.books)),
             BatchUnits(c.books) <= c.maxUnits, UNCHANGED <<db, keys, answered>>,
             pending' = [pending EXCEPT ![w] = [call |-> c, now |-> now, ids |-> ids, kid |-> 0]]
      PROVE  IInv' /\ Follows(db, db') /\ db' = db
  <2>1. PICK p : p = [call |-> c, now |-> now, ids |-> ids, kid |-> 0]
    OBVIOUS
  <2>2. p.call = c /\ p.now = now /\ p.ids = ids /\ p.kid = 0
    BY <2>1
  <2>3. /\ ids \in Seq(BookIds) /\ Len(ids) = Len(c.books)
        /\ \A i, j \in DOMAIN ids : ids[i] = ids[j] => i = j
        /\ \A i \in DOMAIN ids : ids[i] \notin DOMAIN db.books
        /\ \A v \in Workers : pending[v] # Idle => \A i \in DOMAIN ids : ids[i] \notin Ids(pending[v])
    BY IdsFresh
  <2>4. Sound(p)
    <3>1. 0 \in 0 .. LastEpoch
      BY HttpLedgerAssumption DEF Positive
    <3>2. p \in Prepared
      BY <2>1, <2>3, <3>1 DEF Prepared
    <3> QED
      BY <1>2, <2>2, <2>3, <3>2 DEF Sound
  <2>5. /\ Ids(p) \cap DOMAIN db.books = {}
        /\ \A v \in Workers : pending[v] # Idle => Ids(p) \cap Ids(pending[v]) = {}
    BY <2>2, <2>3 DEF Ids
  <2>6. /\ pending' = [v \in Workers |-> pending'[v]] /\ pending'[w] = p
        /\ \A v \in Workers : v # w => pending'[v] = pending[v]
    BY <1>2, <2>1 DEF IInv
  <2>7. ASSUME NEW v \in Workers
        PROVE  InProgress(v)'
    <3>1. CASE v = w
      <4>1. pending'[v] = p
        BY <2>6, <3>1
      <4>2. \A x \in Workers : x # v /\ pending'[x] # Idle => Ids(pending'[x]) \cap Ids(p) = {}
        BY <2>5, <2>6, <3>1
      <4> QED
        BY <1>2, <2>2, <2>4, <2>5, <4>1, <4>2 DEF InProgress
    <3>2. CASE v # w
      <4>1. pending'[v] = pending[v] /\ InProgress(v)
        BY <2>6, <3>2 DEF IInv
      <4>2. CASE pending[v] = Idle
        BY <4>1, <4>2 DEF InProgress
      <4>3. CASE pending[v] # Idle
        <5>1. \A x \in Workers : x # v /\ pending'[x] # Idle =>
                Ids(pending'[x]) \cap Ids(pending[v]) = {}
          BY <2>5, <2>6, <3>2, <4>1, <4>3 DEF InProgress
        <5> QED
          BY <1>2, <4>1, <4>3, <5>1 DEF InProgress
      <4> QED
        BY <4>2, <4>3
    <3> QED
      BY <3>1, <3>2
  <2>8. KeysPinned'
    BY <1>2 DEF IInv, KeysPinned
  <2>9. Follows(db, db')
    BY <1>2, FollowsItself
  <2> QED
    BY <1>2, <2>6, <2>7, <2>8, <2>9 DEF IInv
<1> QED
  BY <1>1, <1>2 DEF Prepare

\* An issuance that ends, or is signed, keeps its ids to itself.
LEMMA IssuanceMoves ==
  ASSUME IInv, NEW w \in Workers, pending[w] # Idle, NEW result,
         pending' = [pending EXCEPT ![w] = result],
         result # Idle => /\ Sound(result) /\ result.ids = pending[w].ids
                          /\ result.kid \in keys.pins,
         UNCHANGED <<db, keys>>
  PROVE  KeysPinned' /\ Issuances'
<1>1. /\ pending' = [v \in Workers |-> pending'[v]] /\ pending'[w] = result
      /\ \A v \in Workers : v # w => pending'[v] = pending[v]
  BY DEF IInv
<1>2. \A v \in Workers : pending'[v] # Idle =>
        pending[v] # Idle /\ Ids(pending'[v]) = Ids(pending[v])
  BY <1>1 DEF Ids
<1>3. ASSUME NEW v \in Workers, pending'[v] # Idle
      PROVE  /\ Ids(pending'[v]) \cap DOMAIN db'.books = {}
             /\ \A x \in Workers : x # v /\ pending'[x] # Idle =>
                  Ids(pending'[x]) \cap Ids(pending'[v]) = {}
  <2>1. /\ Ids(pending[v]) \cap DOMAIN db.books = {}
        /\ \A x \in Workers : x # v /\ pending[x] # Idle => Ids(pending[x]) \cap Ids(pending[v]) = {}
    BY <1>2, <1>3 DEF IInv, InProgress
  <2> QED
    BY <1>2, <1>3, <2>1
<1>4. ASSUME NEW v \in Workers, pending'[v] # Idle
      PROVE  Sound(pending'[v]) /\ (pending'[v].kid # 0 => pending'[v].kid \in keys'.pins)
  <2>1. CASE v = w
    BY <1>1, <1>4, <2>1
  <2>2. CASE v # w
    BY <1>1, <1>4, <2>2 DEF IInv, InProgress
  <2> QED
    BY <2>1, <2>2
<1>5. \A v \in Workers : InProgress(v)'
  BY <1>3, <1>4 DEF InProgress
<1>6. KeysPinned'
  BY DEF IInv, KeysPinned
<1> QED
  BY <1>1, <1>5, <1>6 DEF Issuances

\* and the second, which writes nothing either.
LEMMA SignStep ==
  ASSUME IInv, NEW w \in Workers, Sign(w)
  PROVE  IInv' /\ Follows(db, db') /\ db' = db
<1>1. PICK result \in {Idle, [pending[w] EXCEPT !.kid = keys.epoch]} :
        pending' = [pending EXCEPT ![w] = result]
  BY DEF Sign
<1>2. /\ pending[w] # Idle /\ db' = db /\ keys' = keys /\ answered' = answered
      /\ keys.epoch \in keys.pins /\ keys.epoch \in 0 .. LastEpoch
  <2>1. keys.epoch \in keys.pins /\ keys.epoch \in Kids
    BY DEF IInv, KeysPinned
  <2> QED
    BY <2>1, HttpLedgerAssumption DEF Sign, Kids, Positive
<1>3. ASSUME result # Idle
      PROVE  Sound(result) /\ result.ids = pending[w].ids /\ result.kid \in keys.pins
  <2>1. PICK p : p = pending[w]
    OBVIOUS
  <2>2. Sound(p) /\ p \in Prepared
    BY <1>2, <2>1 DEF IInv, InProgress, Sound
  <2>3. result = [p EXCEPT !.kid = keys.epoch]
    BY <1>1, <1>3, <2>1
  <2>4. /\ result \in Prepared /\ result.kid = keys.epoch /\ result.ids = p.ids
        /\ result.call = p.call
    BY <1>2, <2>2, <2>3 DEF Prepared
  <2> QED
    BY <1>2, <2>1, <2>2, <2>4 DEF Sound
<1>4. KeysPinned' /\ Issuances'
  BY <1>1, <1>2, <1>3, IssuanceMoves
<1>5. Follows(db, db')
  BY <1>2, FollowsItself
<1> QED
  BY <1>2, <1>4, <1>5, IInvParts DEF IInv, Answered

\* A new batch has the ids of its issuance, which no other issuance holds.
LEMMA BatchEnds ==
  ASSUME IInv, NEW w \in Workers, pending[w] # Idle, pending[w].kid # 0, NEW units,
         Sold(db, db', pending[w], units), keys' = keys,
         pending' = [pending EXCEPT ![w] = Idle]
  PROVE  KeysPinned' /\ Issuances'
<1>1. /\ pending' = [v \in Workers |-> pending'[v]] /\ pending'[w] = Idle
      /\ \A v \in Workers : v # w => pending'[v] = pending[v]
  BY DEF IInv
<1>2. PICK p : p = pending[w]
  OBVIOUS
<1>3. /\ Sound(p) /\ p.kid \in keys.pins /\ p.kid \in Kids
      /\ \A v \in Workers : v # w /\ pending[v] # Idle => Ids(pending[v]) \cap Ids(p) = {}
  BY <1>2 DEF IInv, InProgress, KeysPinned
<1>4. DOMAIN db'.books = DOMAIN db.books \cup Ids(p) /\ BatchIn(db', p)
  BY <1>2, <1>3, BatchRows
<1>5. KeysPinned'
  <2>1. \A b \in Ids(p) : db'.books[b].kid = p.kid
    BY <1>4 DEF BatchIn, Ids
  <2>2. \A b \in DOMAIN db.books : db'.books[b].kid = db.books[b].kid
    BY DEF Sold
  <2> QED
    BY <1>3, <1>4, <2>1, <2>2 DEF IInv, KeysPinned
<1>6. ASSUME NEW v \in Workers
      PROVE  InProgress(v)'
  <2>1. CASE pending'[v] = Idle
    BY <2>1 DEF InProgress
  <2>2. CASE pending'[v] # Idle
    <3>1. v # w /\ pending'[v] = pending[v] /\ pending[v] # Idle
      BY <1>1, <2>2
    <3>2. /\ Sound(pending[v]) /\ (pending[v].kid # 0 => pending[v].kid \in keys.pins)
          /\ Ids(pending[v]) \cap DOMAIN db.books = {}
          /\ \A x \in Workers : x # v /\ pending[x] # Idle => Ids(pending[x]) \cap Ids(pending[v]) = {}
      BY <3>1 DEF IInv, InProgress
    <3>3. Ids(pending[v]) \cap DOMAIN db'.books = {}
      BY <1>3, <1>4, <3>1, <3>2
    <3>4. \A x \in Workers : x # v /\ pending'[x] # Idle =>
            Ids(pending'[x]) \cap Ids(pending[v]) = {}
      BY <1>1, <3>2
    <3> QED
      BY <3>1, <3>2, <3>3, <3>4 DEF InProgress
  <2> QED
    BY <2>1, <2>2
<1> QED
  BY <1>1, <1>5, <1>6 DEF Issuances

\* What passes the checks of the third step is fit to be committed now,
LEMMA PendingCommits ==
  ASSUME IInv, NEW w \in Workers, pending[w] # Idle, pending[w].kid # 0,
         NEW clock, Reservable(pending[w], clock)
  PROVE  Committable(db, pending[w]) /\ pending[w].kid \notin db.revoked
<1>1. /\ Sound(pending[w]) /\ Ids(pending[w]) \cap DOMAIN db.books = {}
      /\ pending[w].kid \in Kids
  BY DEF IInv, InProgress, KeysPinned
<1>2. /\ Prior(db.issues, pending[w].call) = {} /\ pending[w].kid \notin db.revoked
      /\ BatchUnits(pending[w].call.books) <= db.accounts[pending[w].call.buyer].available
  BY DEF Reservable, StillNew, KeyInForce, StillFunded
<1> QED
  BY <1>1, <1>2 DEF Committable

\* so the third step keeps the invariant.
LEMMA ReserveStep ==
  ASSUME IInv, NEW w \in Workers, Reserve(w)
  PROVE  IInv' /\ Follows(db, db')
<1>1. /\ pending[w] # Idle /\ pending[w].kid # 0 /\ keys' = keys
      /\ pending' = [pending EXCEPT ![w] = Idle]
  BY DEF Reserve
<1>2. CASE db' = db /\ answered' \subseteq answered \cup Answered(db')
  <2>1. KeysPinned' /\ Issuances'
    BY <1>1, <1>2, IssuanceMoves
  <2>2. Follows(db, db')
    BY <1>2, FollowsItself
  <2>3. answered' \subseteq Answered(db')
    BY <1>2, <2>2, AnswersStay DEF Follows
  <2> QED
    BY <1>2, <2>1, <2>2, <2>3, IInvParts DEF IInv
<1>3. ASSUME NEW clock \in Times, Reservable(pending[w], clock), db' = AfterIssue(pending[w]),
             Send([call |-> pending[w].call, books |-> pending[w].ids])
      PROVE  IInv' /\ Follows(db, db')
  <2>1. PICK p, units : p = pending[w] /\ units = BatchUnits(p.call.books)
    OBVIOUS
  <2>2. Committable(db, p) /\ p.kid \notin db.revoked
    BY <1>1, <1>3, <2>1, PendingCommits
  <2>3. DbInv(db') /\ Sold(db, db', p, units)
    BY <1>3, <2>1, <2>2, IssueKeeps DEF IInv
  <2>4. Follows(db, db')
    BY <2>2, <2>3, IssueFollows DEF IInv, DbInv, MoneyInv, Committable
  <2>5. KeysPinned' /\ Issuances'
    BY <1>1, <2>1, <2>3, BatchEnds
  <2>6. answered' \subseteq answered \cup Answered(db')
    BY <1>3, <2>1, <2>3 DEF Send, Sold, Answered
  <2>7. answered' \subseteq Answered(db')
    BY <2>4, <2>6, AnswersStay DEF Follows
  <2> QED
    BY <2>3, <2>4, <2>5, <2>7, IInvParts DEF IInv, Follows
<1>4. CASE AnswerPrior(db.issues, pending[w].call)
  <2>1. db' = db /\ answered' \subseteq answered \cup Answered(db')
    BY <1>4, PriorAnswered
  <2> QED
    BY <1>2, <2>1
<1>5. CASE UNCHANGED <<db, answered>>
  BY <1>2, <1>5
<1> QED
  BY <1>3, <1>4, <1>5 DEF Reserve

\* What passes the checks of a spend can be charged.
LEMMA SpendCharges ==
  ASSUME IInv, NEW c \in SpendCall, NEW token, NEW clock, NEW from, NoPriorReceipt(c),
         \/ from = "reserved" /\ c.book # NoBook /\ Spendable(c, token, clock)
         \/ from = "available" /\ c.book = NoBook
            /\ Catalog[c.resource] <= db.accounts[c.buyer].available
  PROVE  /\ Chargeable(db, c, from)
         /\ c.book # NoBook => db.books[c.book].kid \notin db.revoked
<1>1. CASE from = "reserved" /\ c.book # NoBook /\ Spendable(c, token, clock)
  <2>1. /\ c.book \in DOMAIN db.books /\ db.books[c.book].buyer = c.buyer
        /\ ~db.books[c.book].closed /\ db.books[c.book].kid \notin db.revoked
        /\ c.resource \in db.books[c.book].items
        /\ \A x \in db.receipts : x.call.book # c.book \/ x.call.resource # c.resource
    BY <1>1 DEF Spendable, OwnBooks, Unclosed, KeyInForce, ItemUnspent
  <2> QED
    BY <1>1, <2>1 DEF Chargeable, Held, NoPriorReceipt
<1>2. CASE from = "available" /\ c.book = NoBook
           /\ Catalog[c.resource] <= db.accounts[c.buyer].available
  BY <1>2 DEF Chargeable, NoPriorReceipt
<1> QED
  BY <1>1, <1>2

\* Spend either answers an old receipt or charges for a new one.
Charges(c, from, at) ==
  /\ Chargeable(db, c, from) /\ (c.book # NoBook => db.books[c.book].kid \notin db.revoked)
  /\ db' = AfterSpend(c, from, at)
  /\ Send(NewReceipt(c, at))

\* A spend is an earlier answer, or a charge to one of two amounts.
LEMMA SpendParts ==
  ASSUME IInv, NEW c \in SpendCall, NEW token, Spend(c, token)
  PROVE  \/ AnswerPrior(db.receipts, c)
         \/ \E from \in {"available", "reserved"} : \E at \in Nat : Charges(c, from, at)
<1>1. CASE AnswerPrior(db.receipts, c)
  BY <1>1
<1>2. ASSUME NoPriorReceipt(c), NEW clock \in Times, NEW at \in Times,
             NEW from \in {"reserved", "available"},
             \/ from = "reserved" /\ c.book # NoBook /\ Spendable(c, token, clock)
             \/ from = "available" /\ c.book = NoBook
                /\ Catalog[c.resource] <= db.accounts[c.buyer].available,
             db' = AfterSpend(c, from, at),
             Send([call |-> c, units |-> Catalog[c.resource], at |-> at])
      PROVE  at \in Nat /\ Charges(c, from, at)
  <2>1. Chargeable(db, c, from) /\ (c.book # NoBook => db.books[c.book].kid \notin db.revoked)
    BY <1>2, SpendCharges
  <2>2. at \in Nat
    BY HttpLedgerAssumption
  <2> QED
    BY <1>2, <2>1, <2>2 DEF Charges, NewReceipt
<1> QED
  BY <1>1, <1>2 DEF Spend

\* A spend keeps the invariant.
LEMMA SpendStep ==
  ASSUME IInv, NEW c \in SpendCall, NEW token, Spend(c, token)
  PROVE  IInv' /\ Follows(db, db')
<1>1. keys' = keys /\ pending' = pending
  BY DEF Spend
<1>2. CASE AnswerPrior(db.receipts, c)
  <2>1. db' = db /\ answered' \subseteq answered \cup Answered(db') /\ DbInv(db') /\ Follows(db, db')
    BY <1>2, PriorAnswered
  <2>2. KeysPinned' /\ Issuances'
    BY <1>1, <2>1, IssuancesStay DEF Follows
  <2>3. answered' \subseteq Answered(db')
    BY <2>1, AnswersStay DEF Follows
  <2> QED
    BY <2>1, <2>2, <2>3, IInvParts DEF IInv, Follows
<1>3. ASSUME NEW from \in {"available", "reserved"}, NEW at \in Nat, Charges(c, from, at)
      PROVE  IInv' /\ Follows(db, db')
  <2>1. PICK units, x : units = Catalog[c.resource] /\ x = NewReceipt(c, at)
    OBVIOUS
  <2>2. /\ Chargeable(db, c, from) /\ db' = AfterSpend(c, from, at)
        /\ (c.book # NoBook => db.books[c.book].kid \notin db.revoked)
    BY <1>3 DEF Charges
  <2>3. DbInv(db') /\ Paid(db, db', c, from, units, x)
    BY <2>1, <2>2, SpendKeeps DEF IInv
  <2>4. MoneyInv(db) /\ x.call = c
    BY <2>1 DEF IInv, DbInv, NewReceipt
  <2>5. Follows(db, db')
    BY <2>1, <2>2, <2>3, <2>4, SpendFollows
  <2>6. TookFrom(db, db', c, units)
    BY <2>1, <2>2, <2>3, <2>4, BookPays
  <2>7. KeysPinned' /\ Issuances'
    BY <1>1, <2>5, <2>6, IssuancesStay DEF Follows, TookFrom
  <2>8. answered' \subseteq answered \cup Answered(db')
    BY <1>3, <2>1, <2>3 DEF Charges, Send, Paid, Answered
  <2>9. answered' \subseteq Answered(db')
    BY <2>5, <2>8, AnswersStay DEF Follows
  <2> QED
    BY <2>3, <2>5, <2>7, <2>9, IInvParts DEF IInv, Follows
<1> QED
  BY <1>2, <1>3, SpendParts

\* A cancellation frees what the books of its caller hold.
Frees(u, bs, answers) ==
  /\ bs \subseteq Held(db, u) /\ answers \subseteq Cancellation
  /\ OneRow(db.cancellations \cup answers)
  /\ \/ db' = AfterCancel(u, bs) /\ answers = {}
     \/ db' = [AfterCancel(u, bs) EXCEPT !.cancellations = @ \cup answers]
  /\ answered' \subseteq answered \cup answers

\* Books given up keep the invariant.
LEMMA FreesStep ==
  ASSUME IInv, NEW u \in Buyers, NEW bs, NEW answers, Frees(u, bs, answers),
         keys' = keys, pending' = pending
  PROVE  IInv' /\ Follows(db, db')
<1>1. PICK units : units = Remaining(bs)
  OBVIOUS
<1>2. DbInv(db') /\ Freed(db, db', u, bs, units, answers)
  BY <1>1, CancelKeeps DEF IInv, Frees
<1>3. DbTypes(db)
  BY DEF IInv, DbInv, MoneyInv
<1>4. Follows(db, db')
  BY <1>2, <1>3, CancelFollows
<1>5. Shut(db, db', bs)
  BY <1>2, <1>3, BooksShut
<1>6. KeysPinned' /\ Issuances'
  BY <1>4, <1>5, IssuancesStay DEF Follows, Shut
<1>7. answered' \subseteq answered \cup Answered(db')
  BY <1>2 DEF Frees, Freed, Answered
<1>8. answered' \subseteq Answered(db')
  BY <1>4, <1>7, AnswersStay DEF Follows
<1> QED
  BY <1>2, <1>4, <1>6, <1>8, IInvParts DEF IInv, Follows

\* A cancellation of one book gives that book up,
LEMMA CancelFrees ==
  ASSUME IInv, NEW u \in Buyers, NEW b \in BookIds, Cancel(u, b)
  PROVE  Frees(u, {b}, {})
<1>1. {b} \subseteq Held(db, u)
  BY DEF Cancel, OwnBooks, Held
<1>2. OneRow(db.cancellations \cup {})
  <2>1. db.cancellations \cup {} = db.cancellations
    OBVIOUS
  <2> QED
    BY <2>1 DEF IInv, DbInv, OneAnswer
<1> QED
  BY <1>1, <1>2 DEF Cancel, Frees

\* and one of many books gives those up.
LEMMA CancelManyFrees ==
  ASSUME IInv, NEW c \in CancelCall, CancelMany(c), ~AnswerPrior(db.cancellations, c)
  PROVE  \E answers : Frees(c.buyer, c.books, answers)
<1>1. PICK answer : answer = [call |-> c, released |-> Remaining(c.books)]
  OBVIOUS
<1>2. /\ Prior(db.cancellations, c) = {} /\ OwnBooks(c.buyer, c.books)
      /\ db' = [AfterCancel(c.buyer, c.books) EXCEPT !.cancellations = @ \cup {answer}]
      /\ Send(answer)
  BY <1>1 DEF CancelMany
<1>3. c.books \subseteq Held(db, c.buyer) /\ c.buyer \in Buyers
  BY <1>2 DEF OwnBooks, Held, CancelCall
<1>4. answer.call = c
  BY <1>1
<1>5. OneRow(db.cancellations \cup {answer})
  BY <1>2, <1>4, OneRowMore DEF IInv, DbInv, OneAnswer
<1>6. {answer} \subseteq Cancellation
  <2>1. Remaining(c.books) \in Nat
    <3>1. PICK e : e = AfterCancel(c.buyer, c.books)
      OBVIOUS
    <3>2. db.cancellations \cup {} = db.cancellations
      OBVIOUS
    <3>3. OneRow(db.cancellations \cup {})
      BY <3>2 DEF IInv, DbInv, OneAnswer
    <3> QED
      BY <1>3, <3>1, <3>3, CancelKeeps DEF IInv
  <2> QED
    BY <1>1, <2>1 DEF Cancellation
<1>7. Frees(c.buyer, c.books, {answer})
  BY <1>2, <1>3, <1>5, <1>6 DEF Frees, Send
<1> QED
  BY <1>7

\* Both keep the invariant: of one book,
LEMMA CancelStep ==
  ASSUME IInv, NEW u \in Buyers, NEW b \in BookIds, Cancel(u, b)
  PROVE  IInv' /\ Follows(db, db')
<1>1. Frees(u, {b}, {})
  BY CancelFrees
<1>2. keys' = keys /\ pending' = pending
  BY DEF Cancel
<1> QED
  BY <1>1, <1>2, FreesStep

\* and of many.
LEMMA CancelManyStep ==
  ASSUME IInv, NEW c \in CancelCall, CancelMany(c)
  PROVE  IInv' /\ Follows(db, db')
<1>1. keys' = keys /\ pending' = pending /\ c.buyer \in Buyers
  BY DEF CancelMany, CancelCall
<1>2. CASE AnswerPrior(db.cancellations, c)
  <2>1. db' = db /\ answered' \subseteq answered \cup Answered(db') /\ DbInv(db') /\ Follows(db, db')
    BY <1>2, PriorAnswered
  <2>2. KeysPinned' /\ Issuances'
    BY <1>1, <2>1, IssuancesStay DEF Follows
  <2>3. answered' \subseteq Answered(db')
    BY <2>1, AnswersStay DEF Follows
  <2> QED
    BY <2>1, <2>2, <2>3, IInvParts DEF IInv, Follows
<1>3. CASE ~AnswerPrior(db.cancellations, c)
  <2>1. PICK answers : Frees(c.buyer, c.books, answers)
    BY <1>3, CancelManyFrees
  <2> QED
    BY <1>1, <2>1, FreesStep
<1> QED
  BY <1>2, <1>3

-------------------------------------------------------------------------------
\* The invariant holds at the start.
LEMMA LedgerInit == Init => IInv
<1> SUFFICES ASSUME Init PROVE IInv
  OBVIOUS
<1>1. /\ db = EmptyDb /\ keys = [epoch |-> 1, pins |-> {1}]
      /\ pending = [w \in Workers |-> Idle] /\ answered = {}
  BY DEF Init
<1>2. /\ Shape(db) /\ DOMAIN db.books = {} /\ db.issues = {} /\ db.receipts = {}
      /\ db.cancellations = {} /\ db.revoked = {} /\ db.accrued = 0
      /\ db.accounts = [u \in Buyers |-> [initial |-> 0, available |-> 0, reserved |-> 0,
                                          spent |-> 0]]
      /\ db.books \in [{} -> Book]
  BY <1>1 DEF EmptyDb, Shape
<1>3. DbTypes(db)
  <2>1. db.accounts \in [Buyers -> Account]
    BY <1>2 DEF Account
  <2>2. IsFiniteSet(DOMAIN db.books) /\ IsFiniteSet(db.receipts)
    BY <1>2, FS_EmptySet
  <2> QED
    BY <1>2, <2>1, <2>2 DEF DbTypes
<1>4. Audited(db)
  <2>1. \A u : Held(db, u) = {} /\ PaidBy(db, u) = {}
    BY <1>2 DEF Held, PaidBy
  <2>2. \A f : Total(f, {}) = 0
    BY TotalEmpty
  <2>3. /\ \A u : Total(Remains(db), Held(db, u)) = 0 /\ Total(UnitsIn(db), PaidBy(db, u)) = 0
        /\ Total(UnitsIn(db), db.receipts) = 0
    BY <1>2, <2>1, <2>2
  <2>4. \A u \in Buyers : /\ db.accounts[u].initial = 0 /\ db.accounts[u].available = 0
                          /\ db.accounts[u].reserved = 0 /\ db.accounts[u].spent = 0
    BY <1>2
  <2> QED
    BY <1>2, <2>3, <2>4 DEF Audited
<1>5. RemainingIsOpen(db) /\ ReceiptsMatch(db) /\ IssuesWhole(db) /\ OneAnswer(db) /\ Opened(db)
  BY <1>2 DEF RemainingIsOpen, ReceiptsMatch, IssuesWhole, OneAnswer, OneRow, Opened
<1>6. KeysPinned
  BY <1>1, <1>2, HttpLedgerAssumption DEF KeysPinned, Kids, Positive
<1>7. \A w \in Workers : InProgress(w)
  BY <1>1 DEF InProgress
<1> QED
  BY <1>1, <1>3, <1>4, <1>5, <1>6, <1>7 DEF IInv, DbInv, MoneyInv

\* Every step of the ledger keeps the invariant and takes nothing back.
LEMMA LedgerStep ==
  ASSUME IInv, [Next]_vars
  PROVE  IInv' /\ Follows(db, db')
<1>1. CASE Rotate
  BY <1>1, RotateStep
<1>2. CASE \E kid \in Kids : Revoke(kid)
  BY <1>2, RevokeStep
<1>3. CASE \E u \in Buyers, units \in Balances : Seed(u, units)
  BY <1>3, SeedStep
<1>4. CASE \E w \in Workers, c \in IssueCall : Prepare(w, c)
  BY <1>4, PrepareStep
<1>5. CASE \E w \in Workers : Sign(w) \/ Reserve(w)
  BY <1>5, SignStep, ReserveStep
<1>6. CASE \E c \in SpendCall, kid \in Kids : Spend(c, [book |-> c.book, kid |-> kid])
  BY <1>6, SpendStep
<1>7. CASE \E u \in Buyers, b \in BookIds : Cancel(u, b)
  BY <1>7, CancelStep
<1>8. CASE \E c \in CancelCall : CancelMany(c)
  BY <1>8, CancelManyStep
<1>9. CASE UNCHANGED vars
  <2>1. db' = db /\ keys' = keys /\ pending' = pending /\ answered' = answered
    BY <1>9 DEF vars
  <2>2. Follows(db, db')
    BY <2>1, FollowsItself
  <2>3. KeysPinned' /\ Issuances'
    BY <2>1, <2>2, IssuancesStay DEF Follows
  <2> QED
    BY <2>1, <2>2, <2>3, IInvParts DEF IInv, Answered
<1> QED
  BY <1>1, <1>2, <1>3, <1>4, <1>5, <1>6, <1>7, <1>8, <1>9 DEF Next

\* The ledger is in order, for any buyers, workers, batches and clocks.
THEOREM LedgerInOrder == Spec => []IInv
<1>1. IInv /\ [Next]_vars => IInv'
  BY LedgerStep
<1> QED
  BY LedgerInit, <1>1, PTL DEF Spec

\* At every moment audit() succeeds: what is reserved is what the books hold for
\* their unpaid resources, what is spent is what the receipts say, each for a
\* resource of a book of its buyer, and no amount is negative.
THEOREM MoneyInOrder == Spec => []MoneyAddsUp
<1>1. IInv => MoneyAddsUp
  <2> SUFFICES ASSUME IInv PROVE MoneyAddsUp
    OBVIOUS
  <2>1. DbInv(db) /\ MoneyInv(db) /\ DbTypes(db)
    BY DEF IInv, DbInv, MoneyInv
  <2>2. TypeOK
    <3>1. \A w \in Workers : pending[w] \in Pendings
      BY DEF IInv, InProgress, Sound, Prepared, Pendings
    <3> QED
      BY <2>1, <3>1 DEF TypeOK, DbTypes, Issuance, Receipt, Cancellation, IInv, KeysPinned
  <2>3. AuditHolds
    <3>1. \A S : S \subseteq DOMAIN db.books => Remaining(S) = Total(Remains(db), S)
      <4>1. ASSUME NEW S, S \subseteq DOMAIN db.books
            PROVE  Remaining(S) = Total(Remains(db), S)
        <5>1. PICK f, g : f = Remains(db) /\ g = [b \in S |-> db.books[b].remaining]
          OBVIOUS
        <5>2. \A b \in S : g[b] = f[b]
          BY <4>1, <5>1 DEF Remains
        <5> QED
          BY <5>1, <5>2, TotalSame DEF Remaining
      <4> QED
        BY <4>1
    <3>2. \A S : S \subseteq db.receipts => SpentOn(S) = Total(UnitsIn(db), S)
      <4>1. ASSUME NEW S, S \subseteq db.receipts
            PROVE  SpentOn(S) = Total(UnitsIn(db), S)
        <5>1. PICK f, g : f = UnitsIn(db) /\ g = [x \in S |-> x.units]
          OBVIOUS
        <5>2. \A x \in S : g[x] = f[x]
          BY <4>1, <5>1 DEF UnitsIn
        <5> QED
          BY <5>1, <5>2, TotalSame DEF SpentOn
      <4> QED
        BY <4>1
    <3>3. /\ \A u : BooksOf(u) = Held(db, u) /\ Held(db, u) \subseteq DOMAIN db.books
          /\ \A u : ReceiptsOf(u) = PaidBy(db, u) /\ PaidBy(db, u) \subseteq db.receipts
      BY DEF BooksOf, Held, ReceiptsOf, PaidBy
    <3> QED
      BY <2>1, <3>1, <3>2, <3>3 DEF AuditHolds, MoneyInv, Audited
  <2>4. RemainingIsUnspent
    BY <2>1 DEF MoneyInv, RemainingIsOpen, RemainingIsUnspent, Open, UnspentItems
  <2>5. ReceiptsMatchBooks
    BY <2>1 DEF MoneyInv, ReceiptsMatch, Matches, ReceiptsMatchBooks, Held, BooksOf
  <2> QED
    BY <2>2, <2>3, <2>4, <2>5 DEF MoneyAddsUp
<1> QED
  BY <1>1, LedgerInOrder, PTL

\* Whatever is committed while a batch is signed, an issuance is the batch that was
\* asked for, each book in one answer, and its tokens are by a pinned key.
THEOREM IssuesInOrder == Spec => []IssuesAreGood
<1>1. IInv => IssuesAreGood
  <2> SUFFICES ASSUME IInv PROVE IssuesAreGood
    OBVIOUS
  <2>1. IssuesAreWhole
    BY DEF IInv, DbInv, IssuesWhole, Whole, PlacedAt, IssuesAreWhole, Held, BooksOf
  <2>2. TokensVerifiable
    BY DEF IInv, KeysPinned, InProgress, TokensVerifiable
  <2> QED
    BY <2>1, <2>2 DEF IssuesAreGood
<1> QED
  BY <1>1, LedgerInOrder, PTL

\* What was answered for a request is one answer, and committed, through retries
\* and attempts of several workers at once.
THEOREM AnswersInOrder == Spec => []AnswersAgree
<1>1. IInv => AnswersAgree
  BY DEF IInv, DbInv, OneAnswer, OneRow, AnswersAgree
<1> QED
  BY <1>1, LedgerInOrder, PTL

\* A revoked key sells and spends nothing more, nor does a cancelled book, and no
\* answer is taken back.
THEOREM EndsFinal == Spec => EndsAreFinal
<1>1. IInv /\ [Next]_vars =>
        [/\ db.revoked \subseteq db'.revoked
         /\ \A b \in DOMAIN db'.books \ DOMAIN db.books : db'.books[b].kid \notin db.revoked
         /\ \A x \in db'.receipts \ db.receipts :
              x.call.book # NoBook => db.books[x.call.book].kid \notin db.revoked]_vars
  BY LedgerStep DEF Follows, RevocationHolds
<1>2. IInv /\ [Next]_vars =>
        [/\ db.issues \subseteq db'.issues
         /\ db.receipts \subseteq db'.receipts
         /\ db.cancellations \subseteq db'.cancellations
         /\ \A b \in DOMAIN db.books : db.books[b].closed =>
              /\ db'.books[b].closed
              /\ \A x \in db'.receipts \ db.receipts : x.call.book # b]_vars
  BY LedgerStep DEF Follows, CommittedStays
<1> QED
  BY <1>1, <1>2, LedgerInOrder, PTL DEF Spec, EndsAreFinal, RevocationIsFinal, CommittedIsPermanent

-------------------------------------------------------------------------------
\* The prepaid accounts and the grants that a database stands for.
Funds(d) == [u \in Buyers |-> [available |-> d.accounts[u].available,
                               reserved  |-> d.accounts[u].reserved,
                               spent     |-> d.accounts[u].spent]]

Grants(d) ==
  {[buyer |-> x.call.buyer, request |-> x.call.request, units |-> x.units] : x \in d.receipts}

\* No amount of an account exceeds the largest deposit.
LEMMA AmountsBounded ==
  ASSUME NEW d, MoneyInv(d), Opened(d), NEW u \in Buyers
  PROVE  /\ Largest \in Nat /\ \A n \in Balances : n <= Largest
         /\ d.accounts[u].available \in 0 .. Largest /\ d.accounts[u].reserved \in 0 .. Largest
<1>1. Largest \in Balances /\ \A n \in Balances : n <= Largest
  <2>1. \E m \in Balances : \A n \in Balances : n <= m
    BY HttpLedgerAssumption
  <2> QED
    BY <2>1 DEF Largest
<1>2. Largest \in Nat
  BY <1>1, HttpLedgerAssumption DEF Positive
<1>3. /\ d.accounts[u].initial =
           d.accounts[u].available + d.accounts[u].reserved + d.accounts[u].spent
      /\ d.accounts[u] \in Account
  BY DEF MoneyInv, DbTypes, Audited
<1>4. /\ d.accounts[u].available \in Nat /\ d.accounts[u].reserved \in Nat
      /\ d.accounts[u].spent \in Nat /\ d.accounts[u].initial \in Nat
  BY <1>3 DEF Account
<1>5. d.accounts[u].initial <= Largest
  <2>1. PICK i, m : i = d.accounts[u].initial /\ m = Largest
    OBVIOUS
  <2>2. i = 0 \/ i \in Balances
    BY <2>1 DEF Opened
  <2>3. CASE i = 0
    BY <1>2, <2>1, <2>3
  <2>4. CASE i \in Balances
    BY <1>1, <2>1, <2>4
  <2> QED
    BY <2>2, <2>3, <2>4
<1> QED
  BY <1>1, <1>2, <1>3, <1>4, <1>5

\* The moves of a prepaid account.
Reserves(u, n) ==
  /\ n \in 0 .. Largest /\ n <= Funds(db)[u].available
  /\ Funds(db') = [Funds(db) EXCEPT ![u] = [available |-> Funds(db)[u].available - n,
                                            reserved  |-> Funds(db)[u].reserved + n,
                                            spent     |-> Funds(db)[u].spent]]
  /\ Grants(db') = Grants(db)

Releases(u, n) ==
  /\ n \in 0 .. Largest /\ n <= Funds(db)[u].reserved
  /\ Funds(db') = [Funds(db) EXCEPT ![u] = [available |-> Funds(db)[u].available + n,
                                            reserved  |-> Funds(db)[u].reserved - n,
                                            spent     |-> Funds(db)[u].spent]]
  /\ Grants(db') = Grants(db)

Grows(u, q, n) ==
  /\ \A x \in Grants(db) : x.buyer # u \/ x.request # q
  /\ Grants(db') = Grants(db) \cup {[buyer |-> u, request |-> q, units |-> n]}

SpendsReserved(u, q, n) ==
  /\ n \in 0 .. Largest /\ n <= Funds(db)[u].reserved
  /\ Funds(db') = [Funds(db) EXCEPT ![u] = [available |-> Funds(db)[u].available,
                                            reserved  |-> Funds(db)[u].reserved - n,
                                            spent     |-> Funds(db)[u].spent + n]]
  /\ Grows(u, q, n)

SpendsAvailable(u, q, n) ==
  /\ n \in 0 .. Largest /\ n <= Funds(db)[u].available
  /\ Funds(db') = [Funds(db) EXCEPT ![u] = [available |-> Funds(db)[u].available - n,
                                            reserved  |-> Funds(db)[u].reserved,
                                            spent     |-> Funds(db)[u].spent + n]]
  /\ Grows(u, q, n)

\* A reservation, a release and both ways to spend are steps of a prepaid account.
LEMMA PrepaidMoves ==
  ASSUME NEW u \in Buyers, NEW n
  PROVE  /\ Reserves(u, n) => Prepaid!Next
         /\ Releases(u, n) => Prepaid!Next
         /\ \A q \in Requests : SpendsReserved(u, q, n) \/ SpendsAvailable(u, q, n) => Prepaid!Next
<1>1. ASSUME Reserves(u, n)
      PROVE  Prepaid!Reserve(u, n)
  BY <1>1 DEF Reserves, Funds, Grants, Prepaid!Reserve, Prepaid!Move
<1>2. ASSUME Releases(u, n)
      PROVE  Prepaid!Release(u, n)
  BY <1>2 DEF Releases, Funds, Grants, Prepaid!Release, Prepaid!Move
<1>3. ASSUME NEW q \in Requests, SpendsReserved(u, q, n)
      PROVE  Prepaid!SpendReserved(u, q, n)
  BY <1>3 DEF SpendsReserved, Grows, Funds, Grants, Prepaid!SpendReserved, Prepaid!Move,
              Prepaid!Grant
<1>4. ASSUME NEW q \in Requests, SpendsAvailable(u, q, n)
      PROVE  Prepaid!SpendAvailable(u, q, n)
  BY <1>4 DEF SpendsAvailable, Grows, Funds, Grants, Prepaid!SpendAvailable, Prepaid!Move,
              Prepaid!Grant
<1> QED
  BY <1>1, <1>2, <1>3, <1>4 DEF Prepaid!Next, Reserves, Releases, SpendsReserved, SpendsAvailable

\* What becomes of an account becomes of its funds.
LEMMA FundsMove ==
  ASSUME NEW d, d.accounts \in [Buyers -> Account], NEW u \in Buyers, NEW account, NEW e,
         e.accounts = [d.accounts EXCEPT ![u] = account], NEW f, f = Funds(d)
  PROVE  /\ f[u].available = d.accounts[u].available /\ f[u].reserved = d.accounts[u].reserved
         /\ f[u].spent = d.accounts[u].spent
         /\ Funds(e) = [f EXCEPT ![u] = [available |-> account.available,
                                         reserved  |-> account.reserved,
                                         spent     |-> account.spent]]
<1>1. PICK g : g = Funds(e)
  OBVIOUS
<1>2. e.accounts[u] = account /\ \A v \in Buyers : v # u => e.accounts[v] = d.accounts[v]
  OBVIOUS
<1>3. \A v \in Buyers : v # u => g[v] = f[v]
  BY <1>1, <1>2 DEF Funds
<1>4. g[u] = [available |-> account.available, reserved |-> account.reserved,
              spent |-> account.spent]
  BY <1>1, <1>2 DEF Funds
<1>5. f = [v \in Buyers |-> f[v]] /\ g = [v \in Buyers |-> g[v]]
  BY <1>1 DEF Funds
<1>6. g = [f EXCEPT ![u] = [available |-> account.available, reserved |-> account.reserved,
                            spent |-> account.spent]]
  BY <1>3, <1>4, <1>5
<1>7. /\ f[u].available = d.accounts[u].available /\ f[u].reserved = d.accounts[u].reserved
      /\ f[u].spent = d.accounts[u].spent
  BY DEF Funds
<1> QED
  BY <1>1, <1>6, <1>7

\* A deposit is a step of a prepaid account.
LEMMA SeedPrepaid ==
  ASSUME IInv, NEW u \in Buyers, NEW units \in Balances, Seed(u, units)
  PROVE  Prepaid!Next
<1>1. /\ DbInv(db) /\ MoneyInv(db) /\ Opened(db) /\ db.accounts \in [Buyers -> Account]
      /\ db.accounts[u].initial = 0
      /\ db' = [db EXCEPT !.accounts[u].initial = units, !.accounts[u].available = units]
  BY DEF IInv, DbInv, MoneyInv, DbTypes, Seed
<1>2. Deposits(db, db', u, units)
  BY <1>1, SeedKeeps
<1>3. units \in 0 .. Largest
  BY <1>1, AmountsBounded, HttpLedgerAssumption DEF Positive
<1>4. PICK account, f :
        /\ account = [initial |-> units, available |-> units, reserved |-> 0, spent |-> 0]
        /\ f = Funds(db)
  OBVIOUS
<1>5. db'.accounts = [db.accounts EXCEPT ![u] = account]
  BY <1>2, <1>4 DEF Deposits
<1>6. /\ f[u].available = db.accounts[u].available /\ f[u].reserved = db.accounts[u].reserved
      /\ f[u].spent = db.accounts[u].spent
      /\ Funds(db') = [f EXCEPT ![u] = [available |-> account.available,
                                        reserved  |-> account.reserved,
                                        spent     |-> account.spent]]
  <2>1. db.accounts \in [Buyers -> Account]
    BY <1>1
  <2> QED
    BY <1>4, <1>5, <2>1, FundsMove
<1>7. f[u] = [available |-> 0, reserved |-> 0, spent |-> 0]
  BY <1>2, <1>4 DEF Deposits, Funds
<1>8. account.available = units /\ account.reserved = 0 /\ account.spent = 0
  BY <1>4
<1>9. f = [v \in Buyers |-> f[v]]
  BY <1>4 DEF Funds
<1>10. PICK g : g = Funds(db') /\ g = [f EXCEPT ![u].available = units]
  <2>1. PICK g : g = Funds(db')
    OBVIOUS
  <2>2. g = [f EXCEPT ![u] = [available |-> units, reserved |-> 0, spent |-> 0]]
    BY <1>6, <1>8, <2>1
  <2>3. [f[u] EXCEPT !.available = units] = [available |-> units, reserved |-> 0, spent |-> 0]
    BY <1>7
  <2> QED
    BY <1>9, <2>1, <2>2, <2>3
<1>11. Grants(db') = Grants(db)
  BY <1>2 DEF Deposits, Grants
<1>12. Prepaid!Deposit(u, units)
  BY <1>4, <1>7, <1>10, <1>11 DEF Funds, Grants, Prepaid!Deposit, Prepaid!Unopened
<1> QED
  BY <1>3, <1>12 DEF Prepaid!Next

\* The third step of an issuance reserves for its buyer, or writes nothing.
LEMMA BatchReserves ==
  ASSUME IInv, NEW w \in Workers, Reserve(w)
  PROVE  db' = db \/ \E u \in Buyers : \E n : Reserves(u, n)
<1>1. CASE db' = db
  BY <1>1
<1>2. ASSUME NEW clock \in Times, Reservable(pending[w], clock), db' = AfterIssue(pending[w])
      PROVE  \E u \in Buyers : \E n : Reserves(u, n)
  <2>1. PICK p, u, n : p = pending[w] /\ u = p.call.buyer /\ n = BatchUnits(p.call.books)
    OBVIOUS
  <2>2. Committable(db, p)
    BY <1>2, <2>1, PendingCommits DEF Reserve
  <2>3. Sold(db, db', p, n)
    BY <1>2, <2>1, <2>2, IssueKeeps DEF IInv
  <2>4. MoneyInv(db) /\ Opened(db) /\ u \in Buyers /\ db.accounts \in [Buyers -> Account]
    BY <2>1, <2>2, BatchFacts DEF IInv, DbInv, MoneyInv, DbTypes, Committable
  <2>5. n \in Nat /\ n <= db.accounts[u].available
    <3>1. PICK g : g = Remains(db')
      OBVIOUS
    <3>2. BatchIn(db', p)
      BY <2>2, <2>3, BatchRows DEF Committable
    <3>3. \A i \in DOMAIN p.ids : g[p.ids[i]] = Units(p.call.books[i])
      BY <3>1, <3>2 DEF BatchIn, Remains
    <3> QED
      BY <2>1, <2>2, <3>3, BatchCosts DEF Committable
  <2>6. n \in 0 .. Largest
    BY <2>4, <2>5, AmountsBounded DEF Account
  <2>7. PICK account, f :
          /\ account = [initial |-> db.accounts[u].initial,
                        available |-> db.accounts[u].available - n,
                        reserved |-> db.accounts[u].reserved + n,
                        spent |-> db.accounts[u].spent]
          /\ f = Funds(db)
    OBVIOUS
  <2>8. db'.accounts = [db.accounts EXCEPT ![u] = account]
    BY <2>1, <2>3, <2>7 DEF Sold
  <2>9. /\ f[u].available = db.accounts[u].available /\ f[u].reserved = db.accounts[u].reserved
        /\ f[u].spent = db.accounts[u].spent
        /\ Funds(db') = [f EXCEPT ![u] = [available |-> account.available,
                                          reserved  |-> account.reserved,
                                          spent     |-> account.spent]]
    BY <2>4, <2>7, <2>8, FundsMove
  <2>10. /\ account.available = f[u].available - n /\ account.reserved = f[u].reserved + n
         /\ account.spent = f[u].spent /\ n <= f[u].available
    BY <2>5, <2>7, <2>9
  <2>11. Grants(db') = Grants(db)
    BY <2>3 DEF Sold, Grants
  <2> QED
    BY <2>4, <2>6, <2>7, <2>9, <2>10, <2>11 DEF Reserves
<1> QED
  BY <1>1, <1>2 DEF Reserve, AnswerPrior

\* Books given up release units of their buyer.
LEMMA CancelReleases ==
  ASSUME IInv, NEW u \in Buyers, NEW bs, NEW answers, Frees(u, bs, answers)
  PROVE  \E n : Releases(u, n)
<1>1. PICK n : n = Remaining(bs)
  OBVIOUS
<1>2. Freed(db, db', u, bs, n, answers) /\ n \in Nat /\ n <= db.accounts[u].reserved
  BY <1>1, CancelKeeps DEF IInv, Frees
<1>3. MoneyInv(db) /\ Opened(db) /\ db.accounts \in [Buyers -> Account]
  BY DEF IInv, DbInv, MoneyInv, DbTypes
<1>4. n \in 0 .. Largest
  BY <1>2, <1>3, AmountsBounded DEF Account
<1>5. PICK account, f :
        /\ account = [initial |-> db.accounts[u].initial,
                      available |-> db.accounts[u].available + n,
                      reserved |-> db.accounts[u].reserved - n,
                      spent |-> db.accounts[u].spent]
        /\ f = Funds(db)
  OBVIOUS
<1>6. db'.accounts = [db.accounts EXCEPT ![u] = account]
  BY <1>2, <1>5 DEF Freed
<1>7. /\ f[u].available = db.accounts[u].available /\ f[u].reserved = db.accounts[u].reserved
      /\ f[u].spent = db.accounts[u].spent
      /\ Funds(db') = [f EXCEPT ![u] = [available |-> account.available,
                                        reserved  |-> account.reserved,
                                        spent     |-> account.spent]]
  BY <1>3, <1>5, <1>6, FundsMove
<1>8. /\ account.available = f[u].available + n /\ account.reserved = f[u].reserved - n
      /\ account.spent = f[u].spent /\ n <= f[u].reserved
  BY <1>2, <1>5, <1>7
<1>9. Grants(db') = Grants(db)
  BY <1>2 DEF Freed, Grants
<1> QED
  BY <1>4, <1>5, <1>7, <1>8, <1>9 DEF Releases

\* A new receipt is the one grant of its request.
LEMMA ReceiptGrants ==
  ASSUME NEW c, Prior(db.receipts, c) = {}, NEW at,
         db'.receipts = db.receipts \cup {NewReceipt(c, at)}
  PROVE  Grows(c.buyer, c.request, Catalog[c.resource])
<1>1. \A x \in Grants(db) : x.buyer # c.buyer \/ x.request # c.request
  BY DEF Grants, Prior
<1>2. PICK x : x = NewReceipt(c, at)
  OBVIOUS
<1>3. x.call = c /\ x.units = Catalog[c.resource]
  BY <1>2 DEF NewReceipt
<1>4. Grants(db') = Grants(db) \cup
        {[buyer |-> x.call.buyer, request |-> x.call.request, units |-> x.units]}
  BY <1>2 DEF Grants
<1> QED
  BY <1>1, <1>3, <1>4 DEF Grows

\* A charge spends units of its buyer under its request.
LEMMA SpendPays ==
  ASSUME IInv, NEW c \in SpendCall, NEW from \in {"available", "reserved"}, NEW at \in Nat,
         Charges(c, from, at)
  PROVE  \E n : SpendsReserved(c.buyer, c.request, n) \/ SpendsAvailable(c.buyer, c.request, n)
<1>1. PICK n, u, q : n = Catalog[c.resource] /\ u = c.buyer /\ q = c.request
  OBVIOUS
<1>2. /\ DbInv(db) /\ MoneyInv(db) /\ Opened(db) /\ db.accounts \in [Buyers -> Account]
      /\ u \in Buyers /\ db.accounts[u] \in Account /\ Chargeable(db, c, from)
      /\ db' = AfterSpend(c, from, at)
  BY <1>1 DEF IInv, DbInv, MoneyInv, DbTypes, SpendCall, Charges
<1>3. Paid(db, db', c, from, n, NewReceipt(c, at))
  BY <1>1, <1>2, SpendKeeps
<1>4. n \in Nat
  BY <1>1, HttpLedgerAssumption DEF SpendCall, Positive
<1>5. Grows(u, q, n)
  <2>1. Prior(db.receipts, c) = {}
    BY <1>2 DEF Chargeable
  <2>2. db'.receipts = db.receipts \cup {NewReceipt(c, at)}
    BY <1>3 DEF Paid
  <2>3. Grows(c.buyer, c.request, Catalog[c.resource])
    BY <2>1, <2>2, ReceiptGrants
  <2> QED
    BY <1>1, <2>3
<1>6. PICK account, f :
        /\ account = [initial |-> db.accounts[u].initial,
             available |-> IF from = "available" THEN db.accounts[u].available - n
                                                 ELSE db.accounts[u].available,
             reserved |-> IF from = "reserved" THEN db.accounts[u].reserved - n
                                               ELSE db.accounts[u].reserved,
             spent |-> db.accounts[u].spent + n]
        /\ f = Funds(db)
  OBVIOUS
<1>7. db'.accounts = [db.accounts EXCEPT ![u] = account]
  BY <1>1, <1>3, <1>6 DEF Paid
<1>8. /\ f[u].available = db.accounts[u].available /\ f[u].reserved = db.accounts[u].reserved
      /\ f[u].spent = db.accounts[u].spent
      /\ Funds(db') = [f EXCEPT ![u] = [available |-> account.available,
                                        reserved  |-> account.reserved,
                                        spent     |-> account.spent]]
  BY SMTT(30), <1>2, <1>6, <1>7, FundsMove
<1>9. CASE from = "available"
  <2>1. n <= db.accounts[u].available
    BY <1>1, <1>2, <1>9 DEF Chargeable
  <2>2. n \in 0 .. Largest
    BY <1>2, <1>4, <2>1, AmountsBounded DEF Account
  <2>3. /\ account.available = f[u].available - n /\ account.reserved = f[u].reserved
        /\ account.spent = f[u].spent + n /\ n <= f[u].available
    BY <1>6, <1>8, <1>9, <2>1
  <2> QED
    BY <1>1, <1>5, <1>6, <1>8, <2>2, <2>3 DEF SpendsAvailable
<1>10. CASE from = "reserved"
  <2>1. n <= db.accounts[u].reserved
    <3>1. PICK m : m = db.books[c.book].remaining
      OBVIOUS
    <3>2. n <= m /\ m <= db.accounts[u].reserved
      BY <1>1, <1>2, <1>10, <3>1, ItemFits
    <3>3. m \in Nat
      BY <1>2, <1>10, <3>1 DEF MoneyInv, DbTypes, Chargeable, Held, Book
    <3> QED
      BY <1>2, <1>4, <3>2, <3>3 DEF Account
  <2>2. n \in 0 .. Largest
    BY <1>2, <1>4, <2>1, AmountsBounded DEF Account
  <2>3. /\ account.available = f[u].available /\ account.reserved = f[u].reserved - n
        /\ account.spent = f[u].spent + n /\ n <= f[u].reserved
    BY <1>6, <1>8, <1>10, <2>1
  <2> QED
    BY <1>1, <1>5, <1>6, <1>8, <2>2, <2>3 DEF SpendsReserved
<1> QED
  BY <1>9, <1>10

\* Every step of the ledger is a step of prepaid accounts, or none.
LEMMA PrepaidStep ==
  ASSUME IInv, [Next]_vars
  PROVE  [Prepaid!Next]_(Prepaid!vars)
<1>1. (db'.accounts = db.accounts /\ db'.receipts = db.receipts) => UNCHANGED Prepaid!vars
  BY DEF Prepaid!vars
<1>2. CASE Rotate \/ UNCHANGED vars
  BY <1>1, <1>2 DEF Rotate, vars
<1>3. ASSUME NEW kid \in Kids, Revoke(kid)
      PROVE  UNCHANGED Prepaid!vars
  BY <1>1, <1>3, RevokeKeeps DEF Revoke, IInv
<1>4. ASSUME NEW u \in Buyers, NEW units \in Balances, Seed(u, units)
      PROVE  Prepaid!Next
  BY <1>4, SeedPrepaid
<1>5. ASSUME NEW w \in Workers, NEW c \in IssueCall, Prepare(w, c)
      PROVE  UNCHANGED Prepaid!vars
  BY <1>1, <1>5 DEF Prepare, AnswerPrior
<1>6. ASSUME NEW w \in Workers, Sign(w)
      PROVE  UNCHANGED Prepaid!vars
  BY <1>1, <1>6 DEF Sign
<1>7. ASSUME NEW w \in Workers, Reserve(w)
      PROVE  Prepaid!Next \/ UNCHANGED Prepaid!vars
  BY <1>1, <1>7, BatchReserves, PrepaidMoves
<1>8. ASSUME NEW c \in SpendCall, NEW token, Spend(c, token)
      PROVE  Prepaid!Next \/ UNCHANGED Prepaid!vars
  <2>1. CASE AnswerPrior(db.receipts, c)
    BY <1>1, <2>1 DEF AnswerPrior
  <2>2. ASSUME NEW from \in {"available", "reserved"}, NEW at \in Nat, Charges(c, from, at)
        PROVE  Prepaid!Next
    <3>1. PICK n : SpendsReserved(c.buyer, c.request, n) \/ SpendsAvailable(c.buyer, c.request, n)
      BY <2>2, SpendPays
    <3>2. c.buyer \in Buyers /\ c.request \in Requests
      BY DEF SpendCall
    <3> QED
      BY <3>1, <3>2, PrepaidMoves
  <2> QED
    BY <1>8, <2>1, <2>2, SpendParts
<1>9. ASSUME NEW u \in Buyers, NEW b \in BookIds, Cancel(u, b)
      PROVE  Prepaid!Next
  BY <1>9, CancelFrees, CancelReleases, PrepaidMoves
<1>10. ASSUME NEW c \in CancelCall, CancelMany(c)
       PROVE  Prepaid!Next \/ UNCHANGED Prepaid!vars
  <2>1. CASE AnswerPrior(db.cancellations, c)
    BY <1>1, <2>1 DEF AnswerPrior
  <2>2. CASE ~AnswerPrior(db.cancellations, c)
    <3>1. PICK answers : Frees(c.buyer, c.books, answers)
      BY <1>10, <2>2, CancelManyFrees
    <3>2. c.buyer \in Buyers
      BY DEF CancelCall
    <3> QED
      BY <3>1, <3>2, CancelReleases, PrepaidMoves
  <2> QED
    BY <2>1, <2>2
<1> QED
  BY <1>2, <1>3, <1>4, <1>5, <1>6, <1>7, <1>8, <1>9, <1>10 DEF Next

\* Whatever threads interleave, a buyer's units are only ever deposited, reserved,
\* released and spent, each spending with the one grant of its request.
THEOREM KeepsPrepaidPromise == Spec => KeepsPrepaid
<1>1. Init => Prepaid!Init
  BY DEF Init, EmptyDb, Prepaid!Init, Prepaid!Unopened
<1>2. IInv /\ [Next]_vars => [Prepaid!Next]_(Prepaid!vars)
  BY PrepaidStep
<1> QED
  BY <1>1, <1>2, LedgerInOrder, PTL DEF Spec, KeepsPrepaid, Prepaid!Spec
===============================================================================
