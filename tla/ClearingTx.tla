------------------------------ MODULE ClearingTx ------------------------------
(***************************************************************************)
(* Clearing.transaction() of src/examples/access_book/engine.py: methods   *)
(* of several callers run statement by statement, nested in one another    *)
(* and in blocks of the application, over one SQLite database.  The        *)
(* outermost block is a transaction of SQLite (BEGIN IMMEDIATE: one caller *)
(* writes at a time), a nested one a savepoint; all savepoints have the    *)
(* same name, so each command means the newest.                            *)
(*                                                                         *)
(* Any statement may fail, an application may catch what a step raises, a  *)
(* process may stop, and SQLite itself may end a transaction on an error   *)
(* (disk full, interrupted): later blocks then find no transaction open.   *)
(***************************************************************************)
EXTENDS ClearingDb, SequencesExt

CONSTANTS
  Callers,
  Now,          \* the one reading of the clock
  IssueCalls, PurchaseCalls,
  Signer,       \* the key of every caller's authority
  Start,        \* a database with accounts and offers
  MaxSteps,     \* bound: steps in one block of an application
  MayEnd,       \* BOOLEAN: whether SQLite ends transactions on its own
  NoTx          \* no transaction is open

\* What a connection can read.
Database ==
  [accounts    : [Buyers -> Account],
   offers      : [Publishers -> [Resources -> Offer \cup {NoRow}]],
   accrued     : [Publishers -> Nat],
   books       : UNION {[S -> Book] : S \in SUBSET BookIds},
   redemptions : SUBSET Receipt,
   revoked     : BOOLEAN]

ASSUME ClearingTxAssumption ==
  /\ Now \in Positive /\ MaxSteps \in Nat /\ MayEnd \in BOOLEAN /\ Signer \in AuthorityKeys
  /\ IssueCalls \subseteq IssueCall
  /\ NoTx \notin Database

VARIABLES
  disk,    \* what is committed
  frames,  \* of each caller: the blocks that are open, outermost first
  work,    \* what its connection reads inside a transaction, or NoTx
  saves,   \* its savepoints: the database at each
  raised   \* whether the innermost block was left by an exception of the one below

txVars == <<disk, frames, work, saves, raised>>

\* db.in_transaction.
InTx(c) == work[c] # NoTx

\* A block: its method, whether it began the transaction, the database after each
\* statement it has left, how many steps it made, and what the database would be
\* if every step in it that ended well were one indivisible change (a history).
Frame(kind, call, c, todo, whole) ==
  [kind |-> kind, call |-> call, begun |-> ~InTx(c), todo |-> todo, steps |-> 0,
   whole |-> whole]

Top(c) == Last(frames[c])

View(c) == IF InTx(c) THEN work[c] ELSE disk

Whole(c) == IF InTx(c) THEN Top(c).whole ELSE disk

\* Mutant: a deferred BEGIN takes no lock.
MayBegin_Deferred(c) == ~InTx(c)

MayBegin(c) == \A other \in Callers : ~InTx(other)

-------------------------------------------------------------------------------
\* The statements of the methods, each as the database it leaves.
\* Mutant: the book is inserted, the account is not debited.
IssueStatements_NoDebit(d, c, b) ==
  <<[AfterIssue(d, c, Now, b, Signer) EXCEPT !.accounts = d.accounts]>>

IssueStatements(d, c, b) ==
  LET book    == NewBook(d, c, Now, Signer)
      debited == [d EXCEPT !.accounts[c.buyer].available = @ - Price(d, c),
                           !.accounts[c.buyer].reserved = @ + Price(d, c)]
      booked  == [debited EXCEPT !.books =
                   [x \in DOMAIN d.books \cup {b} |->
                      IF x = b THEN [book EXCEPT !.items = [r \in Resources |-> NoRow]]
                      ELSE d.books[x]]]
  IN <<debited, booked, [booked EXCEPT !.books[b].items = book.items]>>

RedeemStatements(d, c) ==
  LET units   == UnitsOfItem(d, c)
      paid    == [d EXCEPT !.accounts[c.buyer].reserved = @ - units,
                           !.accounts[c.buyer].redeemed = @ + units]
      used    == [paid EXCEPT !.books[c.book].remaining = @ - units]
      accrued == [used EXCEPT !.accrued[c.publisher] = @ + units]
  IN <<paid, used, accrued,
       [accrued EXCEPT !.redemptions = @ \cup {NewReceipt(d, c, Now)}]>>

ReleaseStatements(d, b) ==
  LET buyer  == d.books[b].call.buyer
      repaid == [d EXCEPT !.accounts[buyer].reserved = @ - d.books[b].remaining,
                          !.accounts[buyer].available = @ + d.books[b].remaining]
  IN <<repaid, [repaid EXCEPT !.books[b].remaining = 0, !.books[b].closed = TRUE]>>

-------------------------------------------------------------------------------
TxInit ==
  /\ disk = Start
  /\ frames = [c \in Callers |-> <<>>]
  /\ work = [c \in Callers |-> NoTx]
  /\ saves = [c \in Callers |-> <<>>]
  /\ raised = [c \in Callers |-> FALSE]

\* The book a purchase issued or found, and what it then asks of redeem.
PurchasedBook(d, c) == CHOOSE b \in PriorBook(d, PurchaseIssue(c)) : TRUE
Redemption(d, c)    == PurchaseRedeem(c, PurchasedBook(d, c))

\* Whether the innermost block calls this method next, and with these arguments:
\* an application calls what it likes, purchase() its three in their order.
MayCall(c, kind, call) ==
  \/ frames[c] = <<>>
  \/ /\ frames[c] # <<>> /\ ~raised[c] /\ Top(c).todo = <<>>
     /\ \/ Top(c).kind = "application" /\ Top(c).steps < MaxSteps
        \/ /\ Top(c).kind = "purchase"
           /\ LET fresh == PriorReceipt(View(c), Redemption(View(c), Top(c).call)) = {}
              IN CASE kind = "issue" -> Top(c).steps = 0 /\ call = PurchaseIssue(Top(c).call)
                   [] kind = "activate" -> /\ Top(c).steps = 1 /\ fresh
                                           /\ call = PurchasedBook(View(c), Top(c).call)
                   [] kind = "redeem" -> /\ Top(c).steps # 0
                                         /\ Top(c).steps = IF fresh THEN 2 ELSE 1
                                         /\ call = Redemption(View(c), Top(c).call)
                   [] OTHER -> FALSE

\* The blocks after the innermost has made one more step.
Stepped(blocks) ==
  IF blocks = <<>> THEN <<>> ELSE [blocks EXCEPT ![Len(blocks)].steps = @ + 1]

\* with self.transaction(): BEGIN IMMEDIATE or SAVEPOINT.
Enter(c, kind, call, todo, whole) ==
  /\ MayCall(c, kind, call)
  /\ frames' = [frames EXCEPT ![c] = Append(Stepped(@), Frame(kind, call, c, todo, whole))]
  /\ IF InTx(c)
     THEN saves' = [saves EXCEPT ![c] = Append(@, work[c])] /\ UNCHANGED work
     ELSE MayBegin(c) /\ work' = [work EXCEPT ![c] = disk] /\ UNCHANGED saves
  /\ UNCHANGED <<disk, raised>>

\* A block of the application, e.g. one that issues and activates under one commit.
Application(c) == frames[c] = <<>> /\ Enter(c, "application", {}, <<>>, Whole(c))

PurchaseBlock(c, call) == Enter(c, "purchase", call, <<>>, Whole(c))

IssueBlock(c, call) ==
  \/ \E b \in BookIds \ DOMAIN View(c).books :
       /\ CanIssue(View(c), call, Now)
       /\ Enter(c, "issue", call, IssueStatements(View(c), call, b),
                AfterIssue(Whole(c), call, Now, b, Signer))
  \/ /\ KeyOk(View(c))
     /\ \E b \in PriorBook(View(c), call) : View(c).books[b].call = call
     /\ Enter(c, "issue", call, <<>>, Whole(c))

ActivateBlock(c, b) ==
  /\ b \in DOMAIN View(c).books
  /\ LET book == View(c).books[b]
     IN CanActivate(View(c), b, [book |-> b, signer |-> book.signer], book.call.buyer,
                    book.call.publisher, Now, Now, Signer)
  /\ Enter(c, "activate", b, IF View(c).books[b].active THEN <<>>
                             ELSE <<AfterActivate(View(c), b)>>, AfterActivate(Whole(c), b))

RedeemBlock(c, call) ==
  \/ /\ CanRedeem(View(c), call, Now)
     /\ Enter(c, "redeem", call, RedeemStatements(View(c), call),
              AfterRedeem(Whole(c), call, Now))
  \/ /\ \E x \in PriorReceipt(View(c), call) : SameRequest(x, call)
     /\ Enter(c, "redeem", call, <<>>, Whole(c))

ReleaseBlock(c, b) ==
  /\ \E buyer \in Buyers : CanRelease(View(c), b, buyer)
  /\ Enter(c, "release", b, ReleaseStatements(View(c), b), AfterRelease(Whole(c), b))

-------------------------------------------------------------------------------
Running(c) == frames[c] # <<>>

\* One statement of the innermost block.
Execute(c) ==
  /\ Running(c) /\ InTx(c) /\ ~raised[c] /\ Top(c).todo # <<>>
  /\ work' = [work EXCEPT ![c] = Head(Top(c).todo)]
  /\ frames' = [frames EXCEPT ![c][Len(frames[c])].todo = Tail(@)]
  /\ UNCHANGED <<disk, saves, raised>>

\* The blocks below, the next with the steps that are now part of it.
Resumed(c, whole) ==
  LET below == Front(frames[c])
  IN IF Top(c).begun THEN below ELSE [below EXCEPT ![Len(below)].whole = whole]

\* What commits when the innermost block ends well.
\* Mutant: a savepoint that is released is committed too.
Commits_Nested(frame) == frame.kind # "activate" \/ frame.begun

Commits(frame) == frame.begun

\* The end of a block: RELEASE or COMMIT.
Leave(c) ==
  /\ Running(c) /\ InTx(c) /\ ~raised[c] /\ Top(c).todo = <<>>
  /\ Top(c).kind = "purchase" =>
       Top(c).steps >= 2 /\ PriorReceipt(work[c], Redemption(work[c], Top(c).call)) # {}
  /\ disk' = IF Commits(Top(c)) THEN work[c] ELSE disk
  /\ IF Top(c).begun
     THEN work' = [work EXCEPT ![c] = NoTx] /\ UNCHANGED saves
     ELSE saves' = [saves EXCEPT ![c] = Front(@)] /\ UNCHANGED work
  /\ frames' = [frames EXCEPT ![c] = Resumed(c, Top(c).whole)]
  /\ UNCHANGED raised

\* ROLLBACK TO and RELEASE.
\* Mutant: the savepoint stays after ROLLBACK TO.
Unwound_Kept(stack) == stack

Unwound(stack) == Front(stack)

\* Mutant: the savepoint is released, nothing is rolled back.
Restored_Not(c) == work[c]

Restored(c) == Last(saves[c])

\* A block is left by an exception, its own or one from below: ROLLBACK, or the
\* two commands for a savepoint, which raise too when there is no transaction.
Raise(c) ==
  /\ Running(c)
  /\ IF InTx(c) /\ ~Top(c).begun
     THEN /\ work' = [work EXCEPT ![c] = Restored(c)]
          /\ saves' = [saves EXCEPT ![c] = Unwound(@)]
     ELSE work' = [work EXCEPT ![c] = NoTx] /\ UNCHANGED saves
  /\ frames' = [frames EXCEPT ![c] = Front(@)]
  /\ raised' = [raised EXCEPT ![c] = Len(frames[c]) > 1]
  /\ UNCHANGED disk

\* The application catches what a step raised, and goes on.
Catch(c) ==
  /\ Running(c) /\ raised[c] /\ Top(c).kind = "application"
  /\ raised' = [raised EXCEPT ![c] = FALSE]
  /\ UNCHANGED <<disk, frames, work, saves>>

\* SQLite ends the transaction with the error of a statement.
End(c) ==
  /\ MayEnd /\ Running(c) /\ InTx(c) /\ ~raised[c] /\ Top(c).todo # <<>>
  /\ work' = [work EXCEPT ![c] = NoTx]
  /\ saves' = [saves EXCEPT ![c] = <<>>]
  /\ frames' = [frames EXCEPT ![c] = [i \in 1 .. Len(@) - 1 |-> [@[i] EXCEPT !.whole = NoTx]]]
  /\ raised' = [raised EXCEPT ![c] = Len(frames[c]) > 1]
  /\ UNCHANGED disk

\* The process of a caller stops: the write-ahead log holds no commit of it.
Crash(c) ==
  /\ Running(c)
  /\ frames' = [frames EXCEPT ![c] = <<>>]
  /\ work' = [work EXCEPT ![c] = NoTx]
  /\ saves' = [saves EXCEPT ![c] = <<>>]
  /\ raised' = [raised EXCEPT ![c] = FALSE]
  /\ UNCHANGED disk

TxNext ==
  \E c \in Callers :
    \/ Application(c)
    \/ \E call \in PurchaseCalls : PurchaseBlock(c, call)
    \/ \E call \in IssueCalls : IssueBlock(c, call)
    \/ \E b \in BookIds : ActivateBlock(c, b) \/ ReleaseBlock(c, b)
    \/ \E call \in RedeemCall : RedeemBlock(c, call)
    \/ Execute(c) \/ Leave(c) \/ Raise(c) \/ Catch(c) \/ End(c) \/ Crash(c)

TxSpec == TxInit /\ [][TxNext]_txVars

-------------------------------------------------------------------------------
\* One type invariant: at most one connection is inside a transaction, and its
\* savepoints are those of the open blocks that did not begin it.
TxTypes ==
  /\ \A c, d \in Callers : InTx(c) /\ InTx(d) => c = d
  /\ \A c \in Callers :
       /\ InTx(c) => Running(c)
       /\ raised[c] => Running(c)
       /\ Len(saves[c]) = IF InTx(c)
            THEN Cardinality({i \in DOMAIN frames[c] : ~frames[c][i].begun}) ELSE 0

\* Between the steps of a block the connection reads exactly what the steps that
\* ended well make of the database, each as the indivisible change of ClearingDb:
\* a step that failed after any of its statements, at any depth, with its failure
\* caught or not, has left nothing behind and taken nothing else with it.
StepsAreWhole ==
  \A c \in Callers : InTx(c) =>
    (Top(c).todo = <<>> => work[c] = Top(c).whole)

\* Whatever fails, stops or is caught, the committed database passes audit().
CommittedAudits == BuyersConserved(disk) /\ PublishersConserved(disk)

\* What is committed stays: no commit overwrites another caller's books or
\* receipts with those it read before.
CommittedIsPermanent ==
  [][/\ DOMAIN disk.books \subseteq DOMAIN disk'.books
     /\ disk.redemptions \subseteq disk'.redemptions
     /\ \A b \in DOMAIN disk.books : disk.books[b].active => disk'.books[b].active]_txVars

\* The steps of an application's block commit together, at its end: while a block
\* is open nothing of it is durable, so when it fails nothing of it remains.  Not
\* so after SQLite itself ended the transaction of the block: a caller that
\* catches the error and goes on commits its next steps one by one.
OneCommit ==
  [][disk' # disk => \E c \in Callers :
       /\ frames[c] # <<>>
       /\ \/ Len(frames[c]) = 1 /\ frames'[c] = <<>>
          \/ frames[c][1].whole = NoTx]_txVars

\* What is read between steps and what is committed is made of whole steps.
WorkIsWhole == TxTypes /\ StepsAreWhole /\ CommittedAudits

\* A block commits at its end, once, and for good.
CommitsAreOne == OneCommit /\ CommittedIsPermanent
===============================================================================
