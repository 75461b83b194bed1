SPECIFICATION MCSpec
CONSTANTS
  w1 = w1
  w2 = w2
  alice = alice
  bob = bob
  req1 = req1
  req2 = req2
  res1 = res1
  res2 = res2
  book1 = book1
  book2 = book2
  Workers = {w1, w2}
  Buyers = {alice, bob}
  Requests = {req1, req2}
  Resources = {res1, res2}
  BookIds = {book1, book2}
  Catalog <- MCCatalog
  Batches <- MCBatches
  Balances = {3}
  MaxUnits = {3}
  Ttls = {1}
  Times = {1, 2}
  LastEpoch = 2
  NoBook = NoBook
  Idle = Idle
INVARIANTS
  MoneyAddsUp
  IssuesAreGood
  AnswersAgree
PROPERTIES
  EndsAreFinal
  KeepsPrepaid
SYMMETRY MCSymmetry
