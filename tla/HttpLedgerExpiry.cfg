SPECIFICATION MCSpec
CONSTANTS
  w1 = w1
  w2 = w2
  alice = alice
  bob = bob
  req1 = req1
  req2 = req2
  res1 = res1
  res2 = res2
  book1 = book1
  book2 = book2
  Workers = {w1}
  Buyers = {alice, bob}
  Requests = {req1}
  Resources = {res1}
  BookIds = {book1, book2}
  Catalog <- CheapCatalog
  Batches <- OneBook
  Balances = {1, 2}
  MaxUnits = {1, 2}
  Ttls = {1}
  Times = {1, 2}
  LastEpoch = 1
  NoBook = NoBook
  Idle = Idle
INVARIANTS
  FreshSpendBeforeExpiry
SYMMETRY MCBookSymmetry
