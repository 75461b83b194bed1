SPECIFICATION TxSpec
CONSTANTS
  alice = alice
  pub = pub
  res = res
  req1 = req1
  req2 = req2
  edition = edition
  book1 = book1
  book2 = book2
  auth = auth
  proc1 = proc1
  proc2 = proc2
  none = none
  Buyers = {alice}
  Publishers = {pub}
  Resources = {res}
  Requests = {req1, req2}
  Editions = {edition}
  BookIds = {book1, book2}
  AuthorityKeys = {auth}
  NoRow = none
  MaxTtl = 2
  Callers = {proc1, proc2}
  Now = 1
  IssueCalls <- MCIssueCalls
  PurchaseCalls <- MCPurchaseCalls
  Signer = auth
  Start <- MCStart
  MaxSteps = 3
  MayEnd = TRUE
  NoTx = NoTx
INVARIANTS
  WorkIsWhole
PROPERTIES
  CommitsAreOne
SYMMETRY MCSymmetry
