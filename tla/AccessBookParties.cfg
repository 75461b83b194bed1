SPECIFICATION Spec
CONSTANTS
  alice = alice
  bob = bob
  pub1 = pub1
  pub2 = pub2
  res1 = res1
  res2 = res2
  req1 = req1
  req2 = req2
  book1 = book1
  book2 = book2
  auth1 = auth1
  auth2 = auth2
  old = old
  new = new
  none = none
  Buyers = {alice, bob}
  Publishers = {pub1, pub2}
  Resources = {res1}
  Requests = {req1}
  Editions = {old, new}
  BookIds <- MCBooks
  AuthorityKeys = {auth1, auth2}
  NoRow = none
  Times = {1, 2}
  Balances = {2}
  Offers <- MCOffers
  Budgets = {2}
  Ttls = {2}
  MaxTtl = 2
INVARIANTS
  ReceiptsMatchBooks
PROPERTIES
  AdmissionPinned
  KeepsPrepaid
SYMMETRY MCSymmetry
