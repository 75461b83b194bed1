SPECIFICATION MCSpec
CONSTANTS
  Parts = {"records", "tree", "batch", "workspace", "grant"}
  rec1 = rec1
  rec2 = rec2
  rec3 = rec3
  key1 = key1
  key2 = key2
  kid1 = kid1
  kid2 = kid2
  ctx1 = ctx1
  ctx2 = ctx2
  Keys = {key1, key2}
  KeyIds = {kid1, kid2}
  Contexts = {ctx1, ctx2}
  Exports <- MCExports
  Pinned <- MCPinned
  CacheSize = 1
  MaxSealed = 2
  Nothing = Nothing
  r1 = r1
  r2 = r2
  r3 = r3
  r4 = r4
  r5 = r5
  r6 = r6
  Sizes = {1, 2, 3, 4, 5, 6}
  WholeSizes = {1, 2, 3, 4, 5, 6, 7, 8, 9, 11, 12, 13, 16, 17, 21}
  MaxProof = 3
  MaxBatch = 2
  MaxPayload = 18
  MaxAad = 1
  MaxWork = 69
  Order = 5
  DataSizes = {0, 2, 3, 18, 19}
  AadSizes = {0, 1, 2}
  Scalars = {0, 1, 4, 5}
  MaxSize = 2
  Contents = {page, page2}
  SigningKeys = {signer, signer2}
  AesKeys = {aes, aes2}
  Principals = {reader, reader2}
  Reader = reader
  page = page
  page2 = page2
  signer = signer
  signer2 = signer2
  aes = aes
  aes2 = aes2
  reader = reader
  reader2 = reader2
  PublisherKey = signer
  ContentKey = aes
  Lifetime = 2
  MaxTime = 3
  MaxPublished = 2
  Unknown = Unknown
INVARIANTS
  AcceptedWasSealed
  CacheTransparent
  ProofsExact
  BackendsAlike
  DeviceMemorySafe
  GrantsExact
CHECK_DEADLOCK FALSE
