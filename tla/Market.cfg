SPECIFICATION SceneSpec
CONSTANTS
  u1 = u1
  t1 = t1
  t2 = t2
  t3 = t3
  s1 = s1
  s2 = s2
  User = {u1, u2}
  GivenRole = {"EMPLOYEE"}
  Token = {t1, t2, t3}
  Seller = {s1, s2}
  SellerOf <- Cabinets
  Variant = {v1}
  Barcode = {b1}
  NoBarcode = NoBarcode
  Position = {p1}
  Order = {o1}
  Command = {"check", "catalog", "stocks", "orders", "read"}
  MaxRevision = 3
  None = None
  Caller = {c1, c2}
  NoCaller = NoCaller
  Delay = {1, 5}
  Backoff = 1
  Interval = 2
  LocalWait = 3
  QuotaWait = 6
  Penalty = 4
  MaxTime = 8
INVARIANTS
  RowsAgree
  OneCabinet
  MappingsFollowCatalog
PROPERTIES
  SavedInScope
  SendsInTime
CONSTRAINTS
  OwnerStays
  StocksOrOrders
  AwayFromOwnJob
CHECK_DEADLOCK FALSE
SYMMETRY SameCabinet
VIEW NotHowItEnded
