SPECIFICATION SceneSpec
CONSTANTS
  u1 = u1
  u2 = u2
  User = {u1, u2}
  GivenRole = {"EMPLOYEE"}
  Account = {a1, a2}
  Product = {p1}
  Sku = {1, 2}
  Asked = {"catalog", "seller"}
  MaxRevision = 3
  MaxRun = 2
  None = None
  Clients = 2
  Wait = {1, 3}
  LastTick = 4
INVARIANTS
  SavedOfOneAccount
  ConfirmedOfOneRun
PROPERTIES
  RefreshAnswered
  KeepsOwnDeadline
CONSTRAINTS
  InScene
CHECK_DEADLOCK FALSE
