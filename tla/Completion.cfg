SPECIFICATION SceneSpec
SYMMETRY Interchangeable
ACTION_CONSTRAINTS LookAgain Within
CONSTANTS
  u1 = u1
  u2 = u2
  p1 = p1
  m1 = m1
  User <- MCUser
  GivenRole = {"EMPLOYEE"}
  Task = {t1, t2}
  Product = {p1}
  NoProduct = NoProduct
  Count = {1, 2}
  Fraction = {}
  StoredRow <- LeftRows
  NoRow = NoRow
  NoCard = NoCard
  MaxVersion = 5
  Chat = {c1}
  Material = {m1}
  Recipe <- MCRecipe
  Token = {k1, k2}
  NoIntent = NoIntent
  NoRecord = NoRecord
  MaxStock = 2
  MaxSession = 2
INVARIANTS
  OneForeground
  BooksAgree
  PreviewsAgree
PROPERTIES
  PostedAsPreviewed
  KeepsLedger
