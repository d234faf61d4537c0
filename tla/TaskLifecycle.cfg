SPECIFICATION Spec
CONSTANTS
  u1 = u1
  u2 = u2
  half = half
  User <- MCUser
  GivenRole = {"EMPLOYEE", "VIEWER"}
  Task = {t1}
  Product = {p1}
  NoProduct = NoProduct
  Count = {0, 1}
  Fraction <- MCFraction
  StoredRow <- ImportedStock
  NoRow = NoRow
  NoCard = NoCard
  MaxVersion = 7
INVARIANTS
  StageFacts
  VersionIdentifiesRow
PROPERTIES
  ConfirmedAsShown
  ExecutorAllowed
CONSTRAINTS
  ViewersEarly
