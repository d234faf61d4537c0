SPECIFICATION SceneSpec
SYMMETRY Interchangeable
VIEW Seen
CONSTRAINTS
  Shallow
  OneChange
  Apart
  FirstChatFirst
ACTION_CONSTRAINTS
  Relevant
CHECK_DEADLOCK FALSE
CONSTANTS
  User = {me, boss}
  Me = me
  GivenRole = {"ADMIN", "VIEWER"}
  Draft = {x1, x2}
  NoDraft = None
  Typed = {1}
  MaxAmount = 2
  MaxBack = 5
  How = {"set", "take"}
  NoForm = None
  NoFrame = None
  Item = {x1, x2}
  Material = {x1, x2}
  MaxTalks = 2
  Chat = {c1, c2}
  Value = {x1, x2}
  Nothing = None
  Size = {1, 5}
  MaxTokens = 4
  MaxMessages = 3
  MaxSession = 3
  c1 = c1
  c2 = c2
  None = None
INVARIANTS
  ReferencesAgree
  HistoriesAgree
PROPERTIES
  SavedAsShown
  SentAsWritten
  StockAsProposed
  SavedAsProposed
