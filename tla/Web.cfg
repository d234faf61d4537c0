SPECIFICATION SceneSpec
SYMMETRY Interchangeable
CONSTANTS
  u1 = u1
  u2 = u2
  w1 = w1
  w2 = w2
  s1 = s1
  b1 = b1
  l1 = l1
  User = {u1, u2}
  Workshop = {w1, w2}
  Invite = {i1}
  Given = {"EMPLOYEE"}
  MaxUses = 2
  NoRow = NoRow
  NoInvite = NoInvite
  NoWorkshop = NoWorkshop
  Nothing = Nothing
  Browser = {b1, b2}
  Login = {l1, l2}
  Session = {s1, s2}
  MaxAttempts = 2
  None = None
  Deleted = Deleted
  Request = {r1, r2}
  Key = {k1}
  NoKey = NoKey
  MaxYield = 1
INVARIANTS
  CodeOpensOnce
  KeyRunsOnce
  RequestsAgree
  InvitesAgree
  ContextKept
PROPERTIES
  MembersView
  MovedOnlyByChoice
ACTION_CONSTRAINTS
  Within
CHECK_DEADLOCK FALSE
