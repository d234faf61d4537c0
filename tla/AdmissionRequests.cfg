SPECIFICATION ThreeRunSpec
CONSTRAINT OneCancelled
ACTION_CONSTRAINT RaiseQueueOrShrink
CHECK_DEADLOCK FALSE
SYMMETRY Interchangeable
CONSTANTS
  u1 = u1
  u2 = u2
  u3 = u3
  private = private
  web = web
  group = group
  local = local
  Job = {j1, j2, j3}
  User = {u1, u2, u3}
  Dialogue = {private, web, group}
  Inbound <- MCInbound
  Lane = {local, cloud}
  NoJob = NoJob
  Completed = Completed
  Failed = Failed
  Cancelled = Cancelled
  NoLane = NoLane
  NoUser = NoUser
  MaxLimit = 2
  MaxQueue = 2
  MaxChange = 1
INVARIANTS
  HoldersAgree
  Exclusive
PROPERTIES
  HeadPassedOnce
