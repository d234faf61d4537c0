SPECIFICATION FairSpec
CHECK_DEADLOCK FALSE
CONSTANTS
  u1 = u1
  u2 = u2
  u3 = u3
  private = private
  web = web
  group = group
  local = local
  Job = {j1, j2}
  User = {u1, u2, u3}
  Dialogue = {private, web, group}
  Inbound <- TwoChats
  Lane = {local, cloud}
  NoJob = NoJob
  Completed = Completed
  Failed = Failed
  Cancelled = Cancelled
  NoLane = NoLane
  NoUser = NoUser
  MaxLimit = 2
  MaxQueue = 1
  MaxChange = 1
PROPERTIES
  EveryRequestEnds
