CONSTANTS
  c1 = c1
  c2 = c2
  u1 = u1
  u2 = u2
  TT = TT
  None = None
  Clients = {c1, c2}
  Timers = {u1, u2}
  Periodic = {u1, u2}
  Uses <- MCLive
  RemoveAgain = FALSE
  MaxNest = 1
SPECIFICATION FairSpec
CHECK_DEADLOCK FALSE
PROPERTIES KeepsFiring RemovedStops CallsReturn
