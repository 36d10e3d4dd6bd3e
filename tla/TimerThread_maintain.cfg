CONSTANTS
  c1 = c1
  c2 = c2
  u1 = u1
  u2 = u2
  TT = TT
  None = None
  Clients = {c1, c2}
  Timers = {u1, u2}
  Periodic = {u1}
  Uses <- MCMaintain
  RemoveAgain = TRUE
  MaxNest = 2
SPECIFICATION Spec
CHECK_DEADLOCK FALSE
INVARIANTS OnePlace RemovalKept
PROPERTIES FlagsOwned
