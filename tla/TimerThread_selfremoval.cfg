CONSTANTS
  c1 = c1
  u1 = u1
  u2 = u2
  u3 = u3
  TT = TT
  None = None
  Clients = {c1}
  Timers = {u1, u2, u3}
  Periodic = {u1, u2, u3}
  Uses <- MCSelfRemoval
  RemoveAgain = FALSE
  MaxNest = 1
SPECIFICATION Spec
CHECK_DEADLOCK FALSE
INVARIANT SelfRemovalGetsOn
