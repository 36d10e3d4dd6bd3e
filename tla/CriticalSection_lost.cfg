CONSTANTS
  t1 = t1
  t2 = t2
  t3 = t3
  None = None
  Threads = {t1, t2, t3}
  MaxDepth = 1
  EnterKinds = {"block"}
  LeaveKinds = {"wake"}
  StrayLeaves = FALSE
  Interruptible = FALSE
SPECIFICATION Spec
SYMMETRY Symmetry
INVARIANTS
  NoLostWakeup
