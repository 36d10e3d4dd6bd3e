CONSTANTS
  t1 = t1
  t2 = t2
  None = None
  Threads = {t1, t2}
  MaxDepth = 2
  EnterKinds = {"block", "retry", "poll"}
  LeaveKinds = {"wake"}
  StrayLeaves = TRUE
  Interruptible = TRUE
SPECIFICATION FairSpec
INVARIANTS
  TypeOK
  Exclusion
  FieldsLocked
  NoLostWakeup
PROPERTIES
  ImplementsLock
  SomebodyEnters
