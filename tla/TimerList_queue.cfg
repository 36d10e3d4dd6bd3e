CONSTANTS
  u1 = u1
  u2 = u2
  None = None
  Timers = {u1, u2}
  Start <- MCStart
  Frequency <- MCFrequency
  Delays = {1}
  Reschedulable = "last"
  MaxTime = 4
SPECIFICATION Spec
CHECK_DEADLOCK FALSE
INVARIANTS OversleepBound PassEnds
PROPERTIES ImplementsQueue NoCatchUp
