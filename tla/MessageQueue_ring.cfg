CONSTANTS
  t1 = t1
  t2 = t2
  Size = 16
  Hdr = 3
  Messages <- MCMessages
  Threads = {t1, t2}
  Blocks <- MCBlocks
  Polls <- MCPolls
  Slots = 3
  NoMessage = NoMessage
  None = None
SPECIFICATION Spec
INVARIANTS TopLeavesRoom NobodyOverlooked DrainedTakesAny
PROPERTIES KeepsMessages
