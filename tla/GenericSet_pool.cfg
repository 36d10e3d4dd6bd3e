CONSTANTS
  b1 = b1
  b2 = b2
  b3 = b3
  Blocks = {b1, b2, b3}
  Max = 2
SPECIFICATION Spec
CHECK_DEADLOCK FALSE
SYMMETRY Symmetry
INVARIANTS CountsAgree
PROPERTIES UnitsKept GrowsWhenFull IndexKept
