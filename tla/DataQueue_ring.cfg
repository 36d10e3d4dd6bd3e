CONSTANTS
  a = a
  b = b
  Items = {a, b}
  NoItem = NoItem
  Entries = 1
  DefaultExpand = 2
  LargeExpands = {0, 1}
  Positions = {0, 1, 3}
  MaxCnt = 5
SPECIFICATION Spec
CHECK_DEADLOCK FALSE
PROPERTIES StaysInBounds ImplementsQueue
