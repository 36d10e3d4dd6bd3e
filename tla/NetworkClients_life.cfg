CONSTANTS
  a1 = a1
  c1 = c1
  c2 = c2
  f1 = f1
  f2 = f2
  Net = Net
  Timer = Timer
  None = None
  Invalid = Invalid
  Zero = Zero
  Openers = {a1}
  Clients = {c1, c2}
  Fds = {f1, f2}
  Uses <- MCUses
SPECIFICATION Spec
INVARIANTS OnItsList SocketsOwned ToldInTime OpenWaitsSafely
PROPERTIES HolderCloses DoneInTheEnd CallsReturn
