CONSTANTS
  m1 = m1
  m2 = m2
  m3 = m3
  m4 = m4
  Messages = {m1, m2, m3, m4}
  Length <- MCLength
  Long = {m3}
  Room = 2
  MaxErrors = 1
  Garbage = Garbage
  NoMessage = NoMessage
SPECIFICATION Spec
INVARIANTS NothingLost PendingWatched
PROPERTIES ImplementsStream CopiedInTime EverythingSent
