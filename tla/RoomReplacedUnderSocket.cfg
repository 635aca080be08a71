SPECIFICATION Spec
CONSTANTS
  Sockets = {s1}
  Requests = {h1}
  Rooms = {r1, r2}
  NoRoom = NoRoom
  EarlyLeave = FALSE
  MayFail = {}
INVARIANTS AttachedServed
CHECK_DEADLOCK FALSE
