SPECIFICATION FairSpec
CONSTANTS
  Sockets = {s1, s2}
  Requests = {h1, h2}
  Rooms = {r1, r2, r3, r4}
  NoRoom = NoRoom
  EarlyLeave = TRUE
  MayFail = {"flush", "replace"}
INVARIANTS TypeOK OneLiveRoomKept ServedUndisturbed
PROPERTIES EveryClientSettles IdleRoomDestroyed
CHECK_DEADLOCK FALSE
