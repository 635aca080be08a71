SPECIFICATION Spec
CONSTANTS
  Clients = {c1, c2}
  MaxEdits = 1
  MaxDrops = 1
INVARIANTS TypeOK Converged GenerationsAgree
PROPERTIES ClientsSync OfflineEditsArrive
CHECK_DEADLOCK FALSE
