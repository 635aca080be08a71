SPECIFICATION Spec
CONSTANTS
  Clients = {c1, c2}
  MaxEdits = 1
  MaxDrops = 1
INVARIANT BootstrapNotesAttached
CHECK_DEADLOCK FALSE
