SPECIFICATION FairSpec
CONSTANTS
  Notes = {n1, n2}
  Edits = {e1, e2}
  Faults = {"saveNote", "saveRoot", "deleteNote", "snapshot", "badSnapshot", "crash"}
  UndoRestore = TRUE
  Overlap = TRUE
INVARIANT SnapshotRootAfterNotes
PROPERTY EditsReachStore
CHECK_DEADLOCK FALSE
