SPECIFICATION Spec
CONSTANTS
  Notes = {n1, n2}
  Edits = {e1, e2, e3}
  Faults = {}
  UndoRestore = TRUE
  Overlap = FALSE
PROPERTIES BlobsOutliveReferences
CHECK_DEADLOCK FALSE
