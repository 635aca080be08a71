SPECIFICATION Spec
CONSTANTS
  Notes = {n1, n2}
  Edits = {e1, e2, e3}
  Faults = {"saveNote", "saveRoot", "deleteNote", "badSnapshot"}
  UndoRestore = FALSE
  Overlap = FALSE
SYMMETRY Symmetry
INVARIANTS TypeOK EditsTracked RootTracked FlushedStoresEverything ColdStoreLoads
PROPERTIES BlobsOutliveReferences DurableEditsKept RoomIsWorkspace
CHECK_DEADLOCK FALSE
