SPECIFICATION Spec
CONSTANTS
  said = said
  respelled = respelled
  unsaid = unsaid
  typed = typed
  retyped = retyped
  AgentLines <- SomeAgentLines
  UserLines <- SomeUserLines
  Printed <- Prints
  None = None
  MaxFileChanges = 2
  MaxNoteChanges = 2
INVARIANTS TypeOK ShadowIsFile NoteAsWanted UserLinesKept FileHasNote
PROPERTIES ComesToRest
CHECK_DEADLOCK FALSE
