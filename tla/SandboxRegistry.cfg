SPECIFICATION Spec
CONSTANTS
  Executions = {1, 2}
  Processes = {1, 2}
  Home <- OneHome
  None = None
INVARIANTS TypeOK NoLeak Unlisted EndedRecord OwnSandboxKept
PROPERTIES ComesToRest
CHECK_DEADLOCK FALSE
