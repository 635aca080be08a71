SPECIFICATION Spec
CONSTANTS
  Invocations = {1}
  Executions = {1}
  Processes = {1, 2}
  None = None
  MaxCancels = 1
  Blocking = {FALSE, TRUE}
  AnsweredAt = {}
  Happens = {"crash", "leaseExpires", "graceOver", "manyTasks"}
INVARIANT TypeOK
PROPERTY TerminalTaskFinal
PROPERTY RecoveredStaysLost
PROPERTY CancelHonoured
PROPERTY EvictedStops
CHECK_DEADLOCK FALSE
