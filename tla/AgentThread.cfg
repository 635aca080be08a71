SPECIFICATION Spec
CONSTANTS
  Invocations = {1, 2}
  Executions = {1, 2}
  Processes = {1, 2}
  None = None
  MaxCancels = 0
  Blocking = {FALSE}
  AnsweredAt <- Places
  Happens = {"archive"}
INVARIANT CompleteIsStored
CHECK_DEADLOCK FALSE
