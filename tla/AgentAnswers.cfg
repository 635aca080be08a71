SPECIFICATION Spec
CONSTANTS
  Invocations = {1}
  Executions = {1, 2}
  Processes = {1, 2}
  None = None
  MaxCancels = 0
  Blocking = {FALSE, TRUE}
  AnsweredAt = {"cleanup", "done", "dead"}
  Happens = {"crash", "leaseExpires", "graceOver", "manyTasks"}
PROPERTY LostTaskSettles
PROPERTY WaitingAnswerable
CHECK_DEADLOCK FALSE
