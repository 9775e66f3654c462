SPECIFICATION FairSpec
CONSTANTS
  Fds = {f1}
  OutFds = {o1}
  OutIdent = out
  Workers = {w1, w2}
  Callers = {c1}
  TaskLimit = 1
  BacklogSize = 2
  MaxWork = 3
  Mixing = {FALSE}
  None = None
PROPERTIES TasksRun WritesServed FlushReturns RunOnceServes EndStops InputHandled
