SPECIFICATION Spec
CONSTANTS
  Fds = {f1}
  OutFds = {o1}
  OutIdent = out
  Workers = {w1, w2, w3}
  Callers = {c1}
  TaskLimit = 1
  BacklogSize = 2
  MaxWork = 4
  Mixing = {TRUE, FALSE}
  None = None
SYMMETRY Symmetry
INVARIANTS OnePoller OneShotOnce ArmedHasHandler NoWorkAsleep
