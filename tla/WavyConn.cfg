SPECIFICATION LiveSpec
CONSTANTS
  Conns = {1, 2}
  Fds = {n1}
  Workers = {w1, w2}
  Callers = {t1}
  None = None
  MaxWork = 2
INVARIANTS RightPeer QueueCurrent HandlerKept
PROPERTIES ClosedInTheEnd
