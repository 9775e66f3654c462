SPECIFICATION Spec
CONSTANTS
  Fds = {f1}
  Writers = {w1}
  Workers = {k1}
  Requests <- MCRequests
  Room = 1
  BacklogSize = 1
  MaxBytes = 2
  MaxFins = 2
  MaxEntries = 3
  None = None
INVARIANT ShutdownOnlyOnError
