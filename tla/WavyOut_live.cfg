SPECIFICATION FairSpec
CONSTANTS
  Fds = {f1}
  Writers = {w1, w2}
  Workers = {k1, k2}
  Requests <- MCRequests
  Room = 1
  BacklogSize = 1
  MaxBytes = 3
  MaxFins = 2
  MaxEntries = 3
  None = None
PROPERTIES Drains FinalizersSettle
