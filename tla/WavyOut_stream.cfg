SPECIFICATION Spec
CONSTANTS
  Fds = {f1}
  Writers = {w1, w2}
  Workers = {k1, k2}
  Requests <- MCRequests
  Room = 2
  BacklogSize = 1
  MaxBytes = 5
  MaxFins = 3
  MaxEntries = 4
  None = None
SYMMETRY Symmetry
INVARIANTS TypeOK StreamComplete FinalizeAfterWrite FinalizeOnce EventServedOnce QueuedIffWatched FlushWaitsForData
PROPERTIES ImplementsStream
