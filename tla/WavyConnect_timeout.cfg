SPECIFICATION Spec
CONSTANTS
  c1 = c1
  c2 = c2
  c3 = c3
  Conns = {c2}
  Workers = {w1, w2}
  Lsock = lsock
  None = None
  Sec <- MCSec
  Nsec <- MCNsec
  IntLimit = 2147
INVARIANTS TimeoutApplied
