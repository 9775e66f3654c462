SPECIFICATION LiveSpec
CONSTANTS
  c1 = c1
  c2 = c2
  c3 = c3
  Conns = {c1, c2, c3}
  Workers = {w1, w2}
  Lsock = lsock
  None = None
  Sec <- MCSec
  Nsec <- MCNsec
  IntLimit = 2147
INVARIANTS AnswerTrue AcceptedOwned
PROPERTIES ConnectAnswered ConnectionsAccepted
