SPECIFICATION LiveSpec
CONSTANTS
  h1 = h1
  h2 = h2
  s1 = s1
  s2 = s2
  Handlers = {h1, h2}
  Signos = {s1, s2}
  Signo <- MCSigno
  Main = main
  Workers = {w1, w2}
  None = None
  MaxRaise = 3
INVARIANTS HandledNotLost OwedNeverKills
PROPERTIES SignalsHandled
