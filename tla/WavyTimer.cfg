SPECIFICATION LiveSpec
CONSTANTS
  t1 = t1
  t2 = t2
  Timers = {t1, t2}
  Fds = {f1, f2}
  Workers = {w1, w2}
  Callers = {c1}
  None = None
  Value <- MCValue
  Interval <- MCInterval
  MaxExpiry = 2
INVARIANTS OpenWhileCalled
PROPERTIES TimersFire TimersEnd
