SPECIFICATION Spec
CONSTANTS
  Periodic = {t1}
  Oneshot = {t2}
  Signals = {s1}
  Workers = {w1}
  Callers = {c1, c2}
  None = None
  MP_WAVY_KERNEL_KQUEUE_XIDENT_MAX = 2
  Wrap = 2
SYMMETRY Symmetry
INVARIANTS NoSpuriousEMFILE XidentOwned OwnEvent
