SPECIFICATION Spec
CONSTANTS
  Blocks = {b1, b2, b3}
  Refs = {r1, r2}
  MRef = m_ref
  MBuf = m_buffer
  None = None
  Header = 1
  InitSize = 2
  Lens = {1, 2}
  MaxSize = 4
  MaxBytes = 3
SYMMETRY Symmetry
INVARIANTS CountExact DataIntact RetainedIntact
