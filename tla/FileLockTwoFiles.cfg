SPECIFICATION Spec
CONSTANTS
  p1 = p1  p2 = p2  f = f  g = g
  h1 = h1  h2 = h2  h3 = h3  h4 = h4  h5 = h5  h6 = h6
  none = none
  Proc = {p1, p2}
  File = {f, g}
  Handle = {h1, h2, h3, h4, h5, h6}
  NoHandle = none
  procOf <- TwoFiles_procOf
  fileOf <- TwoFiles_fileOf
  outer <- TwoFiles_outer
CHECK_DEADLOCK FALSE
INVARIANTS LockSafe StuckOnlyByCycle
