SPECIFICATION FairSpec
CONSTANTS
  p1 = p1  p2 = p2  f = f  g = g
  h1 = h1  h2 = h2  h3 = h3  h4 = h4  h5 = h5  h6 = h6
  none = none
  Proc = {p1, p2}
  File = {f}
  Handle = {h1, h2, h3, h4, h5, h6}
  NoHandle = none
  procOf <- OneFile_procOf
  fileOf <- OneFile_fileOf
  outer <- OneFile_outer
INVARIANTS LockSafe
PROPERTIES NoBarging ImplementsMutex LockServed
CHECK_DEADLOCK FALSE
