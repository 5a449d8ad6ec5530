SPECIFICATION FairSpec
CONSTANTS
  p1 = p1  p2 = p2  r1 = r1  r2 = r2  r3 = r3  a = a  b = b  b2 = b2  c = c  d = d
  Proc = {p1, p2}
  Req = {r1, r2, r3}
  TgFile = {a, b, b2}
  Content = {c, d}
  MaxTry = 1
  NoFile = NoFile
  procOf <- FileStore_procOf
  fileOf <- FileStore_fileOf
  answered <- FileStore_answered
  contentOf <- FileStore_contentOf
INVARIANTS FilesKept
PROPERTIES ResolveEnds
CHECK_DEADLOCK FALSE
