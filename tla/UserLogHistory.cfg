SPECIFICATION Spec
CONSTANTS
  p1 = p1  p2 = p2  o1 = o1  o2 = o2  o3 = o3  n1 = n1  n2 = n2
  Proc = {p1, p2}
  Obj = {o1, o2, o3}
  Name = {n1, n2}
  NoRow = NoRow
  MaxPhoto = 2
  procOf <- UserLog_procOf
  nameOf <- UserLog_nameOf
PROPERTY HistoryHoldsPhoto
CHECK_DEADLOCK FALSE
