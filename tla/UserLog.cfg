SPECIFICATION FairLogging
CONSTANTS
  p1 = p1  p2 = p2  o1 = o1  o2 = o2  o3 = o3  n1 = n1  n2 = n2
  Proc = {p1, p2}
  Obj = {o1, o2, o3}
  Name = {n1, n2}
  NoRow = NoRow
  MaxPhoto = 2
  procOf <- UserLog_procOf
  nameOf <- UserLog_nameOf
  GroupProc = {p1, p2}
  Upd = {1, 2, 3, 4}
  Username = {"x", "y"}
  Title = {"t", "z"}
  MaxGroupPhoto = 2
  NoGroup = NoGroup
  updProc <- GroupLog_updProc
  typeOf <- GroupLog_typeOf
  usernameOf <- GroupLog_usernameOf
  titleOf <- GroupLog_titleOf
  AdminProc = {p1, p2}
  Call = {1, 2, 3}
  Admin = {"a", "b"}
  MaxVersion = 3
  callProc <- GroupAdmins_callProc
  listOf <- GroupAdmins_listOf
INVARIANTS
  AdminsKept
PROPERTIES
  UserKept
  GroupKept
  LoggingEnds
\* Every object, update and call is done, or its worker has died.
CHECK_DEADLOCK FALSE
