SPECIFICATION FairSpec
CONSTANTS
  Co = {1, 2}
  Main = 0
  Nobody = 99
  max_num = 2
  MaxSilence = 0
  MaxDefer = 1
  Waiters = {1, 2}
  Parents = {1, 2}
  NoParent = 0
  Child = {11, 12}
  AnyPid = 0
  Catchers = {1, 2}
  NoCatcher = 0
  Signo = {11, 12}
  MaxWaits = 2
  MaxChildWaits = 1
  MaxSignalWaits = 2
  Users = {1, 2, 3}
  NoUser = 0
  Programs = {
    {"recv", "send", "dns4", "close"},
    {"recv", "send", "dns4", "cancel_read", "close"},
    {"recv", "send", "poll", "dns4", "dns6", "cancel_read", "cancel_write", "close"},
    {"recv", "send", "cancel_read", "close", "ssl"}}
  AioEvent = {"e1", "e2"}
  Core = {"t1"}
  Extra = {"t2"}
  worker_num = 2
  AioLoop = "loop"
INVARIANTS
  SwitchSound
  OutputIsOwn
  SilenceIsOwn
  WaitsArePrivate
  LoopSound
  ChildrenReported
  SignalsReported
  ThreadsKept
  SocketBound
  PoolsAgree
PROPERTIES
  TimersKept
  WaitsEnd
\* The parts end: their bounds are reached, the loop or the process has ended.
CHECK_DEADLOCK FALSE
