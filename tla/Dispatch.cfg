SPECIFICATION FairDispatch
CONSTANTS
  short = short  fatal = fatal  u1 = u1  u2 = u2  u3 = u3
  Update = {short, fatal, u1, u2}
  Short = {short}
  Fatal = {fatal}
  nlogger = 3
  Backlog = 1
  NoWorker = NoWorker
INVARIANTS DispatchSound
PROPERTIES FailoverEnds DeliveredIsHandled
CHECK_DEADLOCK FALSE
