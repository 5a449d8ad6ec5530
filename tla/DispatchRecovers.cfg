SPECIFICATION DispatchSpec
CONSTANTS
  short = short  fatal = fatal  u1 = u1  u2 = u2  u3 = u3
  Update = {fatal, u1, u2, u3}
  Short = {}
  Fatal = {fatal}
  nlogger = 2
  Backlog = 1
  NoWorker = NoWorker
PROPERTY RecoversToAnother
CHECK_DEADLOCK FALSE
