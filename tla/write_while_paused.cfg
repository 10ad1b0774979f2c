SPECIFICATION Spec
CONSTANTS
  Requests = {r1}
  Ops <- HostOps
  Tasks = {t1, t2}
  Workers = {w1, w2}
  Manual = {m1}
  Pollers = {}
  None = None
  MaxCalls = 3
  MaxBoots = 1
  CancelMayTimeOut = FALSE
  SaveMayFail = FALSE
PROPERTY NoAutomaticWriteWhilePaused
CHECK_DEADLOCK FALSE
