SPECIFICATION FairSpec
CONSTANTS
  Requests = {r1, r2}
  Ops <- HostOps
  Tasks = {t1, t2}
  Workers = {w1, w2}
  Manual = {m1}
  Pollers = {p1}
  None = None
  MaxCalls = 2
  MaxBoots = 1
  CancelMayTimeOut = FALSE
  SaveMayFail = FALSE
PROPERTIES
  CallsReturn
  MonitoringKeepsScanning
  TimedOutPauseResolves
CHECK_DEADLOCK FALSE
