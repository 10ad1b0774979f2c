SPECIFICATION Spec
CONSTANTS
  Requests = {r1, r2}
  Ops <- HostOps
  Tasks = {t1, t2}
  Workers = {w1, w2}
  Manual = {m1}
  Pollers = {p1}
  None = None
  MaxCalls = 4
  MaxBoots = 1
  CancelMayTimeOut = TRUE
  SaveMayFail = FALSE
SYMMETRY Symmetry
INVARIANTS
  TypeOK
  MonitorLoopIsOwned
  NoCommitAcrossResume
  BroadcastIsCurrent
  CountersAreExact
PROPERTIES
  ImplementsAuthority
  
CHECK_DEADLOCK FALSE
