SPECIFICATION Spec
CONSTANTS
  e1 = e1
  e2 = e2
  e3 = e3
  e4 = e4
  f2 = f2
  Uploads = {u1}
  Audits = {w1, w2}
  Alerts = {a1, a2}
  Events <- TwoKeys
  KeyOf <- EventKey
  TimeOf <- EventTime
  Window = 1
  Batch = 2
  MaxEvents = 3
  None = None
SYMMETRY Symmetry
INVARIANTS
  CountsAreEvents
  WindowsEncloseEvents
  ClosedAlertsDoNotRecur
CHECK_DEADLOCK FALSE
