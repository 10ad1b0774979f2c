SPECIFICATION Spec
CONSTANTS
  a1 = a1
  a2 = a2
  a3 = a3
  a4 = a4
  Sessions = {s1, s2}
  Alerts <- Four
  Incidents = {i1, i2}
  Keys <- OneKey
  KeyOf <- EventKey
  TimeOf <- Times
  Drills <- OneDrill
  Window = 2
  Cap = 2
  MaxDeletions = 1
  None = None
SYMMETRY Symmetry
INVARIANTS
  StoreTypeOK
  NothingIngestedIsLeftOut
  OneIncidentPerIngested
  WindowsCoverAlerts
  CountsAreLinks
PROPERTIES
  ClosedIncidentsDoNotGrow
  ImplementsLedger
CHECK_DEADLOCK FALSE
