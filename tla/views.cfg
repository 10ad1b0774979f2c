SPECIFICATION Spec
CONSTANTS
  reader = reader
  writer = writer
  s1 = s1
  Requests = {reader, writer}
  Kinds <- TheKinds
  Credentials <- TheCredentials
  RoleOf <- TheRoles
  ALLOWED_ORIGINS <- TheOrigins
  Headers <- TheHeaders
  Events <- TheEvents
  Triage = {"FALSE_POSITIVE"}
  MaxAlerts = 2
  MaxIncidents = 1
  PageSize = 1
INVARIANTS
  
  AnswersAgree
PROPERTIES
  ChangesAreAuthorised
CHECK_DEADLOCK FALSE
