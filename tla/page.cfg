SPECIFICATION Spec
CONSTANTS
  Calls = {c1, c2}
  Others = {o1}
  Sockets = {s1}
  MaxClicks = 2
  MaxFailures = 1
  MaxBeats = 1
  Nobody = Nobody
INVARIANTS
  NobodyWaitsForNothing
PROPERTY PageFollowsServer
CHECK_DEADLOCK FALSE
