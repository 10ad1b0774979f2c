SPECIFICATION HubSpec
CONSTANTS
  Connections = {analyst1, analyst2, guest}
  Privileged = {analyst1, analyst2}
  Casters = {loop, request}
  Loops = {loop}
  analyst1 = analyst1
  analyst2 = analyst2
  guest = guest
SYMMETRY Symmetry
INVARIANT
  ListenersAreServed
CHECK_DEADLOCK FALSE
