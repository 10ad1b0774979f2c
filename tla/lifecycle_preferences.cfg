SPECIFICATION Spec
CONSTANTS
  Requests = {r1, r2}
  Ops <- AllOps
  Tasks = {t1, t2, t3}
  Workers = {w1}
  Manual = {}
  Pollers = {}
  None = None
  MaxCalls = 4
  MaxBoots = 3
  CancelMayTimeOut = FALSE
  SaveMayFail = TRUE
SYMMETRY Symmetry
INVARIANTS
  ChoiceIsDurable
  SimulatorLoopIsOwned
CHECK_DEADLOCK FALSE
