SPECIFICATION Spec
CONSTANTS
  Handlers = {h1, h2}
  Clients = {c1}
  Users = {admin}
  Tokens = {t1, t2, t3}
  Tickets = {k1}
  MaxSessions = 2
  MaxTickets = 1
  SessionLife = 1
  TicketLife = 0
  MaxAttempts = 1
  AttemptWindow = 1
  Lockout = 2
  None = None
INVARIANTS
  StoreIsBounded
  OneSessionPerLogin
  TicketsAdmitOnce
  FailuresAreBounded
PROPERTIES
  EvictionIsFair
  LockoutsEnd
CHECK_DEADLOCK FALSE
