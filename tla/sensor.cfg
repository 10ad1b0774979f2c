SPECIFICATION Spec
CONSTANTS
  process = process
  listener = listener
  file = file
  entry = entry
  Automatic = {t1}
  Manual = {m1}
  Conditions <- Two
  Kind <- TheKinds
  Window = 1
  CacheLimit = 0
  FullEvery = 2
  MaxEvents = 2
  None = None
INVARIANTS
  RepeatsAreSilenced
  KnownFilesAreAccountedFor
PROPERTIES
  LastingConditionsAreStored
  StartupFilesAreStoredOrMissed
CHECK_DEADLOCK FALSE
