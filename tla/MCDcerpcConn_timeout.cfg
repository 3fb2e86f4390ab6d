SPECIFICATION Spec
CONSTANTS
  r1 = r1
  r2 = r2
  r3 = r3
  Calls = {r1, r2, r3}
  Alters = {}
  AsyncCalls = {}
  SyncCalls = {}
  CallIdMod = 16
  MaxFrags = 1

PROPERTIES
  TimeoutIsIndividual
CHECK_DEADLOCK FALSE
