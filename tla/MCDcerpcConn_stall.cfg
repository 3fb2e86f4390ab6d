SPECIFICATION Spec
CONSTANTS
  r1 = r1
  a1 = a1
  Calls = {r1}
  Alters = {a1}
  AsyncCalls = {}
  SyncCalls = {}
  CallIdMod = 16
  MaxFrags = 1
INVARIANTS
  QueueServed
CHECK_DEADLOCK FALSE
