SPECIFICATION FairSpec
CONSTANTS
  r1 = r1
  r2 = r2
  a1 = a1
  Calls = {r1, r2}
  Alters = {a1}
  AsyncCalls = {}
  SyncCalls = {}
  CallIdMod = 16
  MaxFrags = 2
INVARIANTS
  OwnReply
  AbortExplained
PROPERTIES
  EventuallyEnds
CHECK_DEADLOCK FALSE
