SPECIFICATION FairSpec
CONSTANTS
  r1 = r1
  r2 = r2
  r3 = r3
  Calls = {r1, r2, r3}
  Alters = {}
  AsyncCalls = {r2}
  SyncCalls = {r3}
  CallIdMod = 16
  MaxFrags = 2
INVARIANTS
  TypeOK
  CallbackOnce
  SerialCalls
  SoundReplyAccepted
  AbortExplained
PROPERTIES
  ImplementsService
  EventuallyEnds
CHECK_DEADLOCK FALSE
