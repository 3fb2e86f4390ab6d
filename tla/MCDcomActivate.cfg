SPECIFICATION FairSpec
CONSTANTS
  a1 = a1
  a2 = a2
  a3 = a3
  Acts = {a1, a2, a3}
  SyncActs = {a3}
  Oxids = {o1, o2}
  Ipids = {i1, i2}
  None = None
CHECK_DEADLOCK FALSE
INVARIANTS ToldOnce UsableObject RemUnknownFresh
PROPERTIES EveryOwnerTold
