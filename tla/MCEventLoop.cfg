SPECIFICATION FairSpec
CONSTANTS
  NFds = 2
  NTimers = 2
  MaxEvents = 2
  Wanted = {{"R"}, {"W"}}
  Conds = {"R", "E"}
  MaxOps = 5
  MaxTime = 1
  MaxDepth = 2
CHECK_DEADLOCK FALSE
INVARIANTS BatchAlive TimerOnce
PROPERTIES TimerOrder FdServed
