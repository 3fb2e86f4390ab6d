SPECIFICATION FairSpec
CONSTANTS
  MaxRounds = 2
INVARIANTS
  OnePipe
  NoStaleContext
  AuthComplete
PROPERTIES
  ConnectAnswered
CHECK_DEADLOCK FALSE
