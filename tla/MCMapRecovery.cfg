SPECIFICATION FairSpec
CONSTANTS
  p1 = p1
  p2 = p2
  Paths <- TwoPaths
  ConfRetry <- OneRetry
  checkint = 1
  Results = {"UP", "GHOST", "DOWN"}
  ImplicitTpgs = TRUE
  Faults = {}
  Operator = FALSE
INVARIANTS TypeOK RecoveryQueues
PROPERTIES QueueingStops PathComesBack
