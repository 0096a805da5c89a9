SPECIFICATION Spec
CONSTANTS
  p1 = p1
  p2 = p2
  Paths <- OnePath
  ConfRetry <- AllRetries
  checkint = 2
  Results = {"UP", "DOWN"}
  ImplicitTpgs = FALSE
  Faults = {"read", "load", "message"}
  Operator = TRUE
INVARIANTS FeaturesTrackKernel
PROPERTIES StaysTimedOut CountdownOnlyFalls
