CONSTANTS
  N = 4
  ByzNo = 1
  Byz = {}
  HashLeader <- Leaders4
  TimeoutViews = {}
  MaxView = 2
  Algorithms = {"hotstuff"}
  Masters = {0}
SPECIFICATION Spec
INVARIANTS
  BlockNotLost
CHECK_DEADLOCK FALSE
