CONSTANTS
  N = 4
  ByzNo = 1
  Byz = {}
  HashLeader <- Leaders4
  TimeoutViews = {1, 2, 3, 4, 5}
  MaxView = 6
  SlowNo = 1
  MaxHeld = 2
  HeldViews = {1, 2, 3, 4}
  Algorithms = {"streamlet", "lbft"}
  Masters = {0}
SPECIFICATION SlowSpec
INVARIANTS
  SlowReplicaTolerated
  CommitLinked
  
CHECK_DEADLOCK FALSE
