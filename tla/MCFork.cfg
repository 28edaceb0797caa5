CONSTANTS
  N = 4
  ByzNo = 1
  Byz = {}
  HashLeader <- Leaders4
  TimeoutViews = {4, 5, 6, 7}
  MaxView = 10
  Algorithms = {"hotstuff"}
  Masters = {0}
  Held <- ForkHeld
  Timers <- ForkTimers
  Phases = 10
SPECIFICATION ScenarioSpec
INVARIANTS
  Agreement
CHECK_DEADLOCK FALSE
