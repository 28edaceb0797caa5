CONSTANTS
  N = 3
  ByzNo = 1
  Byz = {}
  HashLeader <- Leaders3
  TimeoutViews = {1}
  MaxView = 4
  Algorithms = {"hotstuff", "fasthotstuff"}
  Masters = {0}
SPECIFICATION Spec
INVARIANTS
  TypeOK
  OneBlockPerView
  QCsCertified
CHECK_DEADLOCK FALSE
