CONSTANTS
  N = 4
  ByzNo = 1
  Byz = {}
  HashLeader <- Leaders4
  TimeoutViews = {0, 1, 2, 3, 4, 5, 6, 7}
  MaxView = 8
  MaxLost = 2
  Algorithms = {"hotstuff", "tchs", "fasthotstuff"}
  Masters = {0}
SPECIFICATION FaultsSpec
INVARIANTS
  CommitBacked
  
  VoteTakesLock
  LossTolerated
  OnlyLocksStopVotes
  AgreementAfterLoss
PROPERTIES
  ImplementsVoting
CHECK_DEADLOCK FALSE
