CONSTANTS
  N = 2
  Nodes <- MCNodes
  Self = 2
  LeadsFirst = TRUE
  Cap = 1
  MaxView = 1
SPECIFICATION FairSpec
INVARIANTS
  ViewsInOrder
  CertifiedOnce
  FullMeansBehind
  IndInv
  DeadlockMeansBehind
PROPERTIES
  ViewNeverGoesBack
  EnteredViewHandled
CHECK_DEADLOCK FALSE
