CONSTANTS
  MaxView = 6
  MaxTimeouts = 2
SPECIFICATION Spec
INVARIANTS
  NoGap
  ExactWithoutOverlap
CHECK_DEADLOCK FALSE
