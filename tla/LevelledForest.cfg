CONSTANTS
  MaxView = 5
  ByzNo = 1
SPECIFICATION Spec
INVARIANTS
  IndexesAgree
  ChildrenComplete
  WalkIsFull
PROPERTIES
  ImplementsStore
  CommitAccounts
