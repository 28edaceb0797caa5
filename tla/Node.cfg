CONSTANTS
  Types = {"block", "vote", "tmo", "vmo"}
  MaxMsgs = 2
  MaxTxns = 3
  FirstLeader = TRUE
  Txns = {1, 2, 3}
  limit = 1
  BSize = 2
  ChanSize = 1
SPECIFICATION NodeSpec
INVARIANTS
  StuckOnlyByRace
  
  PoolBound
  OldFirst
PROPERTIES
  TxnStartsLoop
  LoopGoesOn
  TxnsReachPool
CHECK_DEADLOCK FALSE
