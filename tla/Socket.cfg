CONSTANTS
  Senders = {1, 2}
  MaxMsgs = 3
  Durations = {0, 1}
  Faults = {"slow", "flaky", "crash", "peerCrash"}
  MaxFaults = 2
  MaxTime = 1
SPECIFICATION Spec
INVARIANTS
  ConnectionsBounded
  AtMostOnce
  FaultsEnd
  
PROPERTIES
  EventuallyDelivered
CHECK_DEADLOCK FALSE
