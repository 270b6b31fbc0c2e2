CONSTANTS
  n1 = n1
  me = me
  Node <- OneNode
  myIpAddr <- me
  HELLO_NODE_LIMIT = 1
  MaxWaiting = 1
  Slot <- Slots
  NodesCrash = TRUE
  ServerCrashes = TRUE
  MaxLost = 1
SPECIFICATION FairSpec
INVARIANTS TypeOK OneConnectionPerNode
PROPERTIES ClosedIsFreed PingAnswered Reconnected
CHECK_DEADLOCK FALSE
