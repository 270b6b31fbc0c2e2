CONSTANTS
  n1 = n1
  me = me
  otherIf = otherIf
  Node <- OneNode
  myIpAddr <- me
  bcastAddr <- otherIf
  HELLO_NODE_LIMIT = 2
  MaxWaiting = 3
  Crowded = TRUE
  ConnectFails = TRUE
SPECIFICATION Spec
INVARIANTS TypeOK OneClientPerNode
CHECK_DEADLOCK FALSE
