CONSTANTS
  n1 = n1
  me = me
  otherIf = otherIf
  Node <- OneNode
  myIpAddr <- me
  bcastAddr <- me
  HELLO_NODE_LIMIT = 2
  MaxWaiting = 1
  Crowded = FALSE
  ConnectFails = TRUE
SPECIFICATION Spec
PROPERTIES PingsOnlyConnected
CHECK_DEADLOCK FALSE
