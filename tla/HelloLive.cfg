CONSTANTS
  n1 = n1
  me = me
  otherIf = otherIf
  Node <- OneNode
  myIpAddr <- me
  bcastAddr <- me
  HELLO_NODE_LIMIT = 2
  MaxWaiting = 2
  Crowded = FALSE
  ConnectFails = FALSE
SPECIFICATION FairSpec
PROPERTIES DeadNodeForgotten LiveNodeConnected
CHECK_DEADLOCK FALSE
