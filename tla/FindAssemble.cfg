CONSTANTS
  Byte <- MCByte
  CR = "CR"
  CmdWords <- MCCmdWords
  RemWord <- Rem
  Messages <- UnfinishedMessages
  MAX_RECV_BUF_SIZE = 6
  MaxSends = 1
  Pipelined = FALSE
SPECIFICATION Spec
PROPERTIES TimeoutWhileAssembling
CHECK_DEADLOCK FALSE
