CONSTANTS
  Byte <- MCByte
  CR = "CR"
  CmdWords <- MCCmdWords
  RemWord <- Rem
  Messages <- MixedMessages
  MAX_RECV_BUF_SIZE = 6
  MaxSends = 3
  Pipelined = TRUE
SPECIFICATION FairSpec
INVARIANTS TypeOK NoNullEvent NoStrandedEvent SinglePass ControlShape
PROPERTIES ImplementsService ImplementsFairService GoneIsFreed
CHECK_DEADLOCK FALSE
