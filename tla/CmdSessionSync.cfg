CONSTANTS
  Byte <- MCByte
  CR = "CR"
  CmdWords <- MCCmdWords
  RemWord <- Rem
  Messages <- SyncMessages
  MAX_RECV_BUF_SIZE = 4
  MaxSends = 3
  Pipelined = FALSE
SPECIFICATION FairSpec
INVARIANTS ServedAsSent NoSpuriousClose
PROPERTIES ImplementsService EveryLineAnswered
CHECK_DEADLOCK FALSE
