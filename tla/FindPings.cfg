CONSTANTS
  Byte <- MCByte
  CR = "CR"
  CmdWords <- MCCmdWords
  RemWord <- Rem
  Messages <- PingMessages
  MAX_RECV_BUF_SIZE = 6
  MaxSends = 3
  Pipelined = TRUE
SPECIFICATION Spec
INVARIANTS EveryCommandExecuted
CHECK_DEADLOCK FALSE
