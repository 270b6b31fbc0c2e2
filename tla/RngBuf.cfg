CONSTANTS
  Byte <- MCByte
  nbytes = 3
SPECIFICATION Spec
INVARIANTS TypeOK CountsAgree SearchFindsFirst
PROPERTIES ImplementsFifo
