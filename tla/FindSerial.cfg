CONSTANTS
  s1 = s1
  s2 = s2
  serial = serial
  Session <- TwoSessions
  Serial <- serial
  Word <- Words7
  LineFeed <- Feeds
  NamedBy <- Named
  atoi <- Number
  Chunk <- Chunks
  MaxLines = 2
SPECIFICATION Spec
PROPERTIES TerminatorCompletes
CHECK_DEADLOCK FALSE
