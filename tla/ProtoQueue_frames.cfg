\* Messages with special bytes compete for a ring that is too small for them.
SPECIFICATION FairSpec
CONSTANTS
  Byte <- Bytes
  Size = 7
  BufSize = 7
  Messages <- FourMessages
  NoMessage = NoMessage
INVARIANTS ParserSynchronised
PROPERTIES RefinesQueue CallsReturn
