\* Ring of four slots; two retained entries; names of up to 7 characters; two packets
\* on one object; two sessions for three peers.  A message object stops at its bound.
SPECIFICATION ClassesSpec
CONSTANTS
  Byte <- TwoBytes
  Size = 4
  RetainedMessages <- SomeMessages
  Filters <- SomeFilters
  MaxEntry = 2
  BufferLength = 16
  Free = Free  NoList = NoList
  Objects = {filter, name}
  Names <- TopicNames
  MaxTopicLength = 7
  Identifiers = {1, 258, 65280}
  ClientIds <- SomeClientIds
  Publications <- SomePublications
  TopicLists <- SomeLists
  GrantLists <- SomeGrants
  MaxTopicsInSubscribe = 5
  MaxStringLength = 50
  MaxPackets = 2
  Peers <- ThreePeers
  SessionIds <- ThreePeers
  IdOf <- OwnIds
  Servers = {s1, s2}
  NoServer = NoServer
  MaxTcpSessions = 2
INVARIANTS NamesAreWellFormed FiltersFindTopics PacketsAreFramed PacketsReadBack CallbacksFindSessions
PROPERTIES RefinesFifo RefinesRetained LoadRestores
CHECK_DEADLOCK FALSE
