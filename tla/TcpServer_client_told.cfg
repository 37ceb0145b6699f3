\* README.md:60 against the client branch of createTcpSession.
SPECIFICATION Spec
CONSTANTS
  a = a
  b = b
  o1 = o1
  o2 = o2
  Peers <- OneAddress
  Ips = {a, b}
  IpOf <- AddressOf
  Ids <- OneAddress
  IdOf <- HashOf
  Owners = {o1, o2}
  NoOwner = NoOwner
  NoSession = NoSession
  Kinds = {"disconnect"}
  MaxTcpClients = 2
  MaxTcpSessions = 2
PROPERTIES ClientOwnerTold
