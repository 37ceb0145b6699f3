\* README.md:101 against addSession, which keeps an old object.
SPECIFICATION Spec
CONSTANTS
  a = a
  b = b
  o1 = o1
  o2 = o2
  Peers <- OnePeer
  Ips = {a, b}
  IpOf <- AddressOf
  Ids <- OnePeer
  IdOf <- HashOf
  Owners = {o1}
  NoOwner = NoOwner
  NoSession = NoSession
  Kinds = {"reconnect", "recv"}
  MaxTcpClients = 1
  MaxTcpSessions = 1
PROPERTIES MessageReachesOwner
