\* Two peers that connect, send and disconnect: one place in the client list, two or
\* one in the session table.
SPECIFICATION OwnersSpec
CONSTANTS
  a = a
  b = b
  o1 = o1
  o2 = o2
  Peers <- TwoPeers
  Ips = {a, b}
  IpOf <- AddressOf
  Ids <- TwoPeers
  IdOf <- HashOf
  Owners = {o1}
  NoOwner = NoOwner
  NoSession = NoSession
  Kinds = {"disconnect", "reconnect", "recv"}
  MaxTcpClients = 1
  MaxTcpSessions = 2
SYMMETRY Addresses
INVARIANTS ClientBook ListenersMatch
PROPERTIES SessionLeaves NoUnattendedLink
