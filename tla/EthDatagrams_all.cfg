\* Receive memory for six units; two names on two ports, an answer that is late, wrong or cut off.
SPECIFICATION Spec
CONSTANTS
  Size = 6  Pointers = 7  Threshold = 3
  Ids = {d1, d2}  MaxPayload = 3
  d1 = d1  d2 = d2
  h1 = h1  h2 = h2  ip = ip  p1 = p1  p2 = p2  i1 = i1  i2 = i2
  Names = {h1, h2, ip}  Numeric = {ip}  Leading = {h2}
  Server = Server  Stranger = Stranger  NoServer = NoServer  NoAddress = NoAddress
  PartAddress = PartAddress
  Ports = {p1, p2}
  RequestIds = {i1, i2}
  IntMax = 32767
  MaxPolls = 1  MaxQueue = 1
INVARIANTS MemoryAgrees RightAddress
PROPERTIES RefinesDatagrams ParseReturns WaitsThreeTimes ConnectReturns
