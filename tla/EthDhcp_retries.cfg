SPECIFICATION FairSpec
CONSTANTS
  A = A  B = B  IpA = IpA  IpB = IpB
  Servers = {A, B}  Ips = {IpA, IpB}
  NoIp = NoIp  NoServer = NoServer  ForeignIp = ForeignIp
  OffersOf <- MCOffersOf  Terms <- MCTerms
  Gateway = Gateway  Sid = Sid
  Options = {Gateway}  ServerIdentifier = Sid  Carried <- MCCarried
  DefaultLease = 4
  Timeout = 1  ResponseTimeout = 0
  TicksPerSecond = 2
  MaxXid = 2  MaxGap = 3

PROPERTIES RetriesAfterError
