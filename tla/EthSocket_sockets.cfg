SPECIFICATION FairSpec
CONSTANTS
  MAX_SOCK_NUM = 2
  Ports = {Http}
  NoPort = NoPort  Local = Local
  Http = Http
INVARIANTS PortAgrees OneListener
PROPERTIES NeverTaken UnreadKept ListensAgain 
