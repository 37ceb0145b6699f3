-------------------------- MODULE EthSocket_proofs --------------------------
(***************************************************************************)
(* Theorems about EthSocket, for any number of sockets and of servers:     *)
(* types, the record of the servers' sockets, one listener to a server,    *)
(* and that neither an open connection is taken nor its data thrown away.  *)
(***************************************************************************)
EXTENDS EthSocket, TLAPS

USE DEF chip, call, loop, Socks, Handles, Live, Closing, Status, Ops, Kinds

(* The strengthening: a socket that listens is on record as its server's,  *)
(* a scan has seen every listener of its server that comes before the      *)
(* socket in hand, and the socket that it is looking at was connected.     *)
Recorded ==
  \A s \in Socks : status[s] = "LISTEN" => server_port[s] = port[s]

ScanSeen ==
  op \in {"scan", "check", "quiet"} =>
    /\ by \in Ports
    /\ ~listening => \A s \in Socks : status[s] = "LISTEN" /\ port[s] = by => s >= at

InHand ==
  /\ op \in {"check", "quiet"} =>
       at \in Socks /\ status[at] \in {"ESTABLISHED", "CLOSE_WAIT", "CLOSED"}
  /\ op \in {"check", "quiet"} /\ stat = "CLOSE_WAIT" => status[at] # "ESTABLISHED"
  /\ op = "quiet" /\ stat = "CLOSE_WAIT" => ~unread[at]
  /\ op = "dial" => by = "dialler"
  /\ op \in {"connect", "stop"} => by \in Handles /\ index[by] \in Socks
  /\ op \in {"room", "send"} => at \in Socks

IInv == TypeOK /\ PortAgrees /\ OneListener /\ Recorded /\ ScanSeen /\ InHand

(* A socket that socketBegin takes is closed or closing.                   *)
LEMMA ChosenIsFree ==
  ASSUME NEW s \in 0..MAX_SOCK_NUM, Chosen(s), s # MAX_SOCK_NUM
  PROVE  s \in Socks /\ status[s] \in Closing \cup {"CLOSED"}
BY SocketConstantsOK DEF Chosen, First, Free, Reclaimable

LEMMA DisconnectedStatus ==
  ASSUME NEW st \in Status
  PROVE  /\ Disconnected(st) \in Status
         /\ Disconnected(st) \notin {"LISTEN", "SYNSENT"} \cup Live
         /\ Disconnected(st) = "UDP" <=> st = "UDP"
         /\ st = "CLOSED" => Disconnected(st) = "CLOSED"
         /\ Disconnected(st) = "CLOSED" => st \in {"CLOSED", "LISTEN", "SYNSENT"}
BY DEF Disconnected

(* A step that ends connections, and opens none, keeps the invariants of   *)
(* the sockets, whatever else it does.                                     *)
LEMMA ClosingKeeps ==
  ASSUME IInv, NEW s \in Socks, NEW to \in Closing \cup {"CLOSED", "UDP"},
         to = "UDP" => status[s] = "UDP", to \in Closing => status[s] # "CLOSED",
         status' = [status EXCEPT ![s] = to], UNCHANGED <<port, unread, server_port>>
  PROVE  /\ status' \in [Socks -> Status]
         /\ PortAgrees' /\ OneListener' /\ Recorded'
BY DEF IInv, TypeOK, PortAgrees, OneListener, Recorded

LEMMA DisconnectKeeps ==
  ASSUME IInv, NEW s \in Socks, socketDisconnect(s), UNCHANGED <<port, unread, server_port>>
  PROVE  /\ status' \in [Socks -> Status]
         /\ PortAgrees' /\ OneListener' /\ Recorded'
<1>1. status[s] \in Status BY DEF IInv, TypeOK
<1>2. /\ Disconnected(status[s]) \in Closing \cup {"CLOSED", "UDP"}
      /\ Disconnected(status[s]) = "UDP" => status[s] = "UDP"
      /\ Disconnected(status[s]) \in Closing => status[s] # "CLOSED"
  BY <1>1, DisconnectedStatus
<1>3. status' = [status EXCEPT ![s] = Disconnected(status[s])]
  BY DEF socketDisconnect, IInv, TypeOK
<1>4. QED BY <1>2, <1>3, ClosingKeeps

LEMMA CloseKeeps ==
  ASSUME IInv, NEW s \in Socks, socketClose(s), UNCHANGED <<port, unread, server_port>>
  PROVE  /\ status' \in [Socks -> Status]
         /\ PortAgrees' /\ OneListener' /\ Recorded'
BY ClosingKeeps DEF socketClose

(* The chip moves connections on while any call is under way.              *)
LEMMA ChipKeepsIInv ==
  ASSUME IInv, NEW s \in Socks,
         PeerConnects(s) \/ PeerCloses(s) \/ ConnectionEnds(s) \/ ConnectionFails(s)
  PROVE  IInv'
<1>1. PICK to \in Status \ {"LISTEN", "SYNSENT", "UDP"} :
        /\ status' = [status EXCEPT ![s] = to]
        /\ to = "ESTABLISHED" => status[s] \in {"LISTEN", "SYNSENT"}
        /\ to = "CLOSE_WAIT" => status[s] = "ESTABLISHED"
        /\ status[s] # "UDP"
        /\ to \in Closing => status[s] \in Closing
        /\ status[s] # "CLOSED"
  BY DEF PeerConnects, PeerCloses, ConnectionEnds, ConnectionFails, Chip
<1>2. UNCHANGED <<port, unread, server_port, index, call, loop, sent>>
  BY DEF PeerConnects, PeerCloses, ConnectionEnds, ConnectionFails, Chip
<1>3. TypeOK' BY <1>1, <1>2 DEF IInv, TypeOK
<1>4. PortAgrees' BY <1>1, <1>2 DEF IInv, TypeOK, PortAgrees
<1>5. OneListener' /\ Recorded' BY <1>1, <1>2 DEF IInv, TypeOK, OneListener, Recorded
<1>6. ScanSeen' BY <1>1, <1>2 DEF IInv, TypeOK, ScanSeen
<1>7. InHand' BY <1>1, <1>2 DEF IInv, TypeOK, InHand
<1>8. QED BY <1>3, <1>4, <1>5, <1>6, <1>7 DEF IInv

LEMMA DataKeepsIInv ==
  ASSUME IInv, SendCompletes \/ \E s \in Socks : DataArrives(s)
  PROVE  IInv'
<1>1. CASE SendCompletes
  BY <1>1 DEF SendCompletes, IInv, TypeOK, PortAgrees, OneListener, Recorded, ScanSeen, InHand
<1>2. CASE \E s \in Socks : DataArrives(s)
  <2>1. PICK s \in Socks : DataArrives(s) BY <1>2
  <2>2. TypeOK' BY <2>1 DEF DataArrives, IInv, TypeOK
  <2>3. PortAgrees' /\ OneListener' /\ Recorded' /\ ScanSeen'
    BY <2>1 DEF DataArrives, IInv, PortAgrees, OneListener, Recorded, ScanSeen
  <2>4. InHand' BY <2>1 DEF DataArrives, IInv, TypeOK, InHand
  <2>5. QED BY <2>2, <2>3, <2>4 DEF IInv
<1>3. QED BY <1>1, <1>2

(* A socket that was closed or closing is opened for a client or for UDP.  *)
LEMMA OpenKeeps ==
  ASSUME IInv, NEW s \in Socks, NEW to \in {"SYNSENT", "UDP"}, Open(s, Local, to)
  PROVE  /\ status' \in [Socks -> Status] /\ port' \in [Socks -> Ports \cup {Local}]
         /\ unread' \in [Socks -> BOOLEAN]
         /\ server_port' \in [Socks -> Ports \cup {NoPort}]
         /\ PortAgrees' /\ OneListener' /\ Recorded'
<1>1. /\ status' \in [Socks -> Status] /\ port' \in [Socks -> Ports \cup {Local}]
      /\ unread' \in [Socks -> BOOLEAN]
      /\ server_port' \in [Socks -> Ports \cup {NoPort}]
  BY DEF Open, IInv, TypeOK
<1>2. PortAgrees' BY DEF Open, IInv, TypeOK, PortAgrees
<1>3. OneListener' BY DEF Open, IInv, TypeOK, OneListener
<1>4. Recorded' BY DEF Open, IInv, TypeOK, Recorded
<1>5. QED BY <1>1, <1>2, <1>3, <1>4

(* A server begins when none of its sockets listens.                       *)
LEMMA ServerBeginsKeeps ==
  ASSUME IInv, NEW p \in Ports, ServerBegins(p),
         \A s \in Socks : ~(status[s] = "LISTEN" /\ port[s] = p)
  PROVE  /\ status' \in [Socks -> Status] /\ port' \in [Socks -> Ports \cup {Local}]
         /\ unread' \in [Socks -> BOOLEAN]
         /\ server_port' \in [Socks -> Ports \cup {NoPort}]
         /\ PortAgrees' /\ OneListener' /\ Recorded'
<1>1. PICK s \in 0..MAX_SOCK_NUM :
        /\ Chosen(s)
        /\ IF s = MAX_SOCK_NUM THEN UNCHANGED <<chip, server_port>>
           ELSE /\ status' = [status EXCEPT ![s] = "LISTEN"]
                /\ port' = [port EXCEPT ![s] = p]
                /\ unread' = [unread EXCEPT ![s] = FALSE]
                /\ server_port' = [server_port EXCEPT ![s] = p]
  BY DEF ServerBegins
<1>2. CASE s = MAX_SOCK_NUM
  BY <1>1, <1>2 DEF IInv, TypeOK, PortAgrees, OneListener, Recorded
<1>3. CASE s # MAX_SOCK_NUM
  <2>1. s \in Socks /\ p # NoPort BY <1>1, <1>3, ChosenIsFree, SocketConstantsOK
  <2>2. /\ status' = [status EXCEPT ![s] = "LISTEN"]
        /\ port' = [port EXCEPT ![s] = p]
        /\ unread' = [unread EXCEPT ![s] = FALSE]
        /\ server_port' = [server_port EXCEPT ![s] = p]
    BY <1>1, <1>3
  <2>3. /\ status' \in [Socks -> Status] /\ port' \in [Socks -> Ports \cup {Local}]
        /\ unread' \in [Socks -> BOOLEAN]
        /\ server_port' \in [Socks -> Ports \cup {NoPort}]
    BY <2>1, <2>2 DEF IInv, TypeOK
  <2>4. /\ status'[s] = "LISTEN" /\ port'[s] = p /\ server_port'[s] = p
        /\ \A r \in Socks \ {s} :
             status'[r] = status[r] /\ port'[r] = port[r] /\ server_port'[r] = server_port[r]
    BY <2>1, <2>2 DEF IInv, TypeOK
  <2>5. PortAgrees'
    <3>1. SUFFICES ASSUME NEW r \in Socks, server_port'[r] # NoPort, status'[r] # "CLOSED"
                   PROVE  port'[r] = server_port'[r] /\ status'[r] \notin {"UDP", "SYNSENT"}
      BY DEF PortAgrees
    <3>2. CASE r = s BY <2>4, <3>2
    <3>3. CASE r # s BY <2>4, <3>1, <3>3 DEF IInv, PortAgrees
    <3>4. QED BY <3>2, <3>3
  <2>6. OneListener'
    <3>1. SUFFICES ASSUME NEW q \in Socks, NEW r \in Socks, status'[q] = "LISTEN",
                          status'[r] = "LISTEN", port'[q] = port'[r]
                   PROVE  q = r
      BY DEF OneListener
    <3>2. CASE q = s \/ r = s BY <2>1, <2>4, <3>1, <3>2
    <3>3. CASE q # s /\ r # s BY <2>4, <3>1, <3>3 DEF IInv, OneListener
    <3>4. QED BY <3>2, <3>3
  <2>7. Recorded'
    <3>1. SUFFICES ASSUME NEW r \in Socks, status'[r] = "LISTEN"
                   PROVE  server_port'[r] = port'[r]
      BY DEF Recorded
    <3>2. CASE r = s BY <2>4, <3>2
    <3>3. CASE r # s BY <2>4, <3>1, <3>3 DEF IInv, Recorded
    <3>4. QED BY <3>2, <3>3
  <2>8. QED BY <2>3, <2>5, <2>6, <2>7
<1>4. QED BY <1>2, <1>3

(* Between calls, nothing is in hand.                                      *)
LEMMA ReturnsKeeps ==
  ASSUME Returns
  PROVE  /\ ScanSeen' /\ InHand'
         /\ op' \in Ops /\ kind' \in Kinds /\ by' \in Handles \cup Ports
         /\ at' \in 0..MAX_SOCK_NUM /\ stat' \in Status /\ listening' \in BOOLEAN
         /\ found' \in 0..MAX_SOCK_NUM /\ sent' \in BOOLEAN
<1>1. ScanSeen' /\ InHand' BY DEF Returns, ScanSeen, InHand
<1>2. /\ op' \in Ops /\ kind' \in Kinds /\ by' \in Handles \cup Ports
      /\ stat' \in Status /\ listening' \in BOOLEAN /\ sent' \in BOOLEAN
  BY DEF Returns
<1>3. at' \in 0..MAX_SOCK_NUM /\ found' \in 0..MAX_SOCK_NUM
  BY SocketConstantsOK DEF Returns
<1>4. QED BY <1>1, <1>2, <1>3

(* The steps of a scan that open and close nothing.                        *)
LEMMA ScanKeepsIInv ==
  ASSUME IInv,
         \/ ScanOther \/ ScanIdle \/ ScanAccept \/ ScanLive \/ ScanData \/ ScanNoData
         \/ \E p \in Ports, k \in {"available", "accept", "write"} : Scan(p, k)
  PROVE  IInv'
<1>1. CASE \E p \in Ports, k \in {"available", "accept", "write"} : Scan(p, k)
  <2>1. PICK p \in Ports, k \in {"available", "accept", "write"} : Scan(p, k) BY <1>1
  <2>2. at' \in 0..MAX_SOCK_NUM /\ found' \in 0..MAX_SOCK_NUM
    BY <2>1, SocketConstantsOK DEF Scan
  <2>3. TypeOK' BY <2>1, <2>2 DEF Scan, IInv, TypeOK
  <2>4. PortAgrees' /\ OneListener' /\ Recorded'
    BY <2>1 DEF Scan, IInv, PortAgrees, OneListener, Recorded
  <2>5. InHand' BY <2>1 DEF Scan, InHand
  <2>6. ScanSeen' BY <2>1, SocketConstantsOK DEF Scan, ScanSeen
  <2>7. QED BY <2>3, <2>4, <2>5, <2>6 DEF IInv
<1>2. CASE ScanOther
  <2>1. TypeOK' BY <1>2, SocketConstantsOK DEF ScanOther, ScanNext, IInv, TypeOK
  <2>2. PortAgrees' /\ OneListener' /\ Recorded' /\ InHand'
    BY <1>2 DEF ScanOther, IInv, PortAgrees, OneListener, Recorded, InHand
  <2>3. ScanSeen'
    BY <1>2, SocketConstantsOK
       DEF ScanOther, ScanNext, Served, IInv, TypeOK, Recorded, ScanSeen
  <2>4. QED BY <2>1, <2>2, <2>3 DEF IInv
<1>3. CASE ScanIdle
  <2>1. TypeOK' BY <1>3, SocketConstantsOK DEF ScanIdle, ScanNext, Listens, IInv, TypeOK
  <2>2. PortAgrees' BY <1>3 DEF ScanIdle, IInv, TypeOK, PortAgrees
  <2>3. OneListener' BY <1>3 DEF ScanIdle, IInv, OneListener
  <2>6. Recorded' BY <1>3 DEF ScanIdle, IInv, TypeOK, Recorded
  <2>7. InHand' BY <1>3 DEF ScanIdle, InHand
  <2>4. ScanSeen'
    <3>1. SUFFICES ASSUME ~listening', NEW s \in Socks, status[s] = "LISTEN", port[s] = by
                   PROVE  s >= at + 1
      BY <1>3 DEF ScanIdle, ScanNext, IInv, ScanSeen
    <3>2. ~listening /\ status[at] # "LISTEN" BY <1>3, <3>1 DEF ScanIdle, Listens
    <3>3. s >= at /\ s # at BY <1>3, <3>1, <3>2 DEF ScanIdle, IInv, ScanSeen
    <3>4. at \in Int BY <1>3, SocketConstantsOK DEF ScanIdle
    <3>5. QED BY <3>3, <3>4, SocketConstantsOK
  <2>5. QED BY <2>1, <2>2, <2>3, <2>4, <2>6, <2>7 DEF IInv
<1>4. CASE ScanAccept
  <2>0. at' \in 0..MAX_SOCK_NUM /\ found' \in 0..MAX_SOCK_NUM
    BY <1>4, SocketConstantsOK DEF ScanAccept, ScanNext, IInv, TypeOK
  <2>5. server_port' \in [Socks -> Ports \cup {NoPort}] BY <1>4 DEF ScanAccept, IInv, TypeOK
  <2>1. TypeOK' BY <1>4, <2>0, <2>5 DEF ScanAccept, IInv, TypeOK
  <2>2. PortAgrees' BY <1>4 DEF ScanAccept, IInv, TypeOK, PortAgrees
  <2>3. OneListener' /\ Recorded' /\ InHand'
    BY <1>4 DEF ScanAccept, IInv, TypeOK, OneListener, Recorded, InHand
  <2>4. ScanSeen'
    <3>1. status[at] # "LISTEN" BY <1>4 DEF ScanAccept, Live
    <3>2. SUFFICES ASSUME ~listening, NEW s \in Socks, status[s] = "LISTEN", port[s] = by
                   PROVE  s >= at + 1
      BY <1>4 DEF ScanAccept, ScanNext, IInv, ScanSeen
    <3>3. s >= at /\ s # at BY <1>4, <3>1, <3>2 DEF ScanAccept, IInv, ScanSeen
    <3>4. at \in Int BY <1>4, SocketConstantsOK DEF ScanAccept
    <3>5. QED BY <3>3, <3>4, SocketConstantsOK
  <2>6. QED BY <2>1, <2>2, <2>3, <2>4 DEF IInv
<1>5. CASE ScanLive
  BY <1>5 DEF ScanLive, IInv, TypeOK, PortAgrees, OneListener, Recorded, ScanSeen, InHand
<1>6. CASE ScanData
  <2>1. TypeOK' BY <1>6, SocketConstantsOK DEF ScanData, ScanNext, IInv, TypeOK, InHand
  <2>2. PortAgrees' /\ OneListener' /\ Recorded' /\ InHand'
    BY <1>6 DEF ScanData, IInv, PortAgrees, OneListener, Recorded, InHand
  <2>3. ScanSeen'
    BY <1>6, SocketConstantsOK DEF ScanData, ScanNext, IInv, TypeOK, ScanSeen, InHand
  <2>4. QED BY <2>1, <2>2, <2>3 DEF IInv
<1>7. CASE ScanNoData
  BY <1>7 DEF ScanNoData, IInv, TypeOK, PortAgrees, OneListener, Recorded, ScanSeen, InHand
<1>8. QED BY <1>1, <1>2, <1>3, <1>4, <1>5, <1>6, <1>7

LEMMA QuietKeepsIInv ==
  ASSUME IInv, ScanQuiet
  PROVE  IInv'
<1>1. at \in Socks BY DEF ScanQuiet, IInv, InHand
<1>2. at' \in 0..MAX_SOCK_NUM BY <1>1, SocketConstantsOK DEF ScanQuiet, ScanNext
<1>3. /\ status' \in [Socks -> Status]
      /\ PortAgrees' /\ OneListener' /\ Recorded'
  <2>1. CASE ClosedByPeer BY <1>1, <2>1, DisconnectKeeps DEF ScanQuiet
  <2>2. CASE ~ClosedByPeer
    BY <2>2 DEF ScanQuiet, IInv, TypeOK, PortAgrees, OneListener, Recorded
  <2>3. QED BY <2>1, <2>2
<1>4. TypeOK' BY <1>2, <1>3 DEF ScanQuiet, IInv, TypeOK
<1>5. InHand' BY DEF ScanQuiet, InHand
<1>6. ScanSeen'
  <2>1. SUFFICES ASSUME ~listening, NEW s \in Socks, status'[s] = "LISTEN", port[s] = by
                 PROVE  s >= at + 1
    BY DEF ScanQuiet, ScanNext, IInv, ScanSeen
  <2>2. status[at] \in Status /\ status[at] # "LISTEN" BY <1>1 DEF ScanQuiet, IInv, TypeOK, InHand
  <2>3. Disconnected(status[at]) # "LISTEN" BY <2>2, DisconnectedStatus
  <2>4. s # at /\ status[s] = "LISTEN"
    BY <1>1, <2>1, <2>2, <2>3 DEF ScanQuiet, socketDisconnect, IInv, TypeOK
  <2>5. s >= at BY <2>1, <2>4 DEF ScanQuiet, IInv, ScanSeen
  <2>6. QED BY <1>1, <2>4, <2>5, SocketConstantsOK
<1>7. QED BY <1>3, <1>4, <1>5, <1>6 DEF IInv

LEMMA EndKeepsIInv ==
  ASSUME IInv, ScanEnds
  PROVE  IInv'
<1>1. by \in Ports BY DEF ScanEnds, IInv, ScanSeen
<1>2. /\ status' \in [Socks -> Status] /\ port' \in [Socks -> Ports \cup {Local}]
      /\ unread' \in [Socks -> BOOLEAN]
      /\ server_port' \in [Socks -> Ports \cup {NoPort}]
      /\ PortAgrees' /\ OneListener' /\ Recorded'
  <2>1. CASE NobodyListens
    <3>1. \A s \in Socks : ~(status[s] = "LISTEN" /\ port[s] = by)
      BY <2>1, SocketConstantsOK DEF NobodyListens, ScanEnds, IInv, ScanSeen
    <3>2. ServerBegins(by) BY <2>1 DEF ScanEnds
    <3>3. QED BY <1>1, <3>1, <3>2, ServerBeginsKeeps
  <2>2. CASE ~NobodyListens
    BY <2>2 DEF ScanEnds, IInv, TypeOK, PortAgrees, OneListener, Recorded
  <2>3. QED BY <2>1, <2>2
<1>3. CASE kind = "write"
  <2>1. at' \in 0..MAX_SOCK_NUM /\ found' \in 0..MAX_SOCK_NUM
    BY <1>3, SocketConstantsOK DEF ScanEnds
  <2>2. TypeOK' BY <1>2, <1>3, <2>1 DEF ScanEnds, IInv, TypeOK
  <2>3. ScanSeen' /\ InHand' BY <1>3 DEF ScanEnds, ScanSeen, InHand
  <2>4. QED BY <1>2, <2>2, <2>3 DEF IInv
<1>4. CASE kind # "write"
  <2>1. Returns /\ index' = [index EXCEPT !["handed"] = found] BY <1>4 DEF ScanEnds
  <2>2. index' \in [Handles -> 0..MAX_SOCK_NUM] BY <2>1 DEF IInv, TypeOK
  <2>3. QED BY <1>2, <2>1, <2>2, ReturnsKeeps DEF IInv, TypeOK
<1>5. QED BY <1>3, <1>4

(* The steps of EthernetServer::write's loop and of a send.                *)
LEMMA SendKeepsIInv ==
  ASSUME IInv,
         \/ ServeNext \/ ServeEnds \/ SendRoom \/ SendHopeless \/ SendEnds
         \/ \E h \in {"dialler", "handed"} : Write(h)
  PROVE  IInv'
<1>1. CASE ServeNext
  <2>1. at' \in 0..MAX_SOCK_NUM BY <1>1, SocketConstantsOK DEF ServeNext, ScanNext, IInv, TypeOK
  <2>2. TypeOK' BY <1>1, <2>1 DEF ServeNext, IInv, TypeOK
  <2>3. PortAgrees' /\ OneListener' /\ Recorded'
    BY <1>1 DEF ServeNext, IInv, PortAgrees, OneListener, Recorded
  <2>4. ScanSeen' /\ InHand' BY <1>1 DEF ServeNext, ScanSeen, InHand
  <2>5. QED BY <2>2, <2>3, <2>4 DEF IInv
<1>2. CASE ServeEnds
  <2>1. PortAgrees' /\ OneListener' /\ Recorded'
    BY <1>2 DEF ServeEnds, IInv, PortAgrees, OneListener, Recorded
  <2>2. QED BY <1>2, <2>1, ReturnsKeeps DEF ServeEnds, IInv, TypeOK
<1>3. CASE SendRoom \/ SendHopeless
  <2>1. TypeOK' BY <1>3 DEF SendRoom, SendHopeless, IInv, TypeOK
  <2>2. PortAgrees' /\ OneListener' /\ Recorded'
    BY <1>3 DEF SendRoom, SendHopeless, IInv, PortAgrees, OneListener, Recorded
  <2>3. ScanSeen' /\ InHand' BY <1>3 DEF SendRoom, SendHopeless, IInv, ScanSeen, InHand
  <2>4. QED BY <2>1, <2>2, <2>3 DEF IInv
<1>4. CASE SendEnds
  <2>1. PortAgrees' /\ OneListener' /\ Recorded'
    BY <1>4 DEF SendEnds, IInv, PortAgrees, OneListener, Recorded
  <2>2. CASE kind = "write"
    <3>1. at' \in 0..MAX_SOCK_NUM
      BY <1>4, <2>2, SocketConstantsOK DEF SendEnds, ScanNext, IInv, InHand
    <3>2. TypeOK' BY <1>4, <2>2, <3>1 DEF SendEnds, IInv, TypeOK
    <3>3. ScanSeen' /\ InHand' BY <1>4, <2>2 DEF SendEnds, ScanSeen, InHand
    <3>4. QED BY <2>1, <3>2, <3>3 DEF IInv
  <2>3. CASE kind # "write"
    BY <1>4, <2>1, <2>3, ReturnsKeeps DEF SendEnds, IInv, TypeOK
  <2>4. QED BY <2>2, <2>3
<1>5. CASE \E h \in {"dialler", "handed"} : Write(h)
  <2>1. PICK h \in {"dialler", "handed"} : Write(h) BY <1>5
  <2>2. at' \in Socks BY <2>1 DEF Write, Connected
  <2>3. at' \in 0..MAX_SOCK_NUM BY <2>2, SocketConstantsOK
  <2>4. TypeOK' BY <2>1, <2>3 DEF Write, ClientCalls, IInv, TypeOK
  <2>5. PortAgrees' /\ OneListener' /\ Recorded'
    BY <2>1 DEF Write, ClientCalls, IInv, PortAgrees, OneListener, Recorded
  <2>6. ScanSeen' /\ InHand' BY <2>1, <2>2 DEF Write, ClientCalls, ScanSeen, InHand
  <2>7. QED BY <2>4, <2>5, <2>6 DEF IInv
<1>6. QED BY <1>1, <1>2, <1>3, <1>4, <1>5

(* The client's connect, stop and read.                                    *)
LEMMA ClientKeepsIInv ==
  ASSUME IInv,
         \/ Connect \/ ConnectNowhere \/ Dial \/ Connects \/ ConnectTimesOut \/ StopEnds
         \/ \E h \in {"dialler", "handed"} : Stop(h)
         \/ \E h \in Handles : Read(h)
  PROVE  IInv'
<1>0. MAX_SOCK_NUM \in 0..MAX_SOCK_NUM /\ "dialler" \in Handles BY SocketConstantsOK
<1>1. CASE Connect \/ ConnectNowhere
  <2>1. /\ status' \in [Socks -> Status]
        /\ PortAgrees' /\ OneListener' /\ Recorded'
    <3>1. CASE index["dialler"] \in Socks
      BY <1>1, <3>1, DisconnectKeeps DEF Connect, ConnectNowhere, GivesUp
    <3>2. CASE index["dialler"] \notin Socks
      <4>1. UNCHANGED <<status, port, server_port>>
        BY <1>1, <3>2 DEF Connect, ConnectNowhere, GivesUp
      <4>2. QED BY <4>1 DEF IInv, TypeOK, PortAgrees, OneListener, Recorded
    <3>3. QED BY <3>1, <3>2
  <2>2. index' \in [Handles -> 0..MAX_SOCK_NUM]
    BY <1>0, <1>1 DEF Connect, ConnectNowhere, GivesUp, IInv, TypeOK
  <2>3. TypeOK'
    BY <1>1, <2>1, <2>2 DEF Connect, ConnectNowhere, GivesUp, ClientCalls, IInv, TypeOK
  <2>4. ScanSeen' /\ InHand'
    BY <1>1 DEF Connect, ConnectNowhere, GivesUp, ClientCalls, ScanSeen, InHand
  <2>5. QED BY <2>1, <2>3, <2>4 DEF IInv
<1>2. CASE Dial
  <2>1. PICK s \in 0..MAX_SOCK_NUM :
          /\ Chosen(s)
          /\ index' = [index EXCEPT !["dialler"] = s]
          /\ IF s = MAX_SOCK_NUM THEN Returns /\ UNCHANGED <<chip, server_port>>
             ELSE /\ Open(s, Local, "SYNSENT")
                  /\ op' = "connect" /\ UNCHANGED <<kind, by, loop, sent>>
    BY <1>2 DEF Dial
  <2>2. index' \in [Handles -> 0..MAX_SOCK_NUM] BY <2>1 DEF IInv, TypeOK
  <2>3. CASE s = MAX_SOCK_NUM
    <3>1. PortAgrees' /\ OneListener' /\ Recorded'
      BY <2>1, <2>3 DEF IInv, PortAgrees, OneListener, Recorded
    <3>2. QED BY <2>1, <2>2, <2>3, <3>1, ReturnsKeeps DEF IInv, TypeOK
  <2>4. CASE s # MAX_SOCK_NUM
    <3>1. s \in Socks BY <2>1, <2>4, ChosenIsFree
    <3>2. /\ status' \in [Socks -> Status] /\ port' \in [Socks -> Ports \cup {Local}]
          /\ unread' \in [Socks -> BOOLEAN]
          /\ server_port' \in [Socks -> Ports \cup {NoPort}]
          /\ PortAgrees' /\ OneListener' /\ Recorded'
      BY <2>1, <2>4, <3>1, OpenKeeps
    <3>3. TypeOK' BY <2>1, <2>2, <2>4, <3>2 DEF IInv, TypeOK
    <3>4. by = "dialler" BY <1>2 DEF Dial, IInv, InHand
    <3>5. index'["dialler"] = s BY <2>1 DEF IInv, TypeOK
    <3>6. ScanSeen' /\ InHand' BY <2>1, <2>4, <3>1, <3>4, <3>5 DEF ScanSeen, InHand
    <3>7. QED BY <3>2, <3>3, <3>6 DEF IInv
  <2>5. QED BY <2>3, <2>4
<1>3. CASE Connects
  <2>1. PortAgrees' /\ OneListener' /\ Recorded'
    BY <1>3 DEF Connects, IInv, PortAgrees, OneListener, Recorded
  <2>2. QED BY <1>3, <2>1, ReturnsKeeps DEF Connects, IInv, TypeOK
<1>4. CASE ConnectTimesOut \/ StopEnds
  <2>1. by \in Handles /\ Held \in Socks
    BY <1>4 DEF ConnectTimesOut, Patient, StopEnds, Held, IInv, InHand
  <2>2. /\ status' \in [Socks -> Status]
        /\ PortAgrees' /\ OneListener' /\ Recorded'
    BY <1>4, <2>1, CloseKeeps DEF ConnectTimesOut, StopEnds
  <2>3. index' \in [Handles -> 0..MAX_SOCK_NUM]
    BY <1>0, <1>4, <2>1 DEF ConnectTimesOut, StopEnds, IInv, TypeOK
  <2>4. Returns /\ UNCHANGED <<port, unread, server_port>>
    BY <1>4 DEF ConnectTimesOut, StopEnds
  <2>5. QED BY <2>2, <2>3, <2>4, ReturnsKeeps DEF IInv, TypeOK
<1>5. CASE \E h \in {"dialler", "handed"} : Stop(h)
  <2>1. PICK h \in {"dialler", "handed"} : Stop(h) BY <1>5
  <2>2. /\ status' \in [Socks -> Status]
        /\ PortAgrees' /\ OneListener' /\ Recorded'
    BY <2>1, DisconnectKeeps DEF Stop
  <2>3. TypeOK' BY <2>1, <2>2 DEF Stop, ClientCalls, IInv, TypeOK
  <2>4. ScanSeen' /\ InHand' BY <2>1 DEF Stop, ClientCalls, ScanSeen, InHand
  <2>5. QED BY <2>2, <2>3, <2>4 DEF IInv
<1>6. CASE \E h \in Handles : Read(h)
  <2>1. PICK h \in Handles : Read(h) BY <1>6
  <2>2. TypeOK' BY <2>1 DEF Read, IInv, TypeOK
  <2>3. PortAgrees' /\ OneListener' /\ Recorded' /\ ScanSeen' /\ InHand'
    BY <2>1 DEF Read, IInv, PortAgrees, OneListener, Recorded, ScanSeen, InHand
  <2>4. QED BY <2>2, <2>3 DEF IInv
<1>7. QED BY <1>1, <1>2, <1>3, <1>4, <1>5, <1>6

LEMMA UdpKeepsIInv ==
  ASSUME IInv, UdpBegin \/ UdpOpens \/ UdpStop
  PROVE  IInv'
<1>0. MAX_SOCK_NUM \in 0..MAX_SOCK_NUM /\ "udp" \in Handles BY SocketConstantsOK
<1>1. ASSUME UdpCloses, UNCHANGED <<port, unread, server_port>>
      PROVE  /\ status' \in [Socks -> Status]
             /\ PortAgrees' /\ OneListener' /\ Recorded'
  <2>1. CASE index["udp"] \in Socks BY <1>1, <2>1, CloseKeeps DEF UdpCloses
  <2>2. CASE index["udp"] \notin Socks
    BY <1>1, <2>2 DEF UdpCloses, IInv, TypeOK, PortAgrees, OneListener, Recorded
  <2>3. QED BY <2>1, <2>2
<1>2. CASE UdpBegin
  <2>1. TypeOK' BY <1>0, <1>1, <1>2 DEF UdpBegin, ClientCalls, IInv, TypeOK
  <2>2. ScanSeen' /\ InHand' BY <1>2 DEF UdpBegin, ClientCalls, ScanSeen, InHand
  <2>3. QED BY <1>1, <1>2, <2>1, <2>2 DEF UdpBegin, IInv
<1>3. CASE UdpOpens
  <2>1. PICK s \in 0..MAX_SOCK_NUM :
          /\ Chosen(s)
          /\ index' = [index EXCEPT !["udp"] = s]
          /\ IF s = MAX_SOCK_NUM THEN UNCHANGED <<chip, server_port>>
             ELSE Open(s, Local, "UDP")
    BY <1>3 DEF UdpOpens
  <2>2. Returns /\ index' \in [Handles -> 0..MAX_SOCK_NUM]
    BY <1>3, <2>1 DEF UdpOpens, IInv, TypeOK
  <2>3. CASE s = MAX_SOCK_NUM
    <3>1. PortAgrees' /\ OneListener' /\ Recorded'
      BY <2>1, <2>3 DEF IInv, PortAgrees, OneListener, Recorded
    <3>2. QED BY <2>1, <2>2, <2>3, <3>1, ReturnsKeeps DEF IInv, TypeOK
  <2>4. CASE s # MAX_SOCK_NUM
    <3>1. s \in Socks BY <2>1, <2>4, ChosenIsFree
    <3>2. /\ status' \in [Socks -> Status] /\ port' \in [Socks -> Ports \cup {Local}]
          /\ unread' \in [Socks -> BOOLEAN]
          /\ server_port' \in [Socks -> Ports \cup {NoPort}]
          /\ PortAgrees' /\ OneListener' /\ Recorded'
      BY <2>1, <2>4, <3>1, OpenKeeps
    <3>3. QED BY <2>2, <3>2, ReturnsKeeps DEF IInv, TypeOK
  <2>5. QED BY <2>3, <2>4
<1>4. CASE UdpStop
  <2>1. index' \in [Handles -> 0..MAX_SOCK_NUM] BY <1>0, <1>4 DEF UdpStop, IInv, TypeOK
  <2>2. TypeOK' BY <1>1, <1>4, <2>1 DEF UdpStop, IInv, TypeOK
  <2>3. ScanSeen'
    BY <1>4 DEF UdpStop, IInv, ScanSeen
  <2>4. InHand' BY <1>4 DEF UdpStop, InHand
  <2>5. QED BY <1>1, <1>4, <2>2, <2>3, <2>4 DEF UdpStop, IInv
<1>5. QED BY <1>2, <1>3, <1>4

LEMMA InitIInv == Init => IInv
<1>1. SUFFICES ASSUME Init PROVE IInv OBVIOUS
<1>2. at \in 0..MAX_SOCK_NUM /\ found \in 0..MAX_SOCK_NUM /\ MAX_SOCK_NUM \in 0..MAX_SOCK_NUM
  BY <1>1, SocketConstantsOK DEF Init
<1>3. TypeOK BY <1>1, <1>2, Zenon DEF Init, TypeOK
<1>4. PortAgrees /\ OneListener /\ Recorded BY <1>1 DEF Init, PortAgrees, OneListener, Recorded
<1>5. ScanSeen /\ InHand BY <1>1 DEF Init, ScanSeen, InHand
<1>6. QED BY <1>3, <1>4, <1>5 DEF IInv

LEMMA NextIInv == IInv /\ [Next]_vars => IInv'
<1>1. SUFFICES ASSUME IInv, [Next]_vars PROVE IInv' OBVIOUS
<1>2. CASE UNCHANGED vars
  BY <1>1, <1>2 DEF vars, IInv, TypeOK, PortAgrees, OneListener, Recorded, ScanSeen, InHand
<1>3. CASE Sketch
  BY <1>1, <1>3, ScanKeepsIInv, SendKeepsIInv, ClientKeepsIInv, UdpKeepsIInv DEF Sketch
<1>4. CASE ServerStep
  BY <1>1, <1>4, ScanKeepsIInv, QuietKeepsIInv, EndKeepsIInv, SendKeepsIInv DEF ServerStep
<1>5. CASE ClientStep
  BY <1>1, <1>5, ClientKeepsIInv, SendKeepsIInv, UdpKeepsIInv DEF ClientStep
<1>6. CASE Network BY <1>1, <1>6, ChipKeepsIInv, DataKeepsIInv, SendKeepsIInv DEF Network
<1>7. QED BY <1>1, <1>2, <1>3, <1>4, <1>5, <1>6 DEF Next

(* The strengthened invariant holds of every reachable state.              *)
THEOREM Invariance == Spec => []IInv
BY InitIInv, NextIInv, PTL DEF Spec

(* Every variable keeps its type, with any number of sockets: an index is  *)
(* that of a socket, or MAX_SOCK_NUM.                                      *)
THEOREM TypeCorrect == Spec => []TypeOK
<1>1. IInv => TypeOK BY DEF IInv
<1>2. QED BY <1>1, Invariance, PTL

(* A socket on record as a server's is open on its port, and neither       *)
(* dialled nor a UDP socket.                                               *)
THEOREM RecordsAgree == Spec => []PortAgrees
<1>1. IInv => PortAgrees BY DEF IInv
<1>2. QED BY <1>1, Invariance, PTL

(* No server ever has two sockets listening.                               *)
THEOREM ListenersAreUnique == Spec => []OneListener
<1>1. IInv => OneListener BY DEF IInv
<1>2. QED BY <1>1, Invariance, PTL
(* socketBegin and begin leave an open connection to its user, and the     *)
(* chip never turns one into a listener.                                   *)
LEMMA NeverTakenStep == IInv /\ [Next]_vars =>
  \A s \in Socks : status[s] \in Live => status'[s] \notin {"LISTEN", "SYNSENT", "UDP"}
<1>1. SUFFICES ASSUME IInv, [Next]_vars, NEW s \in Socks, status[s] \in Live
               PROVE  status'[s] \notin {"LISTEN", "SYNSENT", "UDP"}
  OBVIOUS
<1>2. \A r \in Socks : Disconnected(status[r]) \notin {"LISTEN", "SYNSENT"} \cup Live
  BY <1>1, DisconnectedStatus DEF IInv, TypeOK
<1>3. \A r \in Socks : Disconnected(status[r]) = "UDP" => status[r] = "UDP"
  BY <1>1, DisconnectedStatus DEF IInv, TypeOK
<1>4. \A r \in Socks : socketDisconnect(r) \/ socketClose(r) =>
         status'[s] \notin {"LISTEN", "SYNSENT", "UDP"}
  BY <1>1, <1>2, <1>3 DEF socketDisconnect, socketClose, IInv, TypeOK
<1>5. \A r \in 0..MAX_SOCK_NUM, to \in Status :
         Chosen(r) /\ r # MAX_SOCK_NUM /\ status' = [status EXCEPT ![r] = to]
           => status'[s] = status[s]
  BY <1>1, ChosenIsFree DEF IInv, TypeOK
<1>6. CASE UNCHANGED status BY <1>1, <1>6
<1>7. CASE Sketch
  <2>1. CASE \E p \in Ports, k \in {"available", "accept", "write"} : Scan(p, k)
    BY <1>6, <2>1 DEF Scan
  <2>2. CASE Connect \/ ConnectNowhere
    BY <1>4, <1>6, <2>2 DEF Connect, ConnectNowhere, GivesUp
  <2>3. CASE UdpBegin \/ UdpStop BY <1>4, <1>6, <2>3 DEF UdpBegin, UdpStop, UdpCloses
  <2>4. CASE \E h \in {"dialler", "handed"} : Stop(h) \/ Write(h)
    BY <1>4, <1>6, <2>4 DEF Stop, Write
  <2>5. CASE \E h \in Handles : Read(h) BY <1>6, <2>5 DEF Read
  <2>6. QED BY <1>7, <2>1, <2>2, <2>3, <2>4, <2>5 DEF Sketch
<1>8. CASE ServerStep
  <2>1. CASE ScanQuiet BY <1>1, <1>4, <1>6, <2>1 DEF ScanQuiet, IInv, InHand
  <2>2. CASE ScanEnds
    <3>1. CASE NobodyListens
      <4>1. PICK r \in 0..MAX_SOCK_NUM :
              /\ Chosen(r)
              /\ IF r = MAX_SOCK_NUM THEN UNCHANGED <<chip, server_port>>
                 ELSE status' = [status EXCEPT ![r] = "LISTEN"]
        BY <2>2, <3>1 DEF ScanEnds, ServerBegins
      <4>2. CASE r = MAX_SOCK_NUM BY <1>6, <4>1, <4>2
      <4>3. CASE r # MAX_SOCK_NUM BY <1>1, <1>5, <4>1, <4>3
      <4>4. QED BY <4>2, <4>3
    <3>2. CASE ~NobodyListens BY <1>6, <2>2, <3>2 DEF ScanEnds
    <3>3. QED BY <3>1, <3>2
  <2>3. CASE \/ ScanOther \/ ScanIdle \/ ScanAccept \/ ScanLive \/ ScanData
             \/ ScanNoData \/ ServeNext \/ ServeEnds
    BY <1>6, <2>3
       DEF ScanOther, ScanIdle, ScanAccept, ScanLive, ScanData, ScanNoData, ServeNext, ServeEnds
  <2>4. QED BY <1>8, <2>1, <2>2, <2>3 DEF ServerStep
<1>9. CASE ClientStep
  <2>1. CASE Dial \/ UdpOpens
    <3>1. PICK r \in 0..MAX_SOCK_NUM, to \in {"SYNSENT", "UDP"} :
            /\ Chosen(r)
            /\ IF r = MAX_SOCK_NUM THEN UNCHANGED <<chip, server_port>>
               ELSE status' = [status EXCEPT ![r] = to]
      BY <2>1 DEF Dial, UdpOpens, Open
    <3>2. CASE r = MAX_SOCK_NUM BY <1>6, <3>1, <3>2
    <3>3. CASE r # MAX_SOCK_NUM BY <1>1, <1>5, <3>1, <3>3
    <3>4. QED BY <3>2, <3>3
  <2>2. CASE ConnectTimesOut \/ StopEnds
    <3>1. Held \in Socks
      BY <1>1, <2>2 DEF ConnectTimesOut, Patient, StopEnds, Held, IInv, InHand
    <3>2. QED BY <1>4, <2>2, <3>1 DEF ConnectTimesOut, StopEnds
  <2>3. CASE Connects \/ SendHopeless \/ SendEnds
    BY <1>6, <2>3 DEF Connects, SendHopeless, SendEnds
  <2>4. QED BY <1>9, <2>1, <2>2, <2>3 DEF ClientStep
<1>10. CASE Network
  BY <1>1, <1>10 DEF Network, SendRoom, SendCompletes, PeerConnects, PeerCloses, ConnectionEnds,
       ConnectionFails, Chip, DataArrives, IInv, TypeOK
<1>11. QED BY <1>1, <1>6, <1>7, <1>8, <1>9, <1>10 DEF Next, vars

(* A connection is never taken from its user to make a socket.             *)
THEOREM ConnectionsAreKept == Spec => NeverTaken
BY Invariance, NeverTakenStep, PTL DEF Spec, NeverTaken

(* Of the steps of a scan only ScanQuiet ends a connection: one that had   *)
(* nothing to read, and a FIN, when it was looked at.                      *)
LEMMA UnreadKeptStep == IInv /\ [Next]_vars =>
  \A s \in Socks :
    op \in {"scan", "check", "quiet"} /\ status[s] \in Live /\ unread[s] =>
      status'[s] \notin Closing
<1>1. SUFFICES ASSUME IInv, [Next]_vars, NEW s \in Socks, op \in {"scan", "check", "quiet"},
                      status[s] \in Live, unread[s]
               PROVE  status'[s] \notin Closing
  OBVIOUS
<1>2. CASE UNCHANGED status BY <1>1, <1>2
<1>3. CASE ScanQuiet
  <2>1. CASE ClosedByPeer
    BY <1>1, <1>3, <2>1 DEF ScanQuiet, ClosedByPeer, socketDisconnect, IInv, TypeOK, InHand
  <2>2. CASE ~ClosedByPeer BY <1>2, <1>3, <2>2 DEF ScanQuiet
  <2>3. QED BY <2>1, <2>2
<1>4. CASE ScanEnds
  <2>1. CASE NobodyListens
    BY <1>1, <1>4, <2>1 DEF ScanEnds, ServerBegins, IInv, TypeOK
  <2>2. CASE ~NobodyListens BY <1>2, <1>4, <2>2 DEF ScanEnds
  <2>3. QED BY <2>1, <2>2
<1>5. CASE ScanOther \/ ScanIdle \/ ScanAccept \/ ScanLive \/ ScanData \/ ScanNoData
  BY <1>2, <1>5 DEF ScanOther, ScanIdle, ScanAccept, ScanLive, ScanData, ScanNoData
<1>6. CASE Network
  BY <1>1, <1>6 DEF Network, SendRoom, SendCompletes, PeerConnects, PeerCloses, ConnectionEnds,
       ConnectionFails, Chip, DataArrives, IInv, TypeOK
<1>7. ~Sketch /\ ~ClientStep /\ ~ServeNext /\ ~ServeEnds
  BY <1>1 DEF Sketch, Scan, Connect, ConnectNowhere, UdpBegin, UdpStop, Stop, Write, Read, ClientCalls,
       ClientStep, Dial, Connects, ConnectTimesOut, Patient, StopEnds, SendHopeless,
       SendEnds, UdpOpens, ServeNext, ServeEnds
<1>8. QED BY <1>1, <1>2, <1>3, <1>4, <1>5, <1>6, <1>7 DEF Next, ServerStep, vars

(* What a peer has sent before it closed is not thrown away by a scan.     *)
THEOREM DataIsKept == Spec => UnreadKept
BY Invariance, UnreadKeptStep, PTL DEF Spec, UnreadKept
==============================================================================
