------------------------------ MODULE EthSocket ------------------------------
(***************************************************************************)
(* The hardware sockets of the Ethernet library and the objects of a       *)
(* sketch that use them: a server, the client it hands out, a client that  *)
(* dials, a UDP object (arduino-projects/nano with ethernet/lib/           *)
(* Ethernet-2.0.2/src/socket.cpp, EthernetServer.cpp, EthernetClient.cpp,  *)
(* EthernetUdp.cpp).                                                       *)
(*                                                                         *)
(* The sketch is one thread: it makes one call at a time.  The chip is     *)
(* another: connections are made, broken and filled with data between any  *)
(* two registers that a call reads, so a call is a sequence of steps.      *)
(***************************************************************************)
EXTENDS Integers

CONSTANTS MAX_SOCK_NUM,   \* the sockets of the chip
          Ports,          \* the ports of the sketch's servers
          NoPort,         \* a server port that is not set (0)
          Local           \* a port of local_port's range, or of the UDP object

ASSUME SocketConstantsOK ==
  /\ MAX_SOCK_NUM \in Nat \ {0}
  /\ NoPort \notin Ports /\ Local \notin Ports

Socks   == 0..(MAX_SOCK_NUM - 1)
Handles == {"dialler", "handed", "udp"}   \* the sketch's client, available()'s, its UDP object

VARIABLES
  status, port,        \* the chip: Sn_SR and Sn_PORT of each socket
  unread,              \* the chip holds data that was received and not read
  server_port,         \* EthernetServer::server_port
  index,               \* _sockindex, sockindex of the objects
  op, kind,            \* what the call under way is doing, and for which call
  by,                  \* the object called, or the port of the server called
  at, stat,            \* the socket in hand, the status that was read of it
  listening, found,    \* locals of EthernetServer::available and accept
  sent                 \* the chip has set SEND_OK

chip == <<status, port, unread>>
call == <<op, kind, by>>
loop == <<at, stat, listening, found>>
vars == <<chip, server_port, index, call, loop, sent>>

Live    == {"ESTABLISHED", "CLOSE_WAIT"}
Closing == {"LAST_ACK", "TIME_WAIT", "FIN_WAIT", "CLOSING"}
Status  == {"CLOSED", "LISTEN", "SYNSENT", "UDP"} \cup Live \cup Closing
Ops     == {"idle", "scan", "check", "quiet", "serve", "dial", "connect", "stop", "room", "send", "bind"}
Kinds   == {"available", "accept", "write", "client"}

TypeOK ==
  /\ status \in [Socks -> Status] /\ port \in [Socks -> Ports \cup {Local}]
  /\ unread \in [Socks -> BOOLEAN]
  /\ server_port \in [Socks -> Ports \cup {NoPort}]
  /\ index \in [Handles -> 0..MAX_SOCK_NUM]
  /\ op \in Ops /\ kind \in Kinds /\ by \in Handles \cup Ports
  /\ at \in 0..MAX_SOCK_NUM /\ stat \in Status
  /\ listening \in BOOLEAN /\ found \in 0..MAX_SOCK_NUM
  /\ sent \in BOOLEAN

Init ==
  /\ status = [s \in Socks |-> "CLOSED"] /\ port = [s \in Socks |-> Local]
  /\ unread = [s \in Socks |-> FALSE]
  /\ server_port = [s \in Socks |-> NoPort]
  /\ index = [h \in Handles |-> MAX_SOCK_NUM]
  /\ op = "idle" /\ kind = "client" /\ by = "udp"
  /\ at = 0 /\ stat = "CLOSED" /\ listening = FALSE /\ found = MAX_SOCK_NUM
  /\ sent = FALSE

(* A call returns: its locals are no more.                                 *)
Returns ==
  /\ op' = "idle" /\ kind' = "client" /\ by' = "udp"
  /\ at' = 0 /\ stat' = "CLOSED" /\ listening' = FALSE /\ found' = MAX_SOCK_NUM
  /\ sent' = FALSE

------------------------------------------------------------------------------
(* The chip and the peers.                                                 *)
Chip(s, from, to) ==
  /\ status[s] \in from
  /\ status' = [status EXCEPT ![s] = to]
  /\ UNCHANGED <<port, unread, server_port, index, call, loop, sent>>

PeerConnects(s) == Chip(s, {"LISTEN", "SYNSENT"}, "ESTABLISHED")
PeerCloses(s) == Chip(s, {"ESTABLISHED"}, "CLOSE_WAIT") \/ Chip(s, {"FIN_WAIT"}, "TIME_WAIT")
ConnectionEnds(s) == Chip(s, Closing, "CLOSED")
ConnectionFails(s) == Chip(s, {"SYNSENT"} \cup Live, "CLOSED")

DataArrives(s) ==
  /\ status[s] \in {"ESTABLISHED", "UDP"} /\ ~unread[s]
  /\ unread' = [unread EXCEPT ![s] = TRUE]
  /\ UNCHANGED <<status, port, server_port, index, call, loop, sent>>

(* A peer takes what it is sent when it likes, or never: the chip comes to *)
(* have room for more, ...                                                 *)
SendRoom ==
  /\ op = "room" /\ status[at] \in Live
  /\ op' = "send" /\ sent' = FALSE
  /\ UNCHANGED <<chip, server_port, index, kind, by, loop>>

(* ... and what was sent is acknowledged.                                  *)
SendCompletes ==
  /\ op = "send" /\ ~sent /\ status[at] \in Live \cup {"UDP"}
  /\ sent' = TRUE
  /\ UNCHANGED <<chip, server_port, index, call, loop>>

(* Sock_DISCON: a FIN on a connection; there is nothing to end gracefully  *)
(* on any other.                                                           *)
Disconnected(st) ==
  CASE st = "ESTABLISHED" -> "FIN_WAIT"
    [] st = "CLOSE_WAIT" -> "LAST_ACK"
    [] st \in {"LISTEN", "SYNSENT"} -> "CLOSED"
    [] OTHER -> st

socketDisconnect(s) == status' = [status EXCEPT ![s] = Disconnected(@)]
socketClose(s) == status' = [status EXCEPT ![s] = "CLOSED"]

------------------------------------------------------------------------------
(* socketBegin: the first socket that is closed, as a last resort the      *)
(* first that is already closing, or none.                                 *)
Free == {s \in Socks : status[s] = "CLOSED"}
Reclaimable == {s \in Socks : status[s] \in Closing}

First(s, S) == s \in S /\ \A r \in S : s <= r

(* Mutant of Chosen: a connection that the peer has closed will do, too.   *)
ChosenEvenHalfClosed(s) ==
  \/ First(s, Free)
  \/ Free = {} /\ First(s, Reclaimable)
  \/ Free = {} /\ Reclaimable = {} /\ First(s, {r \in Socks : status[r] = "CLOSE_WAIT"})
  \/ s = MAX_SOCK_NUM /\ \A r \in Socks : status[r] \notin Closing \cup {"CLOSED", "CLOSE_WAIT"}

Chosen(s) ==
  \/ First(s, Free)
  \/ Free = {} /\ First(s, Reclaimable)
  \/ Free = {} /\ Reclaimable = {} /\ s = MAX_SOCK_NUM

(* Mutant of Open: the socket stays on record as the server's.             *)
OpenStillServed(s, p, to) ==
  /\ status' = [status EXCEPT ![s] = to]
  /\ port' = [port EXCEPT ![s] = p]
  /\ unread' = [unread EXCEPT ![s] = FALSE]
  /\ UNCHANGED server_port

(* ... which is opened, on a port, and put to use by the caller.           *)
Open(s, p, to) ==
  /\ status' = [status EXCEPT ![s] = to]
  /\ port' = [port EXCEPT ![s] = p]
  /\ unread' = [unread EXCEPT ![s] = FALSE]
  /\ server_port' = [server_port EXCEPT ![s] = NoPort]

(* EthernetServer::begin: a socket listens, or none is left.  The sketch's *)
(* own call of it, in setup(), comes to the same as a first scan.          *)
ServerBegins(p) ==
  \E s \in 0..MAX_SOCK_NUM :
    /\ Chosen(s)
    /\ IF s = MAX_SOCK_NUM THEN UNCHANGED <<chip, server_port>>
       ELSE /\ status' = [status EXCEPT ![s] = "LISTEN"]
            /\ port' = [port EXCEPT ![s] = p]
            /\ unread' = [unread EXCEPT ![s] = FALSE]
            /\ server_port' = [server_port EXCEPT ![s] = p]

------------------------------------------------------------------------------
(* EthernetServer::available, accept, and write, which calls available     *)
(* first: all sockets are looked at in turn.                               *)
Scan(p, k) ==
  /\ op = "idle"
  /\ op' = "scan" /\ kind' = k /\ by' = p
  /\ at' = 0 /\ listening' = FALSE /\ found' = MAX_SOCK_NUM
  /\ UNCHANGED <<chip, server_port, index, stat, sent>>

Served(s) == server_port[s] = by

(* Mutant of ScanNext: the socket after one that was found is not looked   *)
(* at.                                                                     *)
ScanNextButOne == at' = IF found = MAX_SOCK_NUM THEN at + 1 ELSE at + 2

ScanNext == at' = at + 1

(* The status of the socket is read, if the socket is the server's ...     *)
ScanOther ==
  /\ op = "scan" /\ at \in Socks /\ ~Served(at)
  /\ ScanNext
  /\ UNCHANGED <<chip, server_port, index, call, stat, listening, found, sent>>

(* Mutant of Listens: the last socket looked at decides.                   *)
ListensLast(st) == st = "LISTEN"

Listens(st) == listening \/ st = "LISTEN"

ScanIdle ==
  /\ op = "scan" /\ at \in Socks /\ Served(at) /\ status[at] \notin Live
  /\ ScanNext
  /\ listening' = Listens(status[at])
  /\ server_port' = IF status[at] = "CLOSED" THEN [server_port EXCEPT ![at] = NoPort]
                    ELSE server_port
  /\ UNCHANGED <<chip, index, call, stat, found, sent>>

(* ... a connection is given out once (accept), the first of them ...      *)
ScanAccept ==
  /\ op = "scan" /\ kind = "accept"
  /\ at \in Socks /\ Served(at) /\ status[at] \in Live
  /\ ScanNext
  /\ IF found = MAX_SOCK_NUM
     THEN found' = at /\ server_port' = [server_port EXCEPT ![at] = NoPort]
     ELSE UNCHANGED <<found, server_port>>
  /\ UNCHANGED <<chip, index, call, stat, listening, sent>>

(* ... or as often as it has data (available), the last of them ...        *)
ScanLive ==
  /\ op = "scan" /\ kind # "accept"
  /\ at \in Socks /\ Served(at) /\ status[at] \in Live
  /\ op' = "check" /\ stat' = status[at]
  /\ UNCHANGED <<chip, server_port, index, kind, by, at, listening, found, sent>>

(* ... and one that has none and that the peer has closed is closed here,  *)
(* too.                                                                    *)
ScanData ==
  /\ op = "check" /\ unread[at]
  /\ op' = "scan" /\ found' = at /\ stat' = "CLOSED"
  /\ ScanNext
  /\ UNCHANGED <<chip, server_port, index, kind, by, listening, sent>>

ScanNoData ==
  /\ op = "check" /\ ~unread[at]
  /\ op' = "quiet"
  /\ UNCHANGED <<chip, server_port, index, kind, by, loop, sent>>

(* Mutant of ClosedByPeer: the status is read after the look at the data.  *)
ClosedByPeerNow == status[at] = "CLOSE_WAIT"

ClosedByPeer == stat = "CLOSE_WAIT"

ScanQuiet ==
  /\ op = "quiet"
  /\ IF ClosedByPeer THEN socketDisconnect(at) ELSE UNCHANGED status
  /\ op' = "scan" /\ stat' = "CLOSED"
  /\ ScanNext
  /\ UNCHANGED <<port, unread, server_port, index, kind, by, listening, found, sent>>

(* Mutant of NobodyListens: a server that has found a client is content.   *)
NobodyListensOrCalls == ~listening /\ found = MAX_SOCK_NUM

NobodyListens == ~listening

(* After the last socket: a socket is made to listen if none was, and the  *)
(* call returns an object for the socket found, or write goes on.          *)
ScanEnds ==
  /\ op = "scan" /\ at = MAX_SOCK_NUM
  /\ IF NobodyListens THEN ServerBegins(by) ELSE UNCHANGED <<chip, server_port>>
  /\ IF kind = "write"
     THEN /\ op' = "serve" /\ at' = 0 /\ listening' = FALSE /\ found' = MAX_SOCK_NUM
          /\ UNCHANGED <<index, kind, by, stat, sent>>
     ELSE index' = [index EXCEPT !["handed"] = found] /\ Returns

(* EthernetServer::write, its loop: every connection is sent the data.     *)
ServeNext ==
  /\ op = "serve" /\ at \in Socks
  /\ IF Served(at) /\ status[at] = "ESTABLISHED" THEN op' = "room" /\ UNCHANGED at
     ELSE UNCHANGED op /\ ScanNext
  /\ UNCHANGED <<chip, server_port, index, kind, by, stat, listening, found, sent>>

ServeEnds ==
  /\ op = "serve" /\ at = MAX_SOCK_NUM
  /\ Returns
  /\ UNCHANGED <<chip, server_port, index>>

ServerStep ==
  \/ ScanOther \/ ScanIdle \/ ScanAccept \/ ScanLive \/ ScanData \/ ScanNoData
  \/ ScanQuiet \/ ScanEnds \/ ServeNext \/ ServeEnds

------------------------------------------------------------------------------
(* EthernetClient                                                          *)
ClientCalls(h, what) ==
  /\ op = "idle" /\ op' = what /\ kind' = "client" /\ by' = h

Held == index[by]

(* connected(): the status of whatever is behind the index.                *)
Connected(h) ==
  /\ index[h] \in Socks
  /\ status[index[h]] \notin {"LISTEN", "CLOSED", "FIN_WAIT"}
  /\ status[index[h]] = "CLOSE_WAIT" => unread[index[h]]

(* connect(): what the client had is given up ...                          *)
GivesUp ==
  /\ IF index["dialler"] \in Socks THEN socketDisconnect(index["dialler"])
     ELSE UNCHANGED status
  /\ index' = [index EXCEPT !["dialler"] = MAX_SOCK_NUM]
  /\ UNCHANGED <<port, unread, server_port, loop, sent>>

Connect == ClientCalls("dialler", "dial") /\ GivesUp

(* (and that is all if the address is 0.0.0.0 or 255.255.255.255) ...      *)
ConnectNowhere == op = "idle" /\ GivesUp /\ UNCHANGED call

(* ... a socket dials ...                                                  *)
Dial ==
  /\ op = "dial"
  /\ \E s \in 0..MAX_SOCK_NUM :
       /\ Chosen(s)
       /\ index' = [index EXCEPT !["dialler"] = s]
       /\ IF s = MAX_SOCK_NUM THEN Returns /\ UNCHANGED <<chip, server_port>>
          ELSE /\ Open(s, Local, "SYNSENT")
               /\ op' = "connect" /\ UNCHANGED <<kind, by, loop, sent>>

(* ... and the call returns once it is connected or refused, the socket    *)
(* staying the client's either way, ...                                    *)
Connects ==
  /\ op = "connect" /\ status[Held] \in Live \cup {"CLOSED"}
  /\ Returns
  /\ UNCHANGED <<chip, server_port, index>>


Patient == op = "connect"

(* ... or after _timeout, without a socket.                                *)
ConnectTimesOut ==
  /\ Patient
  /\ socketClose(Held)
  /\ index' = [index EXCEPT !["dialler"] = MAX_SOCK_NUM]
  /\ Returns
  /\ UNCHANGED <<port, unread, server_port>>

(* stop(): a FIN is sent, and the socket closed by force if it has not     *)
(* closed before _timeout.                                                 *)
Stop(h) ==
  /\ index[h] \in Socks
  /\ ClientCalls(h, "stop")
  /\ socketDisconnect(index[h])
  /\ UNCHANGED <<port, unread, server_port, index, loop, sent>>

StopEnds ==
  /\ op = "stop"
  /\ socketClose(Held)
  /\ index' = [index EXCEPT ![by] = MAX_SOCK_NUM]
  /\ Returns
  /\ UNCHANGED <<port, unread, server_port>>

(* read(): what has arrived is taken.                                      *)
Read(h) ==
  /\ op = "idle" /\ index[h] \in Socks /\ unread[index[h]]
  /\ unread' = [unread EXCEPT ![index[h]] = FALSE]
  /\ UNCHANGED <<status, port, server_port, index, call, loop, sent>>

(* write(), socketSend: the call waits until the chip has room (SendRoom), *)
(* or for the end of the connection, ...                                   *)
Write(h) ==
  /\ Connected(h)
  /\ ClientCalls(h, "room")
  /\ at' = index[h]
  /\ UNCHANGED <<chip, server_port, index, stat, listening, found, sent>>

SendHopeless ==
  /\ op = "room" /\ status[at] \notin Live
  /\ op' = "send" /\ sent' = FALSE
  /\ UNCHANGED <<chip, server_port, index, kind, by, loop>>

(* ... and then until what was sent is acknowledged, or the socket closed. *)
SendEnds ==
  /\ op = "send" /\ (sent \/ status[at] = "CLOSED")
  /\ IF kind = "write"
     THEN /\ op' = "serve" /\ sent' = FALSE /\ ScanNext
          /\ UNCHANGED <<kind, by, stat, listening, found>>
     ELSE Returns
  /\ UNCHANGED <<chip, server_port, index>>

(* EthernetUDP::begin, beginMulticast and stop: the old socket is closed,  *)
(* and another one is opened, or none.                                     *)
UdpCloses == IF index["udp"] \in Socks THEN socketClose(index["udp"]) ELSE UNCHANGED status

UdpBegin ==
  /\ ClientCalls("udp", "bind")
  /\ UdpCloses
  /\ UNCHANGED <<port, unread, server_port, index, loop, sent>>

UdpOpens ==
  /\ op = "bind"
  /\ \E s \in 0..MAX_SOCK_NUM :
       /\ Chosen(s)
       /\ index' = [index EXCEPT !["udp"] = s]
       /\ IF s = MAX_SOCK_NUM THEN UNCHANGED <<chip, server_port>> ELSE Open(s, Local, "UDP")
  /\ Returns

ClientStep ==
  Dial \/ Connects \/ ConnectTimesOut \/ StopEnds \/ SendHopeless \/ SendEnds \/ UdpOpens

UdpStop ==
  /\ op = "idle" /\ index["udp"] \in Socks
  /\ UdpCloses
  /\ index' = [index EXCEPT !["udp"] = MAX_SOCK_NUM]
  /\ UNCHANGED <<port, unread, server_port, call, loop, sent>>

------------------------------------------------------------------------------
Sketch ==
  \/ \E p \in Ports, k \in {"available", "accept", "write"} : Scan(p, k)
  \/ Connect \/ ConnectNowhere \/ UdpBegin \/ UdpStop
  \/ \E h \in {"dialler", "handed"} : Stop(h) \/ Write(h)
  \/ \E h \in Handles : Read(h)

Network ==
  \/ SendRoom \/ SendCompletes
  \/ \E s \in Socks :
       PeerConnects(s) \/ PeerCloses(s) \/ ConnectionEnds(s) \/ ConnectionFails(s)
         \/ DataArrives(s)

Next == Sketch \/ ServerStep \/ ClientStep \/ Network

Spec == Init /\ [][Next]_vars

(* The chip's own timeouts end a connection that is closing on both sides. *)
ConnectionTimesOut(s) == status[s] # "FIN_WAIT" /\ ConnectionEnds(s)

(* A call that can go on does, connections that are closing on both sides  *)
(* come to their end, and the sketch looks for clients again and again.    *)
(* Nothing is asked of the peers: none has to connect, to acknowledge what *)
(* it is sent, or to close.                                                *)
FairSpec ==
  /\ Spec
  /\ WF_vars(ServerStep) /\ WF_vars(ClientStep)
  /\ \A s \in Socks : WF_vars(ConnectionTimesOut(s))
  /\ \A p \in Ports : SF_vars(Scan(p, "available"))

------------------------------------------------------------------------------
(* Properties                                                              *)

(* A socket that is on record as a server's is open on the server's port:  *)
(* a socket that is reused for anything else has left the record, so that  *)
(* available() never hands out a connection the sketch has dialled         *)
(* (socketBegin's server_port[s] = 0).                                     *)
PortAgrees ==
  \A s \in Socks :
    server_port[s] # NoPort /\ status[s] # "CLOSED" =>
      port[s] = server_port[s] /\ status[s] \notin {"UDP", "SYNSENT"}

(* However connections come and go during its scan, a server never has two *)
(* sockets listening: available() and accept() begin again only when none  *)
(* of its sockets was.                                                     *)
OneListener ==
  \A r, s \in Socks :
    status[r] = "LISTEN" /\ status[s] = "LISTEN" /\ port[r] = port[s] => r = s

(* A connection is never taken from its user to make a socket: socketBegin *)
(* leaves those alone whose end here is still open.                        *)
NeverTaken ==
  [][\A s \in Socks :
       status[s] \in Live => status'[s] \notin {"LISTEN", "SYNSENT", "UDP"}]_vars

(* What a peer has sent before it closed is not thrown away by the server, *)
(* although data and FIN may arrive between any two steps of its scan.     *)
UnreadKept ==
  [][\A s \in Socks :
       op \in {"scan", "check", "quiet"} /\ status[s] \in Live /\ unread[s] =>
         status'[s] \notin Closing]_vars

(* socketSend waits for a peer, with no timeout, as long as the connection *)
(* is open (socket.cpp:435-458); so it does on a socket that has become a  *)
(* UDP socket behind the client's back.                                    *)
AwaitsPeer == op \in {"room", "send"} /\ status[at] \in Live \cup {"UDP"}

(* A server comes to listen again, unless every socket is in use, or the   *)
(* sketch is held up for ever in a send.                                   *)
ListensAgain ==
  \/ <>[]AwaitsPeer
  \/ \A p \in Ports :
       []<>(\/ \E s \in Socks : status[s] = "LISTEN" /\ port[s] = p
            \/ \A s \in Socks : status[s] \notin Closing \cup {"CLOSED"})

(* Every call returns, whatever the peers do, but for one that sends to a  *)
(* peer that neither takes the data nor ends the connection: a connection  *)
(* that breaks, is closed or never comes about holds up none.              *)
CallsReturn == <>[]AwaitsPeer \/ (op # "idle" ~> op = "idle")
==============================================================================
