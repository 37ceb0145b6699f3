------------------------------ MODULE TcpServer ------------------------------
(***************************************************************************)
(* The TcpServer singleton and its TcpSession objects                      *)
(* (esp01-projects/tcp server).                                            *)
(*                                                                         *)
(* Everything runs on one thread: a call of the owner, or a callback of    *)
(* the ESPCONN firmware, runs to completion, so each is one action.  The   *)
(* firmware (listening, dialling, the links and the callbacks registered   *)
(* for a link) is external: the variables of the firmware record only what *)
(* the calls made by the code ask of it, and its answers are arbitrary.    *)
(* An owner calls a session only outside a callback.                       *)
(*                                                                         *)
(* Undefined behaviour (a session object deleted by a second shared_ptr    *)
(* and used again, a dereferenced end() iterator) has two outcomes: the    *)
(* call goes on as if nothing had happened, or the processor faults and    *)
(* resets itself.  A call through a null session pointer always faults.    *)
(***************************************************************************)
EXTENDS Naturals, FiniteSets

CONSTANTS Peers,          \* remote endpoints: an address and a port
          Ips, IpOf,      \* the address of a peer
          Ids, IdOf,      \* the session id of a peer: a hash of "address:port"
          Owners, NoOwner, \* upper-layer objects; NoOwner: a null listener
          Kinds,          \* the session callbacks that owners register
          NoSession,      \* no entry in the session table
          MaxTcpClients, MaxTcpSessions

AllKinds == {"disconnect", "reconnect", "recv", "sent"}

Callback == [Kinds -> Owners \cup {NoOwner}]

(* sessionValid_, whether the object was deleted while the table still     *)
(* points to it, and the listener of each callback.                        *)
Session == [valid : BOOLEAN, freed : BOOLEAN, listener : Callback]

ASSUME ConstantsOK ==
  /\ IsFiniteSet(Ips) /\ IpOf \in [Peers -> Ips]
  /\ IsFiniteSet(Ids) /\ IdOf \in [Peers -> Ids]
  /\ NoOwner \notin Owners /\ NoSession \notin Session
  /\ Kinds \subseteq AllKinds
  /\ MaxTcpClients \in 1..255        \* numberOfClients_ is an unsigned char
  /\ MaxTcpSessions \in Nat

VARIABLES
  started, mode, serverOwner,        \* started_, config_ and its ServerConfig
  clients, numberOfClients,          \* its ClientConfig: the owner per address
  table,                             \* tcpSessions_
  handle,                            \* what the owner's pointer to a peer's
                                     \* session designates
  listening, dialing, link, reg,     \* the firmware
  call                               \* the owner callback this step made

config   == <<started, mode, serverOwner, clients, numberOfClients>>
sessions == <<table, handle>>
firmware == <<listening, dialing, link, reg>>
vars     == <<config, sessions, firmware, call>>

------------------------------------------------------------------------------
NewSession == [valid |-> TRUE, freed |-> FALSE,
               listener |-> [k \in Kinds |-> NoOwner]]

(* What a step lets the owners see: a call of connectedCb, a call of the   *)
(* callback "event" of a session with the object "given" where             *)
(* "registered" was registered for it, or a reset of the processor.        *)
NoCall == [event |-> "none"]
Fault  == [event |-> "fault"]
Connected(p, o) == [event |-> "connected", peer |-> p, given |-> o]
Event(k, p, r, g) == [event |-> k, peer |-> p, registered |-> r, given |-> g]
Calls == {NoCall, Fault}
  \cup [event : {"connected"}, peer : Peers, given : Owners \cup {NoOwner}]
  \cup [event : Kinds, peer : Peers, registered : Owners \cup {NoOwner},
        given : Owners \cup {NoOwner}]

HandleKinds == {"none", "mapped", "detached", "dangling"}
LinkStates  == {"closed", "open", "closing", "aborted"}

TypeOK ==
  /\ started \in BOOLEAN /\ mode \in {"server", "client"}
  /\ serverOwner \in Owners \cup {NoOwner}
  /\ clients \in [Ips -> Owners \cup {NoOwner}]
  /\ numberOfClients \in Nat
  /\ table \in [Ids -> Session \cup {NoSession}]
  /\ handle \in [Peers -> HandleKinds]
  /\ listening \in BOOLEAN /\ dialing \subseteq Peers
  /\ link \in [Peers -> LinkStates] /\ reg \in [Peers -> SUBSET Kinds]
  /\ call \in Calls

Init ==
  /\ started = FALSE /\ mode = "server" /\ serverOwner = NoOwner
  /\ clients = [i \in Ips |-> NoOwner] /\ numberOfClients = 0
  /\ table = [i \in Ids |-> NoSession]
  /\ handle = [p \in Peers |-> "none"]
  /\ listening = FALSE /\ dialing = {}
  /\ link = [p \in Peers |-> "closed"] /\ reg = [p \in Peers |-> {}]
  /\ call = NoCall

SessionIds == {i \in Ids : table[i] # NoSession}
ClientIps  == {i \in Ips : clients[i] # NoOwner}

Mapped(p) == handle[p] = "mapped"

(* What a pointer designates once the table no longer holds the object:    *)
(* the owner's copy keeps it alive, unless it has been deleted already.    *)
Unmapped(p) == IF table[IdOf[p]].freed THEN "dangling" ELSE "detached"

(* The processor faults and resets itself; the peers see their links die.  *)
Reset ==
  /\ started' = FALSE /\ mode' = "server" /\ serverOwner' = NoOwner
  /\ clients' = [i \in Ips |-> NoOwner] /\ numberOfClients' = 0
  /\ table' = [i \in Ids |-> NoSession]
  /\ handle' = [p \in Peers |-> "none"]
  /\ listening' = FALSE /\ dialing' = {}
  /\ link' = [p \in Peers |-> "closed"] /\ reg' = [p \in Peers |-> {}]
  /\ call' = Fault

------------------------------------------------------------------------------
(* TcpServer: the owner's calls.  A refused call changes nothing.          *)

Refuse == call' = NoCall /\ UNCHANGED <<config, sessions, firmware>>

(* removeAllSessions: the table drops its pointers; the links stay open.   *)
RemoveAllSessions ==
  /\ table' = [i \in Ids |-> NoSession]
  /\ handle' = [p \in Peers |-> IF Mapped(p) THEN Unmapped(p) ELSE handle[p]]

(* ... and deletes for a second time the objects that were deleted before. *)
DeletesTwice == \E i \in SessionIds : table[i].freed

(* Mutant of CleanupFrom: the separate counter of the list is forgotten.   *)
CleanupKeepsCount(m) ==
  /\ started' = FALSE
  /\ RemoveAllSessions
  /\ mode' = m
  /\ clients' = [i \in Ips |-> NoOwner] /\ UNCHANGED numberOfClients
  /\ call' = NoCall

(* cleanup, from the configuration kind "m" (a variant is never empty).    *)
CleanupFrom(m) ==
  /\ started' = FALSE
  /\ RemoveAllSessions
  /\ mode' = m
  /\ clients' = [i \in Ips |-> NoOwner] /\ numberOfClients' = 0
  /\ call' = NoCall

(* Mutant of Cleanup: config_ is reset to a default ServerConfig as well.  *)
CleanupResetsConfig ==
  /\ CleanupFrom("server")
  /\ serverOwner' = NoOwner
  /\ UNCHANGED firmware

Cleanup ==
  \/ CleanupFrom(mode) /\ UNCHANGED <<serverOwner, firmware>>
  \/ DeletesTwice /\ Reset

(* startTcpServer: config_ is replaced before the firmware is asked.       *)
StartTcpServer(o) ==
  \/ started /\ Refuse
  \/ /\ ~started
     /\ serverOwner' = o
     /\ \/ /\ started' = TRUE /\ mode' = "server"      \* espconn_accept: 0
           /\ clients' = [i \in Ips |-> NoOwner] /\ numberOfClients' = 0
           /\ listening' = TRUE
           /\ call' = NoCall
           /\ UNCHANGED <<sessions, dialing, link, reg>>
        \/ CleanupFrom("server") /\ UNCHANGED firmware \* an error code
  \/ ~started /\ DeletesTwice /\ Reset

(* addClient of ClientConfig.                                              *)
CanAddClient(ip) ==
  /\ numberOfClients < MaxTcpClients
  /\ ip \notin ClientIps

(* Mutant of MayStartClient: a started server does not matter.             *)
MayAlwaysStartClient(ip) == mode = "client" => CanAddClient(ip)

MayStartClient(ip) == IF mode = "client" THEN CanAddClient(ip) ELSE ~started

(* startTcpClient: one address more in the client list, or a new list.  An *)
(* error of the firmware cleans up every client and session, not only this *)
(* one.                                                                    *)
StartTcpClient(p, o) ==
  LET ip == IpOf[p] IN
  \/ ~MayStartClient(ip) /\ Refuse
  \/ /\ MayStartClient(ip)
     /\ serverOwner' = NoOwner                         \* config_ is no server's
     /\ \/ /\ started' = TRUE /\ mode' = "client"      \* espconn_connect: 0
           /\ clients' = [clients EXCEPT ![ip] = o]
           /\ numberOfClients' = numberOfClients + 1
           /\ dialing' = dialing \cup {p}
           /\ call' = NoCall
           /\ UNCHANGED <<sessions, listening, link, reg>>
        \/ CleanupFrom("client") /\ UNCHANGED firmware \* an error code
  \/ MayStartClient(ip) /\ DeletesTwice /\ Reset

(* stopTcpServer is a TODO in the code: it answers true and does nothing.  *)
StopTcpServer == Refuse

(* Mutant of StopTcpClient: the result of find() is not looked at.         *)
StopTcpClientUnchecked(ip) ==
  /\ mode = "client"
  /\ clients' = [clients EXCEPT ![ip] = NoOwner]
  /\ numberOfClients' = numberOfClients - 1
  /\ call' = NoCall
  /\ UNCHANGED <<started, mode, serverOwner, sessions, firmware>>

(* stopTcpClient forgets the client; its session and its dial go on.       *)
StopTcpClient(ip) ==
  \/ /\ mode = "client" /\ ip \in ClientIps
     /\ clients' = [clients EXCEPT ![ip] = NoOwner]
     /\ numberOfClients' = numberOfClients - 1
     /\ call' = NoCall
     /\ UNCHANGED <<started, mode, serverOwner, sessions, firmware>>
  \/ (mode = "server" \/ ip \notin ClientIps) /\ Refuse

------------------------------------------------------------------------------
(* TcpServer: a link has been established (espconnSessionConnectedCb).     *)

(* Mutant of ConnectRefused: the link is not aborted.                      *)
ConnectRefusedKeepsLink(p) ==
  /\ dialing' = dialing \ {p}
  /\ link' = [link EXCEPT ![p] = "open"]
  /\ call' = NoCall
  /\ UNCHANGED <<config, sessions, listening, reg>>

(* createTcpSession gives up: no memory for the object, or addSession      *)
(* found the table full; espconn_abort ends the link at once.              *)
ConnectRefused(p) ==
  /\ dialing' = dialing \ {p}
  /\ call' = NoCall
  /\ UNCHANGED <<config, sessions, listening, link, reg>>

(* Mutant of HasRoom: an off-by-one in the comparison with the limit.      *)
HasRoomForOneMore(p) ==
  table[IdOf[p]] = NoSession => Cardinality(SessionIds) <= MaxTcpSessions

(* addSession: the limit applies to ids that are not in the table yet.     *)
HasRoom(p) ==
  table[IdOf[p]] = NoSession => Cardinality(SessionIds) < MaxTcpSessions

(* addSession answers true as well when the id is already in the table:    *)
(* the table then keeps the OLD object and the owner is given the new one. *)
AddSession(p) ==
  /\ HasRoom(p)
  /\ table' = [table EXCEPT ![IdOf[p]] = IF @ = NoSession THEN NewSession ELSE @]

(* connectedCb_ of the server's owner.                                     *)
TellServerOwner(p) ==
  /\ mode = "server"
  /\ call' = Connected(p, serverOwner)
  /\ handle' = [handle EXCEPT ![p] =
                  IF table[IdOf[p]] = NoSession THEN "mapped" ELSE "detached"]

(* The client branch tests find() the wrong way round: a client in the     *)
(* list is "not found" and its owner is told nothing, and for an address   *)
(* that is not in the list end() is dereferenced.                          *)
TellClientOwner(p) ==
  /\ mode = "client"
  /\ call' = NoCall
  /\ UNCHANGED handle

DereferencesEnd(p) == mode = "client" /\ IpOf[p] \notin ClientIps

SessionConnected(p) ==
  /\ link[p] = "closed"
  /\ listening \/ p \in dialing
  /\ \/ ConnectRefused(p)
     \/ /\ AddSession(p)
        /\ TellServerOwner(p) \/ TellClientOwner(p)
        /\ dialing' = dialing \ {p}
        /\ link' = [link EXCEPT ![p] = "open"]
        /\ reg' = [reg EXCEPT ![p] = {}]
        /\ UNCHANGED <<config, listening>>
     \/ HasRoom(p) /\ DereferencesEnd(p) /\ Reset

(* The firmware gives up a dial.  No reconnect callback is registered for  *)
(* it (a TODO in the code), so nobody is told.                             *)
DialFails(p) ==
  /\ p \in dialing
  /\ dialing' = dialing \ {p}
  /\ call' = NoCall
  /\ UNCHANGED <<config, sessions, listening, link, reg>>

------------------------------------------------------------------------------
(* TcpSession: the owner's calls, through the pointer it was given.        *)

Holds(p) == handle[p] # "none"

(* The pointer designates an object that has been deleted.                 *)
Dangling(p) == handle[p] = "dangling" \/ (Mapped(p) /\ table[IdOf[p]].freed)
UseDangling(p) == Dangling(p) /\ Reset

Abort(p) == link' = [link EXCEPT ![p] = IF @ = "closed" THEN @ ELSE "aborted"]

(* Mutant of RegisterCb: the firmware is told, the listener not stored.    *)
RegisterCbForgetsListener(p, k, o) ==
  /\ Holds(p)
  /\ reg' = [reg EXCEPT ![p] = IF link[p] = "closed" THEN @ ELSE @ \cup {k}]
  /\ call' = NoCall
  /\ UNCHANGED <<config, sessions, listening, dialing, link>>

(* Mutant of RegisterCb: a refused session leaves the table at once.       *)
RegisterCbRemovesSession(p, k, o) ==
  /\ Holds(p)
  /\ \/ /\ reg' = [reg EXCEPT ![p] = IF link[p] = "closed" THEN @ ELSE @ \cup {k}]
        /\ table' = IF Mapped(p)
                    THEN [table EXCEPT ![IdOf[p]].listener[k] = o] ELSE table
        /\ UNCHANGED <<link, handle>>
     \/ /\ Abort(p)
        /\ table' = IF Mapped(p) THEN [table EXCEPT ![IdOf[p]] = NoSession] ELSE table
        /\ handle' = [handle EXCEPT ![p] = IF Mapped(p) THEN Unmapped(p) ELSE @]
        /\ UNCHANGED reg
  /\ call' = NoCall
  /\ UNCHANGED <<config, listening, dialing>>

(* registerSessionDisconnectedCb and its three siblings: the firmware      *)
(* accepts, or the link is aborted and the session is no longer valid.     *)
RegisterCb(p, k, o) ==
  /\ Holds(p)
  /\ \/ /\ reg' = [reg EXCEPT ![p] = IF link[p] = "closed" THEN @ ELSE @ \cup {k}]
        /\ table' = IF Mapped(p)
                    THEN [table EXCEPT ![IdOf[p]].listener[k] = o] ELSE table
        /\ UNCHANGED link
     \/ /\ Abort(p)
        /\ table' = IF Mapped(p)
                    THEN [table EXCEPT ![IdOf[p]].valid = FALSE] ELSE table
        /\ UNCHANGED reg
  /\ call' = NoCall
  /\ UNCHANGED <<config, handle, listening, dialing>>

(* sendMessage: accepted or to be retried, or out of memory or no such     *)
(* link, and then the link is aborted; the session stays valid.            *)
SendMessage(p) ==
  /\ Holds(p)
  /\ Abort(p) \/ UNCHANGED link
  /\ call' = NoCall
  /\ UNCHANGED <<config, sessions, listening, dialing, reg>>

(* disconnectSession: a graceful close, or an abort if that is refused.    *)
DisconnectSession(p) ==
  /\ Holds(p)
  /\ \/ Abort(p)
     \/ link' = [link EXCEPT ![p] = IF @ = "open" THEN "closing" ELSE @]
  /\ call' = NoCall
  /\ UNCHANGED <<config, sessions, listening, dialing, reg>>

------------------------------------------------------------------------------
(* TcpSession: the callbacks of the firmware, which find the session again *)
(* by the id of the link's peer and call through the pointer unchecked.    *)

(* sessionDisconnected calls disconnectedCb_ and then deadCb_, and so      *)
(* removeSession.  Each callback gets a shared_ptr made from "this", which *)
(* deletes the object when the call returns: always undefined behaviour.   *)
SessionDisconnected(p) ==
  LET id == IdOf[p]
      o  == table[id].listener["disconnect"] IN
  /\ table[id] # NoSession
  /\ call' = Event("disconnect", p, o, o)
  /\ table' = [table EXCEPT ![id] = NoSession]
  /\ handle' = [q \in Peers |-> IF Mapped(q) /\ IdOf[q] = id
                                THEN "dangling" ELSE handle[q]]

(* The other callbacks "k", handing on the listener registered for "l":    *)
(* the object is deleted and stays in the table.                           *)
Deliver(p, k, l) ==
  LET id == IdOf[p]
      s  == table[id] IN
  /\ s # NoSession
  /\ call' = Event(k, p, s.listener[k],
                   IF l \in Kinds THEN s.listener[l] ELSE NoOwner)
  /\ table' = [table EXCEPT ![id].freed = TRUE]
  /\ UNCHANGED handle

(* There is no session for the peer, or its object has been deleted.       *)
FindsNoObject(p) ==
  table[IdOf[p]] # NoSession => table[IdOf[p]].freed

LinkEnds(p) ==
  /\ link' = [link EXCEPT ![p] = "closed"]
  /\ reg' = [reg EXCEPT ![p] = {}]
  /\ UNCHANGED <<config, listening, dialing>>

(* localSessionDisconnectCb                                                *)
LinkDisconnected(p) ==
  /\ link[p] # "closed" /\ "disconnect" \in reg[p]
  /\ \/ SessionDisconnected(p) /\ LinkEnds(p)
     \/ Reset

(* localSessionReconnectCb: the link broke.  reconnectCb_ is called with   *)
(* the listener of disconnectedCb_, and the session is not removed.        *)
LinkBroken(p) ==
  /\ link[p] # "closed" /\ "reconnect" \in reg[p]
  /\ \/ Deliver(p, "reconnect", "disconnect") /\ LinkEnds(p)
     \/ FindsNoObject(p) /\ Reset

(* The link ends in a way nobody is told of: no callback is registered for *)
(* it, or it was aborted.                                                  *)
LinkVanishes(p) ==
  /\ \/ link[p] = "aborted"
     \/ link[p] \in {"open", "closing"} /\ ~({"disconnect", "reconnect"} \subseteq reg[p])
  /\ LinkEnds(p)
  /\ call' = NoCall
  /\ UNCHANGED sessions

(* localIncomingMessageCb ("recv") and localMessageSentCb ("sent")         *)
LinkEvent(p, k) ==
  /\ link[p] = "open" /\ k \in reg[p]
  /\ \/ Deliver(p, k, k) /\ UNCHANGED <<config, firmware>>
     \/ FindsNoObject(p) /\ Reset

------------------------------------------------------------------------------
OwnerStep ==
  \/ Cleanup
  \/ StopTcpServer
  \/ \E o \in Owners : StartTcpServer(o)
  \/ \E p \in Peers, o \in Owners : StartTcpClient(p, o)
  \/ \E ip \in Ips : StopTcpClient(ip)
  \/ \E p \in Peers, k \in Kinds, o \in Owners : RegisterCb(p, k, o)
  \/ \E p \in Peers : SendMessage(p) \/ DisconnectSession(p) \/ UseDangling(p)

FirmwareStep ==
  \E p \in Peers :
    \/ SessionConnected(p)
    \/ DialFails(p)
    \/ LinkDisconnected(p)
    \/ LinkBroken(p)
    \/ LinkVanishes(p)
    \/ \E k \in {"recv", "sent"} : LinkEvent(p, k)

Next == OwnerStep \/ FirmwareStep

Spec == Init /\ [][Next]_vars

------------------------------------------------------------------------------
(* Properties                                                              *)

(* The client list and its separate counter (an unsigned char that is      *)
(* stepped by hand in addClient, removeClient, the constructor and         *)
(* cleanClientList) agree, and stay within MAX_TCP_CLIENTS.                *)
ClientBook ==
  /\ numberOfClients = Cardinality(ClientIps)
  /\ numberOfClients <= MaxTcpClients
  /\ mode = "server" => ClientIps = {}

(* However connects, reconnects of known peers, disconnects and cleanups   *)
(* interleave, at most MAX_TCP_SESSIONS sessions are held.                 *)
SessionBound == Cardinality(SessionIds) <= MaxTcpSessions

(* The connect callback of the firmware, which cannot be withdrawn, never  *)
(* finds a server configuration whose owner and callback were never set    *)
(* (ServerConfig's default constructor leaves them uninitialised).         *)
OwnerIsSet ==
  mode = "server" /\ (listening \/ dialing # {}) => serverOwner # NoOwner

(* The owner's pointer to a session and the table agree: the object it     *)
(* designates is there, and every callback the firmware has for the link   *)
(* is one that this object has a listener for, so that no event of the     *)
(* link ends in the null callback.                                         *)
ListenersMatch ==
  \A p \in Peers : Mapped(p) =>
    /\ table[IdOf[p]] # NoSession
    /\ \A k \in reg[p] : table[IdOf[p]].listener[k] # NoOwner

(* While it is started the server does not change between serving and      *)
(* being a client (startTcpServer and startTcpClient exclude each other).  *)
ModeStable == [][started /\ started' => mode' = mode]_vars

(* A session leaves the table only in the disconnect event of its own      *)
(* peer; otherwise the whole table is emptied.                             *)
SessionLeaves ==
  [][\A i \in Ids : table[i] # NoSession /\ table'[i] = NoSession =>
       \/ \E p \in Peers : IdOf[p] = i /\ call' # NoCall
                          /\ call'.event = "disconnect" /\ call'.peer = p
       \/ table' = [j \in Ids |-> NoSession]]_vars

(* A link that is up without a session in the table (whose next event      *)
(* would be a call through a null pointer) only comes from emptying the    *)
(* whole table, never from refusing or ending a single session.            *)
NoUnattendedLink ==
  [][\A p \in Peers : link'[p] = "open" /\ table'[IdOf[p]] = NoSession =>
       /\ link[p] = "open"
       /\ table[IdOf[p]] = NoSession \/ table' = [j \in Ids |-> NoSession]]_vars

------------------------------------------------------------------------------
(* What the documentation and the test plan say of the code, and the code  *)
(* does not do.                                                            *)

(* README.md:60: "In both cases a shared pointer to a TCP Session is       *)
(* returned in the callback": the owner of a client whose connection is    *)
(* established is called with the new session.                             *)
ClientOwnerTold ==
  [][\A p \in Peers :
       /\ mode = "client" /\ IpOf[p] \in ClientIps
       /\ table[IdOf[p]] = NoSession /\ table'[IdOf[p]] # NoSession
       => call' = Connected(p, clients[IpOf[p]])]_vars

(* README.md:101: the incoming message callback is "invoked when an        *)
(* incoming message is received": it is that of the session the owner was  *)
(* last given for the peer, not that of an older one still in the table.   *)
MessageReachesOwner ==
  [][\A p \in Peers : call' # NoCall /\ call'.event = "recv" /\ call'.peer = p
                     => handle[p] # "detached"]_vars
==============================================================================
