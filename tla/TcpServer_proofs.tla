--------------------------- MODULE TcpServer_proofs ---------------------------
(* Theorems about TcpServer, for every value of its constants.              *)
EXTENDS TcpServer, FiniteSetTheorems, TLAPS

(* NewSession and the sessions the code makes of one are sessions, hence    *)
(* no NoSession.                                                            *)
LEMMA SessionFacts ==
  /\ NewSession \in Session
  /\ \A s \in Session : s # NoSession
  /\ \A s \in Session, k \in Kinds, o \in Owners :
       /\ [s EXCEPT !.listener[k] = o] \in Session
       /\ [s EXCEPT !.listener[k] = o].listener = [s.listener EXCEPT ![k] = o]
  /\ \A s \in Session :
       /\ [s EXCEPT !.valid = FALSE] \in Session
       /\ [s EXCEPT !.freed = TRUE] \in Session
<1>1. NewSession \in Session
  BY DEF NewSession, Session, Callback
<1>2. \A s \in Session : s # NoSession
  BY ConstantsOK
<1>3. \A s \in Session, k \in Kinds, o \in Owners :
       /\ [s EXCEPT !.listener[k] = o] \in Session
       /\ [s EXCEPT !.listener[k] = o].listener = [s.listener EXCEPT ![k] = o]
  BY DEF Session, Callback
<1>4. \A s \in Session :
       /\ [s EXCEPT !.valid = FALSE] \in Session
       /\ [s EXCEPT !.freed = TRUE] \in Session
  BY DEF Session
<1>. QED  BY <1>1, <1>2, <1>3, <1>4

------------------------------------------------------------------------------
(* Every pointer the owners hold to a session of the table designates one   *)
(* that is there: type correctness rests on it, since registering a         *)
(* callback writes through the pointer.                                     *)
HandlesInTable == \A p \in Peers : Mapped(p) => table[IdOf[p]] # NoSession

(* The counter is at least the number of clients, and so never goes below   *)
(* zero when a client is removed.                                           *)
TypeInv == TypeOK /\ HandlesInTable /\ ClientBook

LEMMA EmptyClients ==
  ASSUME clients' = [i \in Ips |-> NoOwner] PROVE ClientIps' = {}
BY DEF ClientIps

LEMMA BookEmpty ==
  ASSUME clients' = [i \in Ips |-> NoOwner], numberOfClients' = 0
  PROVE  ClientBook'
<1>1. ClientIps' = {}
  BY EmptyClients
<1>2. Cardinality({}) = 0
  BY FS_EmptySet
<1>. QED  BY <1>1, <1>2, ConstantsOK DEF ClientBook

LEMMA IpsFinite == IsFiniteSet(ClientIps)
BY ConstantsOK, FS_Subset DEF ClientIps

LEMMA HandlesWhenCleaned ==
  ASSUME TypeOK, RemoveAllSessions
  PROVE  /\ table' \in [Ids -> Session \cup {NoSession}]
         /\ handle' \in [Peers -> HandleKinds]
         /\ HandlesInTable'
BY DEF TypeOK, RemoveAllSessions, Mapped, Unmapped, HandleKinds, HandlesInTable

LEMMA ResetInv == ASSUME Reset PROVE TypeInv'
<1>1. ClientBook'
  BY BookEmpty DEF Reset
<1>2. TypeOK'
  BY DEF Reset, TypeOK, HandleKinds, LinkStates, Calls
<1>3. HandlesInTable'
  BY DEF Reset, HandlesInTable, Mapped
<1>. QED  BY <1>1, <1>2, <1>3 DEF TypeInv

LEMMA CleanupInv ==
  ASSUME TypeInv, NEW m \in {"server", "client"}, CleanupFrom(m),
         serverOwner' \in Owners \cup {NoOwner}, UNCHANGED firmware
  PROVE  TypeInv'
<1>1. ClientBook'
  BY BookEmpty DEF CleanupFrom
<1>2. HandlesInTable' /\ table' \in [Ids -> Session \cup {NoSession}]
      /\ handle' \in [Peers -> HandleKinds]
  BY HandlesWhenCleaned DEF CleanupFrom, TypeInv
<1>3. TypeOK'
  BY <1>2 DEF CleanupFrom, TypeOK, TypeInv, Calls, firmware
<1>. QED  BY <1>1, <1>2, <1>3 DEF TypeInv

LEMMA RefuseInv == ASSUME TypeInv, Refuse PROVE TypeInv'
BY DEF Refuse, TypeInv, TypeOK, HandlesInTable, ClientBook, ClientIps, Mapped,
       config, sessions, firmware, Calls

LEMMA AddClientBook ==
  ASSUME TypeOK, ClientBook, NEW ip \in Ips, NEW o \in Owners, MayStartClient(ip),
         mode' = "client", clients' = [clients EXCEPT ![ip] = o],
         numberOfClients' = numberOfClients + 1
  PROVE  ClientBook'
<1>1. /\ numberOfClients = Cardinality(ClientIps)
      /\ numberOfClients < MaxTcpClients /\ ip \notin ClientIps
  <2>1. CASE mode = "client"
    BY <2>1 DEF MayStartClient, CanAddClient, ClientBook
  <2>2. CASE mode # "client"
    <3>1. ClientIps = {} /\ numberOfClients = 0
      BY <2>2, FS_EmptySet DEF ClientBook, TypeOK
    <3>. QED  BY <3>1, ConstantsOK, FS_EmptySet
  <2>. QED  BY <2>1, <2>2
<1>2. ClientIps' = ClientIps \cup {ip}
  BY ConstantsOK DEF ClientIps, TypeOK
<1>3. Cardinality(ClientIps') = Cardinality(ClientIps) + 1
  BY <1>1, <1>2, IpsFinite, FS_AddElement
<1>. QED  BY <1>1, <1>3, ConstantsOK DEF ClientBook, TypeOK

LEMMA RemoveClientBook ==
  ASSUME TypeOK, ClientBook, NEW ip \in Ips, ip \in ClientIps,
         mode = "client", mode' = mode, clients' = [clients EXCEPT ![ip] = NoOwner],
         numberOfClients' = numberOfClients - 1
  PROVE  ClientBook' /\ numberOfClients' \in Nat
<1>1. ClientIps' = ClientIps \ {ip}
  BY DEF ClientIps, TypeOK
<1>2. Cardinality(ClientIps') = Cardinality(ClientIps) - 1
      /\ Cardinality(ClientIps) # 0
  BY <1>1, IpsFinite, FS_RemoveElement, FS_EmptySet
<1>. QED  BY <1>2, ConstantsOK DEF ClientBook, TypeOK

------------------------------------------------------------------------------
(* Each operation preserves TypeInv.                                        *)

LEMMA CleanupStep == ASSUME TypeInv, Cleanup PROVE TypeInv'
<1>1. ASSUME CleanupFrom(mode), UNCHANGED <<serverOwner, firmware>> PROVE TypeInv'
  BY <1>1, CleanupInv DEF TypeInv, TypeOK
<1>. QED  BY <1>1, ResetInv DEF Cleanup

LEMMA StartTcpServerStep ==
  ASSUME TypeInv, NEW o \in Owners, StartTcpServer(o) PROVE TypeInv'
<1>1. ASSUME serverOwner' = o, started' = TRUE, mode' = "server",
             clients' = [i \in Ips |-> NoOwner], numberOfClients' = 0,
             listening' = TRUE, call' = NoCall,
             UNCHANGED <<sessions, dialing, link, reg>>
      PROVE  TypeInv'
  <2>1. ClientBook'
    BY <1>1, BookEmpty
  <2>2. TypeOK' /\ HandlesInTable'
    BY <1>1 DEF TypeInv, TypeOK, HandlesInTable, Mapped, sessions, Calls
  <2>. QED  BY <2>1, <2>2 DEF TypeInv
<1>2. ASSUME serverOwner' = o, CleanupFrom("server"), UNCHANGED firmware PROVE TypeInv'
  BY <1>2, CleanupInv
<1>. QED  BY <1>1, <1>2, RefuseInv, ResetInv DEF StartTcpServer

LEMMA StartTcpClientStep ==
  ASSUME TypeInv, NEW p \in Peers, NEW o \in Owners, StartTcpClient(p, o) PROVE TypeInv'
<1>. DEFINE ip == IpOf[p]
<1>0. ip \in Ips
  BY ConstantsOK
<1>1. ASSUME MayStartClient(ip), serverOwner' = NoOwner, started' = TRUE, mode' = "client",
             clients' = [clients EXCEPT ![ip] = o],
             numberOfClients' = numberOfClients + 1,
             dialing' = dialing \cup {p}, call' = NoCall,
             UNCHANGED <<sessions, listening, link, reg>>
      PROVE  TypeInv'
  <2>1. ClientBook'
    BY <1>0, <1>1, AddClientBook DEF TypeInv
  <2>2. TypeOK' /\ HandlesInTable'
    BY <1>0, <1>1 DEF TypeInv, TypeOK, HandlesInTable, Mapped, sessions, Calls
  <2>. QED  BY <2>1, <2>2 DEF TypeInv
<1>2. ASSUME serverOwner' = NoOwner, CleanupFrom("client"), UNCHANGED firmware PROVE TypeInv'
  BY <1>2, CleanupInv
<1>. QED  BY <1>1, <1>2, RefuseInv, ResetInv DEF StartTcpClient

LEMMA StopTcpClientStep ==
  ASSUME TypeInv, NEW ip \in Ips, StopTcpClient(ip) PROVE TypeInv'
<1>1. ASSUME mode = "client", ip \in ClientIps,
             clients' = [clients EXCEPT ![ip] = NoOwner],
             numberOfClients' = numberOfClients - 1, call' = NoCall,
             UNCHANGED <<started, mode, serverOwner, sessions, firmware>>
      PROVE  TypeInv'
  <2>1. ClientBook' /\ numberOfClients' \in Nat
    BY <1>1, RemoveClientBook DEF TypeInv
  <2>2. TypeOK' /\ HandlesInTable'
    BY <1>1, <2>1 DEF TypeInv, TypeOK, HandlesInTable, Mapped, sessions, firmware, Calls
  <2>. QED  BY <2>1, <2>2 DEF TypeInv
<1>. QED  BY <1>1, RefuseInv DEF StopTcpClient

LEMMA BookSame ==
  ASSUME ClientBook, UNCHANGED config PROVE ClientBook'
BY DEF ClientBook, ClientIps, config

LEMMA RegisterCbStep ==
  ASSUME TypeInv, NEW p \in Peers, NEW k \in Kinds, NEW o \in Owners, RegisterCb(p, k, o)
  PROVE  TypeInv'
<1>. DEFINE id == IdOf[p]
<1>0. id \in Ids
  BY ConstantsOK
<1>1. ASSUME Mapped(p) PROVE table[id] \in Session /\ table[id] # NoSession
  BY <1>0, <1>1 DEF TypeInv, TypeOK, HandlesInTable
<1>2. /\ table' \in [Ids -> Session \cup {NoSession}]
      /\ \A i \in Ids : table[i] # NoSession => table'[i] # NoSession
  <2>1. CASE ~Mapped(p)
    BY <2>1 DEF RegisterCb, TypeInv, TypeOK
  <2>2. CASE Mapped(p) /\ table' = [table EXCEPT ![id].listener[k] = o]
    <3>1. table' = [table EXCEPT ![id] = [table[id] EXCEPT !.listener[k] = o]]
      BY <2>2
    <3>2. [table[id] EXCEPT !.listener[k] = o] \in Session
      BY <1>1, <2>2, SessionFacts
    <3>. QED  BY <1>0, <3>1, <3>2, ConstantsOK DEF TypeInv, TypeOK
  <2>3. CASE Mapped(p) /\ table' = [table EXCEPT ![id].valid = FALSE]
    <3>1. table' = [table EXCEPT ![id] = [table[id] EXCEPT !.valid = FALSE]]
      BY <2>3
    <3>2. [table[id] EXCEPT !.valid = FALSE] \in Session
      BY <1>1, <2>3, SessionFacts
    <3>. QED  BY <1>0, <3>1, <3>2, ConstantsOK DEF TypeInv, TypeOK
  <2>. QED  BY <2>1, <2>2, <2>3 DEF RegisterCb
<1>3. link' \in [Peers -> LinkStates] /\ reg' \in [Peers -> SUBSET Kinds]
  BY DEF RegisterCb, Abort, LinkStates, TypeInv, TypeOK
<1>4. TypeOK'
  BY <1>2, <1>3 DEF RegisterCb, config, TypeInv, TypeOK, Calls
<1>5. HandlesInTable'
  BY <1>2, ConstantsOK DEF RegisterCb, HandlesInTable, Mapped, TypeInv
<1>. QED  BY <1>4, <1>5, BookSame DEF TypeInv, RegisterCb

(* The calls that only reach the link.                                      *)
LEMMA LinkCallStep ==
  ASSUME TypeInv, NEW p \in Peers, SendMessage(p) \/ DisconnectSession(p)
  PROVE  TypeInv'
<1>1. link' \in [Peers -> LinkStates]
  BY DEF SendMessage, DisconnectSession, Abort, LinkStates, TypeInv, TypeOK
<1>2. /\ call' = NoCall
      /\ UNCHANGED <<config, sessions, listening, dialing, reg>>
  BY DEF SendMessage, DisconnectSession
<1>3. TypeOK' /\ HandlesInTable'
  BY <1>1, <1>2 DEF TypeInv, TypeOK, HandlesInTable, Mapped, config, sessions, Calls
<1>. QED  BY <1>2, <1>3, BookSame DEF TypeInv

(* AddSession adds a session at most, and none that was there changes.      *)
LEMMA AddSessionTable ==
  ASSUME TypeOK, NEW p \in Peers, AddSession(p)
  PROVE  /\ table' \in [Ids -> Session \cup {NoSession}]
         /\ \A i \in Ids : table[i] # NoSession => table'[i] = table[i]
         /\ \A i \in Ids : i # IdOf[p] => table'[i] = table[i]
         /\ table'[IdOf[p]] # NoSession
         /\ table[IdOf[p]] = NoSession => table'[IdOf[p]] = NewSession
BY ConstantsOK, SessionFacts DEF AddSession, TypeOK

LEMMA SessionConnectedStep ==
  ASSUME TypeInv, NEW p \in Peers, SessionConnected(p) PROVE TypeInv'
<1>1. CASE ConnectRefused(p)
  <2>1. TypeOK' /\ HandlesInTable'
    BY <1>1 DEF ConnectRefused, TypeInv, TypeOK, HandlesInTable, Mapped, config, sessions, Calls
  <2>. QED  BY <1>1, <2>1, BookSame DEF TypeInv, ConnectRefused
<1>2. ASSUME AddSession(p), TellServerOwner(p) \/ TellClientOwner(p),
             dialing' = dialing \ {p}, link' = [link EXCEPT ![p] = "open"],
             reg' = [reg EXCEPT ![p] = {}], UNCHANGED <<config, listening>>
      PROVE  TypeInv'
  <2>1. handle' \in [Peers -> HandleKinds] /\ call' \in Calls
    BY <1>2 DEF TellServerOwner, TellClientOwner, TypeInv, TypeOK, HandleKinds, Calls, Connected
  <2>2. TypeOK'
    BY <1>2, <2>1, AddSessionTable DEF TypeInv, TypeOK, config, LinkStates
  <2>3. HandlesInTable'
    BY <1>2, AddSessionTable, ConstantsOK
       DEF HandlesInTable, Mapped, TellServerOwner, TellClientOwner, TypeInv, TypeOK
  <2>. QED  BY <1>2, <2>2, <2>3, BookSame DEF TypeInv
<1>. QED  BY <1>1, <1>2, ResetInv DEF SessionConnected

LEMMA DialFailsStep ==
  ASSUME TypeInv, NEW p \in Peers, DialFails(p) PROVE TypeInv'
<1>1. TypeOK' /\ HandlesInTable'
  BY DEF DialFails, TypeInv, TypeOK, HandlesInTable, Mapped, config, sessions, Calls
<1>. QED  BY <1>1, BookSame DEF TypeInv, DialFails

LEMMA LinkVanishesStep ==
  ASSUME TypeInv, NEW p \in Peers, LinkVanishes(p) PROVE TypeInv'
<1>1. TypeOK' /\ HandlesInTable'
  BY DEF LinkVanishes, LinkEnds, TypeInv, TypeOK, HandlesInTable, Mapped, config, sessions,
         Calls, LinkStates
<1>. QED  BY <1>1, BookSame DEF TypeInv, LinkVanishes, LinkEnds

LEMMA LinkDisconnectedStep ==
  ASSUME TypeInv, NEW p \in Peers, LinkDisconnected(p) PROVE TypeInv'
<1>. DEFINE id == IdOf[p]
<1>1. ASSUME SessionDisconnected(p), LinkEnds(p) PROVE TypeInv'
  <2>0. "disconnect" \in Kinds /\ id \in Ids
    BY ConstantsOK DEF LinkDisconnected, TypeInv, TypeOK
  <2>1. table[id].listener["disconnect"] \in Owners \cup {NoOwner}
    BY <1>1, <2>0 DEF SessionDisconnected, TypeInv, TypeOK, Session, Callback
  <2>2. call' \in Calls
    BY <1>1, <2>0, <2>1 DEF SessionDisconnected, Calls, Event
  <2>3. table' \in [Ids -> Session \cup {NoSession}] /\ handle' \in [Peers -> HandleKinds]
    BY <1>1 DEF SessionDisconnected, TypeInv, TypeOK, HandleKinds, Mapped
  <2>4. TypeOK'
    BY <1>1, <2>2, <2>3 DEF LinkEnds, TypeInv, TypeOK, config, LinkStates
  <2>5. HandlesInTable'
    BY <1>1, ConstantsOK DEF SessionDisconnected, HandlesInTable, Mapped, TypeInv, TypeOK
  <2>. QED  BY <1>1, <2>4, <2>5, BookSame DEF TypeInv, LinkEnds
<1>. QED  BY <1>1, ResetInv DEF LinkDisconnected

(* Deliver marks the session of p, and changes nothing else of the table.   *)
LEMMA DeliverTable ==
  ASSUME TypeOK, NEW p \in Peers, NEW k \in Kinds, NEW l \in AllKinds, Deliver(p, k, l)
  PROVE  /\ table' \in [Ids -> Session \cup {NoSession}]
         /\ \A i \in Ids : table[i] # NoSession => table'[i] # NoSession
         /\ call' \in Calls
<1>. DEFINE id == IdOf[p]
            s  == table[id]
<1>1. id \in Ids /\ s \in Session
  BY ConstantsOK DEF Deliver, TypeOK
<1>2. table' = [table EXCEPT ![id] = [s EXCEPT !.freed = TRUE]]
  BY DEF Deliver
<1>3. [s EXCEPT !.freed = TRUE] \in Session
  BY <1>1, SessionFacts
<1>4. \A m \in Kinds : s.listener[m] \in Owners \cup {NoOwner}
  BY <1>1 DEF Session, Callback
<1>5. call' \in Calls
  BY <1>4 DEF Deliver, Calls, Event
<1>. QED  BY <1>1, <1>2, <1>3, <1>5, ConstantsOK DEF TypeOK

LEMMA LinkBrokenStep ==
  ASSUME TypeInv, NEW p \in Peers, LinkBroken(p) PROVE TypeInv'
<1>0. "reconnect" \in Kinds
  BY DEF LinkBroken, TypeInv, TypeOK
<1>1. ASSUME Deliver(p, "reconnect", "disconnect"), LinkEnds(p) PROVE TypeInv'
  <2>1. TypeOK'
    BY <1>0, <1>1, DeliverTable
       DEF Deliver, LinkEnds, TypeInv, TypeOK, config, LinkStates, AllKinds
  <2>2. HandlesInTable'
    BY <1>0, <1>1, DeliverTable, ConstantsOK
       DEF Deliver, HandlesInTable, Mapped, TypeInv, AllKinds
  <2>. QED  BY <1>1, <2>1, <2>2, BookSame DEF TypeInv, LinkEnds
<1>. QED  BY <1>1, ResetInv DEF LinkBroken

LEMMA LinkEventStep ==
  ASSUME TypeInv, NEW p \in Peers, NEW k \in {"recv", "sent"}, LinkEvent(p, k)
  PROVE  TypeInv'
<1>0. k \in Kinds /\ k \in AllKinds
  BY DEF LinkEvent, TypeInv, TypeOK, AllKinds
<1>1. ASSUME Deliver(p, k, k), UNCHANGED <<config, firmware>> PROVE TypeInv'
  <2>1. TypeOK'
    BY <1>0, <1>1, DeliverTable DEF Deliver, TypeInv, TypeOK, config, firmware
  <2>2. HandlesInTable'
    BY <1>0, <1>1, DeliverTable, ConstantsOK DEF Deliver, HandlesInTable, Mapped, TypeInv
  <2>. QED  BY <1>1, <2>1, <2>2, BookSame DEF TypeInv
<1>. QED  BY <1>1, ResetInv DEF LinkEvent

LEMMA TypeInvInit == ASSUME Init PROVE TypeInv
<1>1. ClientIps = {}
  BY DEF Init, ClientIps
<1>2. ClientBook
  BY <1>1, FS_EmptySet, ConstantsOK DEF Init, ClientBook
<1>3. TypeOK /\ HandlesInTable
  BY DEF Init, TypeOK, HandleKinds, LinkStates, Calls, HandlesInTable, Mapped
<1>. QED  BY <1>2, <1>3 DEF TypeInv

LEMMA TypeInvNext == ASSUME TypeInv, [Next]_vars PROVE TypeInv'
<1>1. CASE OwnerStep
  BY <1>1, CleanupStep, RefuseInv, StartTcpServerStep, StartTcpClientStep,
     StopTcpClientStep, RegisterCbStep, LinkCallStep, ResetInv
     DEF OwnerStep, StopTcpServer, UseDangling
<1>2. CASE FirmwareStep
  BY <1>2, SessionConnectedStep, DialFailsStep, LinkDisconnectedStep, LinkBrokenStep,
     LinkVanishesStep, LinkEventStep DEF FirmwareStep
<1>3. CASE UNCHANGED vars
  <2>1. TypeOK' /\ HandlesInTable'
    BY <1>3 DEF TypeInv, TypeOK, HandlesInTable, Mapped, vars, config, sessions, firmware
  <2>. QED  BY <1>3, <2>1, BookSame DEF TypeInv, vars
<1>. QED  BY <1>1, <1>2, <1>3 DEF Next

LEMMA TypeInvAlways == Spec => []TypeInv
BY TypeInvInit, TypeInvNext, PTL DEF Spec

(* Every variable has its type in every reachable state, and the counter    *)
(* of clients never goes below zero.                                        *)
THEOREM TypeCorrect == Spec => []TypeOK
<1>1. TypeInv => TypeOK
  BY DEF TypeInv
<1>. QED  BY <1>1, TypeInvAlways, PTL

(* The client list and its counter always agree, whatever the number of     *)
(* addresses and the value of MAX_TCP_CLIENTS.                              *)
THEOREM ClientBookCorrect == Spec => []ClientBook
<1>1. TypeInv => ClientBook
  BY DEF TypeInv
<1>. QED  BY <1>1, TypeInvAlways, PTL

------------------------------------------------------------------------------
(* The session table.  A step either adds the session of a peer there is    *)
(* room for, or adds none.                                                  *)

LEMMA RegisterCbTable ==
  ASSUME TypeInv, NEW p \in Peers, NEW k \in Kinds, NEW o \in Owners, RegisterCb(p, k, o)
  PROVE  \A i \in Ids : table'[i] = NoSession <=> table[i] = NoSession
<1>. DEFINE id == IdOf[p]
<1>0. id \in Ids /\ table \in [Ids -> Session \cup {NoSession}]
  BY ConstantsOK DEF TypeInv, TypeOK
<1>1. CASE ~Mapped(p)
  BY <1>1 DEF RegisterCb
<1>2. CASE Mapped(p)
  <2>1. table[id] \in Session
    BY <1>0, <1>2 DEF TypeInv, TypeOK, HandlesInTable
  <2>2. \E s \in Session : table' = [table EXCEPT ![id] = s]
    <3>1. \/ table' = [table EXCEPT ![id] = [table[id] EXCEPT !.listener[k] = o]]
          \/ table' = [table EXCEPT ![id] = [table[id] EXCEPT !.valid = FALSE]]
      BY <1>2 DEF RegisterCb
    <3>. QED  BY <2>1, <3>1, SessionFacts
  <2>. QED  BY <1>0, <2>1, <2>2, SessionFacts
<1>. QED  BY <1>1, <1>2

LEMMA TableStep ==
  ASSUME TypeInv, [Next]_vars
  PROVE  \/ \A i \in Ids : table[i] = NoSession => table'[i] = NoSession
         \/ \E p \in Peers : AddSession(p)
<1>. DEFINE AddsNone == \A i \in Ids : table[i] = NoSession => table'[i] = NoSession
<1>1. ASSUME NEW p \in Peers, NEW k \in Kinds, NEW o \in Owners, RegisterCb(p, k, o)
      PROVE  AddsNone
  BY <1>1, RegisterCbTable
<1>2. ASSUME Reset \/ RemoveAllSessions PROVE AddsNone
  BY <1>2 DEF Reset, RemoveAllSessions
<1>3. ASSUME NEW p \in Peers, SessionDisconnected(p) PROVE AddsNone
  BY <1>3 DEF SessionDisconnected, TypeInv, TypeOK
<1>4. ASSUME NEW p \in Peers, NEW k, NEW l, Deliver(p, k, l) PROVE AddsNone
  BY <1>4 DEF Deliver, TypeInv, TypeOK
<1>5. ASSUME UNCHANGED table PROVE AddsNone
  BY <1>5
<1>. HIDE DEF AddsNone
<1>6. CASE OwnerStep
  <2>1. ASSUME NEW p \in Peers, SendMessage(p) \/ DisconnectSession(p) \/ UseDangling(p)
        PROVE  AddsNone
    BY <1>2, <1>5, <2>1 DEF SendMessage, DisconnectSession, UseDangling, sessions
  <2>2. ASSUME NEW o \in Owners, StartTcpServer(o) PROVE AddsNone
    BY <1>2, <1>5, <2>2 DEF StartTcpServer, CleanupFrom, Refuse, sessions
  <2>3. ASSUME NEW p \in Peers, NEW o \in Owners, StartTcpClient(p, o) PROVE AddsNone
    BY <1>2, <1>5, <2>3 DEF StartTcpClient, CleanupFrom, Refuse, sessions
  <2>4. ASSUME NEW ip \in Ips, StopTcpClient(ip) PROVE AddsNone
    BY <1>5, <2>4 DEF StopTcpClient, Refuse, sessions
  <2>5. ASSUME Cleanup \/ StopTcpServer PROVE AddsNone
    BY <1>2, <1>5, <2>5 DEF Cleanup, StopTcpServer, CleanupFrom, Refuse, sessions
  <2>6. AddsNone
    BY <1>1, <1>6, <2>1, <2>2, <2>3, <2>4, <2>5 DEF OwnerStep
  <2>. QED  BY <2>6 DEF AddsNone
<1>7. CASE FirmwareStep
  <2>1. ASSUME NEW p \in Peers, SessionConnected(p)
        PROVE  AddsNone \/ \E q \in Peers : AddSession(q)
    BY <1>2, <1>5, <2>1 DEF SessionConnected, ConnectRefused, sessions
  <2>2. ASSUME NEW p \in Peers, DialFails(p) \/ LinkVanishes(p) PROVE AddsNone
    BY <1>5, <2>2 DEF DialFails, LinkVanishes, sessions
  <2>3. ASSUME NEW p \in Peers, LinkDisconnected(p) PROVE AddsNone
    BY <1>2, <1>3, <2>3 DEF LinkDisconnected
  <2>4. ASSUME NEW p \in Peers, LinkBroken(p) PROVE AddsNone
    BY <1>2, <1>4, <2>4 DEF LinkBroken
  <2>5. ASSUME NEW p \in Peers, NEW k \in {"recv", "sent"}, LinkEvent(p, k) PROVE AddsNone
    BY <1>2, <1>4, <2>5 DEF LinkEvent
  <2>6. AddsNone \/ \E q \in Peers : AddSession(q)
    BY <1>7, <2>1, <2>2, <2>3, <2>4, <2>5 DEF FirmwareStep
  <2>. QED  BY <2>6 DEF AddsNone
<1>8. CASE UNCHANGED vars
  BY <1>5, <1>8 DEF vars, sessions, AddsNone
<1>. QED  BY <1>6, <1>7, <1>8 DEF Next, AddsNone

LEMMA SessionBoundInit == Init => SessionBound
<1>. SUFFICES ASSUME Init PROVE SessionBound
  OBVIOUS
<1>1. SessionIds = {}
  BY DEF Init, SessionIds
<1>. QED  BY <1>1, FS_EmptySet, ConstantsOK DEF SessionBound

LEMMA SessionBoundNext ==
  ASSUME TypeInv, SessionBound, [Next]_vars PROVE SessionBound'
<1>1. IsFiniteSet(SessionIds) /\ Cardinality(SessionIds) \in Nat
  BY ConstantsOK, FS_Subset, FS_CardinalityType DEF SessionIds
<1>2. CASE SessionIds' \subseteq SessionIds
  <2>1. Cardinality(SessionIds') <= Cardinality(SessionIds) /\ Cardinality(SessionIds') \in Nat
    BY <1>1, <1>2, FS_Subset, FS_CardinalityType
  <2>. QED  BY <1>1, <2>1, ConstantsOK DEF SessionBound
<1>3. ASSUME NEW p \in Peers, AddSession(p) PROVE SessionBound'
  <2>. DEFINE id == IdOf[p]
  <2>0. id \in Ids
    BY ConstantsOK
  <2>1. CASE table[id] # NoSession
    <3>1. SessionIds' = SessionIds
      BY <1>3, <2>0, <2>1, AddSessionTable DEF SessionIds, TypeInv
    <3>. QED  BY <3>1 DEF SessionBound
  <2>2. CASE table[id] = NoSession
    <3>1. SessionIds' = SessionIds \cup {id} /\ id \notin SessionIds
      BY <1>3, <2>0, <2>2, AddSessionTable DEF SessionIds, TypeInv
    <3>2. Cardinality(SessionIds) < MaxTcpSessions
      BY <1>3, <2>2 DEF AddSession, HasRoom
    <3>3. Cardinality(SessionIds') = Cardinality(SessionIds) + 1
      BY <1>1, <3>1, FS_AddElement
    <3>. QED  BY <1>1, <3>2, <3>3, ConstantsOK DEF SessionBound
  <2>. QED  BY <2>1, <2>2
<1>. QED  BY <1>2, <1>3, TableStep DEF SessionIds

(* The session table never holds more than MAX_TCP_SESSIONS sessions,       *)
(* whatever the peers, the order of events and the outcomes of faults.      *)
THEOREM SessionBoundCorrect == Spec => []SessionBound
BY SessionBoundInit, SessionBoundNext, TypeInvAlways, PTL DEF Spec

------------------------------------------------------------------------------
(* Listeners: what is registered with the firmware for a link is in the     *)
(* session the owner points to.                                             *)

LEMMA ListenersInit == Init => ListenersMatch
BY DEF Init, ListenersMatch, Mapped

(* Steps that leave the table, the pointers and the callbacks alone.        *)
LEMMA ListenersSame ==
  ASSUME ListenersMatch, UNCHANGED <<table, handle>>,
         \A p \in Peers : reg'[p] \subseteq reg[p]
  PROVE  ListenersMatch'
BY DEF ListenersMatch, Mapped

LEMMA ListenersUnmapped ==
  ASSUME TypeOK, RemoveAllSessions \/ Reset PROVE ListenersMatch'
BY DEF RemoveAllSessions, Reset, ListenersMatch, Mapped, Unmapped, TypeOK

LEMMA ListenersRegister ==
  ASSUME TypeInv, ListenersMatch, NEW p \in Peers, NEW k \in Kinds, NEW o \in Owners,
         RegisterCb(p, k, o)
  PROVE  ListenersMatch'
<1>. DEFINE id == IdOf[p]
<1>0. /\ id \in Ids /\ table \in [Ids -> Session \cup {NoSession}]
      /\ reg \in [Peers -> SUBSET Kinds]
  BY ConstantsOK DEF TypeInv, TypeOK
<1>1. \A q \in Peers : Mapped(q)' => Mapped(q) /\ table'[IdOf[q]] # NoSession
  BY RegisterCbTable, ConstantsOK DEF RegisterCb, Mapped, ListenersMatch
<1>2. ASSUME Mapped(p), UNCHANGED link,
             reg' = [reg EXCEPT ![p] = IF link[p] = "closed" THEN @ ELSE @ \cup {k}],
             table' = [table EXCEPT ![id].listener[k] = o],
             NEW q \in Peers, Mapped(q), NEW m \in reg'[q]
      PROVE  table'[IdOf[q]].listener[m] # NoOwner
  <2>1. table[id] \in Session
    BY <1>0, <1>2 DEF TypeInv, TypeOK, HandlesInTable
  <2>2. /\ table' = [table EXCEPT ![id] = [table[id] EXCEPT !.listener[k] = o]]
        /\ [table[id] EXCEPT !.listener[k] = o].listener = [table[id].listener EXCEPT ![k] = o]
    BY <1>2, <2>1, SessionFacts
  <2>3. table'[id].listener = [table[id].listener EXCEPT ![k] = o]
    BY <1>0, <2>2
  <2>4. table[id].listener \in [Kinds -> Owners \cup {NoOwner}]
    BY <2>1 DEF Session, Callback
  <2>5. m \in reg[q] \/ (q = p /\ m = k)
    BY <1>0, <1>2
  <2>6. m \in Kinds
    BY <1>0, <2>5
  <2>7. CASE IdOf[q] # id
    <3>1. table'[IdOf[q]] = table[IdOf[q]]
      BY <1>0, <2>2, <2>7, ConstantsOK
    <3>2. m \in reg[q]
      BY <2>5, <2>7
    <3>. QED  BY <1>2, <3>1, <3>2 DEF ListenersMatch
  <2>8. CASE IdOf[q] = id
    <3>1. m \in reg[q] => table[id].listener[m] # NoOwner
      BY <1>2, <2>8 DEF ListenersMatch
    <3>. QED  BY <2>3, <2>4, <2>5, <2>6, <2>8, <3>1, ConstantsOK
  <2>. QED  BY <2>7, <2>8
<1>3. ASSUME Mapped(p), UNCHANGED reg, table' = [table EXCEPT ![id].valid = FALSE],
             NEW q \in Peers, Mapped(q), NEW m \in reg'[q]
      PROVE  table'[IdOf[q]].listener[m] # NoOwner
  <2>1. table[id] \in Session
    BY <1>0, <1>3 DEF TypeInv, TypeOK, HandlesInTable
  <2>2. [table[id] EXCEPT !.valid = FALSE].listener = table[id].listener
    BY <2>1 DEF Session
  <2>3. table'[IdOf[q]].listener = table[IdOf[q]].listener
    BY <1>0, <1>3, <2>2, ConstantsOK
  <2>. QED  BY <1>3, <2>3 DEF ListenersMatch
<1>4. ASSUME ~Mapped(p), NEW q \in Peers, Mapped(q), NEW m \in reg'[q]
      PROVE  table'[IdOf[q]].listener[m] # NoOwner
  <2>1. table' = table /\ q # p /\ reg'[q] = reg[q]
    BY <1>0, <1>4 DEF RegisterCb
  <2>. QED  BY <1>4, <2>1 DEF ListenersMatch
<1>5. \A q \in Peers : Mapped(q) => \A m \in reg'[q] : table'[IdOf[q]].listener[m] # NoOwner
  BY <1>2, <1>3, <1>4 DEF RegisterCb
<1>. QED  BY <1>1, <1>5 DEF ListenersMatch

LEMMA ListenersConnected ==
  ASSUME TypeInv, ListenersMatch, NEW p \in Peers, SessionConnected(p)
  PROVE  ListenersMatch'
<1>1. CASE ConnectRefused(p)
  BY <1>1, ListenersSame DEF ConnectRefused, sessions
<1>2. CASE Reset
  BY <1>2, ListenersUnmapped DEF TypeInv
<1>3. ASSUME AddSession(p), TellServerOwner(p) \/ TellClientOwner(p),
             reg' = [reg EXCEPT ![p] = {}]
      PROVE  ListenersMatch'
  <2>1. reg'[p] = {} /\ \A q \in Peers \ {p} : reg'[q] = reg[q]
    BY <1>3 DEF TypeInv, TypeOK
  <2>2. \A q \in Peers : Mapped(q)' => q = p \/ Mapped(q)
    BY <1>3 DEF TellServerOwner, TellClientOwner, Mapped, TypeInv, TypeOK
  <2>3. table'[IdOf[p]] # NoSession
    BY <1>3, AddSessionTable DEF TypeInv
  <2>4. \A q \in Peers : Mapped(q) => table'[IdOf[q]] = table[IdOf[q]]
    BY <1>3, AddSessionTable, ConstantsOK DEF TypeInv, HandlesInTable
  <2>. QED  BY <2>1, <2>2, <2>3, <2>4 DEF ListenersMatch
<1>. QED  BY <1>1, <1>2, <1>3 DEF SessionConnected

LEMMA ListenersDeliver ==
  ASSUME TypeInv, ListenersMatch, NEW p \in Peers, NEW k, NEW l, Deliver(p, k, l),
         \A q \in Peers : reg'[q] \subseteq reg[q]
  PROVE  ListenersMatch'
<1>. DEFINE id == IdOf[p]
<1>1. id \in Ids /\ table[id] \in Session
  BY ConstantsOK DEF Deliver, TypeInv, TypeOK
<1>2. /\ [table[id] EXCEPT !.freed = TRUE] \in Session
      /\ [table[id] EXCEPT !.freed = TRUE].listener = table[id].listener
  BY <1>1, SessionFacts DEF Session
<1>3. table' = [table EXCEPT ![id] = [table[id] EXCEPT !.freed = TRUE]] /\ handle' = handle
  BY DEF Deliver
<1>4. \A i \in Ids : /\ table'[i].listener = table[i].listener
                     /\ table[i] # NoSession => table'[i] # NoSession
  BY <1>1, <1>2, <1>3, ConstantsOK DEF TypeInv, TypeOK
<1>. QED  BY <1>3, <1>4, ConstantsOK DEF ListenersMatch, Mapped

LEMMA ListenersDisconnected ==
  ASSUME TypeInv, ListenersMatch, NEW p \in Peers, SessionDisconnected(p), LinkEnds(p)
  PROVE  ListenersMatch'
<1>1. \A q \in Peers : Mapped(q)' => Mapped(q) /\ IdOf[q] # IdOf[p]
  BY DEF SessionDisconnected, Mapped
<1>2. \A q \in Peers : IdOf[q] # IdOf[p] => table'[IdOf[q]] = table[IdOf[q]] /\ reg'[q] = reg[q]
  BY ConstantsOK DEF SessionDisconnected, LinkEnds, TypeInv, TypeOK
<1>. QED  BY <1>1, <1>2 DEF ListenersMatch

LEMMA ListenersNext ==
  ASSUME TypeInv, ListenersMatch, [Next]_vars PROVE ListenersMatch'
<1>0. \A p \in Peers : LinkEnds(p) => \A q \in Peers : reg'[q] \subseteq reg[q]
  BY DEF LinkEnds, TypeInv, TypeOK
<1>1. CASE OwnerStep
  BY <1>1, ListenersSame, ListenersUnmapped, ListenersRegister
     DEF OwnerStep, Cleanup, CleanupFrom, StopTcpServer, Refuse, StartTcpServer, StartTcpClient,
         StopTcpClient, SendMessage, DisconnectSession, UseDangling, sessions, firmware, TypeInv
<1>2. CASE FirmwareStep
  <2>1. ASSUME NEW p \in Peers, DialFails(p) \/ LinkVanishes(p) PROVE ListenersMatch'
    BY <1>0, <2>1, ListenersSame DEF DialFails, LinkVanishes, sessions
  <2>2. ASSUME NEW p \in Peers, LinkDisconnected(p) PROVE ListenersMatch'
    BY <2>2, ListenersDisconnected, ListenersUnmapped DEF LinkDisconnected, TypeInv
  <2>3. ASSUME NEW p \in Peers, LinkBroken(p) PROVE ListenersMatch'
    BY <1>0, <2>3, ListenersDeliver, ListenersUnmapped DEF LinkBroken, TypeInv
  <2>4. ASSUME NEW p \in Peers, NEW k \in {"recv", "sent"}, LinkEvent(p, k)
        PROVE  ListenersMatch'
    BY <2>4, ListenersDeliver, ListenersUnmapped DEF LinkEvent, TypeInv, firmware
  <2>. QED  BY <1>2, <2>1, <2>2, <2>3, <2>4, ListenersConnected DEF FirmwareStep
<1>3. CASE UNCHANGED vars
  BY <1>3, ListenersSame DEF vars, sessions, firmware
<1>. QED  BY <1>1, <1>2, <1>3 DEF Next

(* Whichever session object the owner's pointer designates, it has a        *)
(* listener for every callback that was registered with the firmware.       *)
THEOREM ListenersCorrect == Spec => []ListenersMatch
BY ListenersInit, ListenersNext, TypeInvAlways, PTL DEF Spec

------------------------------------------------------------------------------
(* The configuration.                                                       *)

LEMMA OwnerInit == Init => OwnerIsSet
BY DEF Init, OwnerIsSet

LEMMA OwnerSame ==
  ASSUME OwnerIsSet, UNCHANGED <<mode, serverOwner>>,
         (listening' \/ dialing' # {}) => (listening \/ dialing # {})
  PROVE  OwnerIsSet'
BY DEF OwnerIsSet

LEMMA OwnerNext == ASSUME TypeInv, OwnerIsSet, [Next]_vars PROVE OwnerIsSet'
<1>1. ASSUME Reset PROVE OwnerIsSet'
  BY <1>1 DEF Reset, OwnerIsSet
<1>2. CASE OwnerStep
  <2>1. ASSUME NEW o \in Owners, StartTcpServer(o) PROVE OwnerIsSet'
    BY <1>1, <2>1, OwnerSame, ConstantsOK
       DEF StartTcpServer, Refuse, CleanupFrom, OwnerIsSet, config, firmware
  <2>2. ASSUME NEW p \in Peers, NEW o \in Owners, StartTcpClient(p, o) PROVE OwnerIsSet'
    BY <1>1, <2>2, OwnerSame
       DEF StartTcpClient, Refuse, CleanupFrom, OwnerIsSet, config, firmware
  <2>3. ASSUME Cleanup PROVE OwnerIsSet'
    BY <1>1, <2>3, OwnerSame DEF Cleanup, CleanupFrom, firmware
  <2>4. ASSUME NEW ip \in Ips, StopTcpClient(ip) PROVE OwnerIsSet'
    BY <2>4, OwnerSame DEF StopTcpClient, Refuse, config, firmware
  <2>5. ASSUME NEW p \in Peers, NEW k \in Kinds, NEW o \in Owners, RegisterCb(p, k, o)
        PROVE  OwnerIsSet'
    BY <2>5, OwnerSame DEF RegisterCb, config
  <2>6. ASSUME NEW p \in Peers, SendMessage(p) \/ DisconnectSession(p) \/ UseDangling(p)
        PROVE  OwnerIsSet'
    BY <1>1, <2>6, OwnerSame DEF SendMessage, DisconnectSession, UseDangling, config
  <2>7. ASSUME StopTcpServer PROVE OwnerIsSet'
    BY <2>7, OwnerSame DEF StopTcpServer, Refuse, config, firmware
  <2>. QED  BY <1>2, <2>1, <2>2, <2>3, <2>4, <2>5, <2>6, <2>7 DEF OwnerStep
<1>3. CASE FirmwareStep
  <2>1. ASSUME NEW p \in Peers,
               SessionConnected(p) \/ DialFails(p) \/ LinkVanishes(p) \/ LinkDisconnected(p)
                 \/ LinkBroken(p) \/ \E k \in {"recv", "sent"} : LinkEvent(p, k),
               ~Reset
        PROVE  UNCHANGED <<mode, serverOwner, listening>> /\ dialing' \subseteq dialing
    BY <2>1 DEF SessionConnected, ConnectRefused, DialFails, LinkVanishes, LinkDisconnected,
                LinkBroken, LinkEvent, LinkEnds, config, firmware
  <2>. QED  BY <1>1, <1>3, <2>1, OwnerSame DEF FirmwareStep
<1>4. CASE UNCHANGED vars
  BY <1>4, OwnerSame DEF vars, config, firmware
<1>. QED  BY <1>2, <1>3, <1>4 DEF Next

(* The connect callback never meets a server configuration without owner.   *)
THEOREM OwnerIsSetCorrect == Spec => []OwnerIsSet
BY OwnerInit, OwnerNext, TypeInvAlways, PTL DEF Spec

LEMMA ModeNext ==
  ASSUME TypeInv, [Next]_vars PROVE [started /\ started' => mode' = mode]_vars
<1>. DEFINE Goal == started /\ started' => mode' = mode
<1>1. ASSUME UNCHANGED mode \/ started' = FALSE PROVE Goal
  BY <1>1
<1>. HIDE DEF Goal
<1>2. CASE OwnerStep
  <2>1. ASSUME NEW o \in Owners, StartTcpServer(o) PROVE Goal
    BY <1>1, <2>1 DEF StartTcpServer, Refuse, CleanupFrom, Reset, config, Goal
  <2>2. ASSUME NEW p \in Peers, NEW o \in Owners, StartTcpClient(p, o) PROVE Goal
    BY <1>1, <2>2 DEF StartTcpClient, MayStartClient, Refuse, CleanupFrom, Reset, config, Goal
  <2>3. ASSUME Cleanup PROVE Goal
    BY <1>1, <2>3 DEF Cleanup, CleanupFrom, Reset
  <2>4. ASSUME NEW ip \in Ips, StopTcpClient(ip) PROVE Goal
    BY <1>1, <2>4 DEF StopTcpClient, Refuse, config
  <2>5. ASSUME NEW p \in Peers, NEW k \in Kinds, NEW o \in Owners, RegisterCb(p, k, o)
        PROVE  Goal
    BY <1>1, <2>5 DEF RegisterCb, config
  <2>6. ASSUME NEW p \in Peers, SendMessage(p) \/ DisconnectSession(p) \/ UseDangling(p)
        PROVE  Goal
    BY <1>1, <2>6 DEF SendMessage, DisconnectSession, UseDangling, Reset, config
  <2>7. ASSUME StopTcpServer PROVE Goal
    BY <1>1, <2>7 DEF StopTcpServer, Refuse, config
  <2>. QED  BY <1>2, <2>1, <2>2, <2>3, <2>4, <2>5, <2>6, <2>7 DEF OwnerStep, Goal
<1>3. CASE FirmwareStep
  <2>1. ASSUME NEW p \in Peers,
               SessionConnected(p) \/ DialFails(p) \/ LinkVanishes(p) \/ LinkDisconnected(p)
                 \/ LinkBroken(p) \/ \E k \in {"recv", "sent"} : LinkEvent(p, k)
        PROVE  Goal
    BY <1>1, <2>1
       DEF SessionConnected, ConnectRefused, DialFails, LinkVanishes, LinkDisconnected,
           LinkBroken, LinkEvent, LinkEnds, Reset, config
  <2>. QED  BY <1>3, <2>1 DEF FirmwareStep, Goal
<1>. QED  BY <1>2, <1>3 DEF Next, Goal

(* A started TcpServer never changes between serving and being a client.    *)
THEOREM ModeStableCorrect == Spec => ModeStable
BY ModeNext, TypeInvAlways, PTL DEF Spec, ModeStable

------------------------------------------------------------------------------
(* The link of a peer and its session.                                      *)

AllGone == table' = [i \in Ids |-> NoSession]

LEMMA KeepsSessions ==
  ASSUME TypeInv, NEW p \in Peers,
         \/ \E k \in Kinds, o \in Owners : RegisterCb(p, k, o)
         \/ AddSession(p)
         \/ \E k \in Kinds, l \in AllKinds : Deliver(p, k, l)
         \/ UNCHANGED table
  PROVE  \A i \in Ids : table[i] # NoSession => table'[i] # NoSession
<1>1. ASSUME NEW k \in Kinds, NEW o \in Owners, RegisterCb(p, k, o)
      PROVE  \A i \in Ids : table[i] # NoSession => table'[i] # NoSession
  BY <1>1, RegisterCbTable
<1>2. ASSUME NEW k \in Kinds, NEW l \in AllKinds, Deliver(p, k, l)
      PROVE  \A i \in Ids : table[i] # NoSession => table'[i] # NoSession
  BY <1>2, DeliverTable DEF TypeInv
<1>3. ASSUME AddSession(p)
      PROVE  \A i \in Ids : table[i] # NoSession => table'[i] # NoSession
  <2>1. \A i \in Ids : table[i] # NoSession => table'[i] = table[i]
    BY <1>3, AddSessionTable DEF TypeInv
  <2>. QED  BY <2>1
<1>. QED  BY <1>1, <1>2, <1>3

(* Every step keeps all sessions, drops them all, or is the end of one.     *)
LEMMA TableOutcomes ==
  ASSUME TypeInv, Next
  PROVE  \/ \A i \in Ids : table[i] # NoSession => table'[i] # NoSession
         \/ AllGone
         \/ \E p \in Peers : SessionDisconnected(p) /\ LinkEnds(p)
<1>. DEFINE Keeps == \A i \in Ids : table[i] # NoSession => table'[i] # NoSession
<1>0. AllKinds = {"disconnect", "reconnect", "recv", "sent"} /\ Kinds \subseteq AllKinds
  BY ConstantsOK DEF AllKinds
<1>1. ASSUME NEW p \in Peers, NEW k \in Kinds, NEW o \in Owners, RegisterCb(p, k, o) PROVE Keeps
  BY <1>1, KeepsSessions
<1>2. ASSUME NEW p \in Peers, AddSession(p) PROVE Keeps
  BY <1>2, KeepsSessions
<1>3. ASSUME NEW p \in Peers, NEW k \in Kinds, NEW l \in AllKinds, Deliver(p, k, l) PROVE Keeps
  BY <1>3, KeepsSessions
<1>4. ASSUME UNCHANGED table PROVE Keeps
  BY <1>4
<1>5. ASSUME Reset \/ RemoveAllSessions PROVE AllGone
  BY <1>5 DEF Reset, RemoveAllSessions, AllGone
<1>. HIDE DEF Keeps
<1>6. CASE OwnerStep
  <2>1. ASSUME NEW p \in Peers, SendMessage(p) \/ DisconnectSession(p) \/ UseDangling(p)
        PROVE  Keeps \/ AllGone
    BY <1>4, <1>5, <2>1 DEF SendMessage, DisconnectSession, UseDangling, sessions
  <2>2. ASSUME NEW o \in Owners, StartTcpServer(o) PROVE Keeps \/ AllGone
    BY <1>4, <1>5, <2>2 DEF StartTcpServer, CleanupFrom, Refuse, sessions
  <2>3. ASSUME NEW p \in Peers, NEW o \in Owners, StartTcpClient(p, o) PROVE Keeps \/ AllGone
    BY <1>4, <1>5, <2>3 DEF StartTcpClient, CleanupFrom, Refuse, sessions
  <2>4. ASSUME NEW ip \in Ips, StopTcpClient(ip) PROVE Keeps
    BY <1>4, <2>4 DEF StopTcpClient, Refuse, sessions
  <2>5. ASSUME Cleanup \/ StopTcpServer PROVE Keeps \/ AllGone
    BY <1>4, <1>5, <2>5 DEF Cleanup, StopTcpServer, CleanupFrom, Refuse, sessions
  <2>6. Keeps \/ AllGone
    BY <1>1, <1>6, <2>1, <2>2, <2>3, <2>4, <2>5 DEF OwnerStep
  <2>. QED  BY <2>6 DEF Keeps
<1>7. CASE FirmwareStep
  <2>1. ASSUME NEW p \in Peers, SessionConnected(p) PROVE Keeps \/ AllGone
    BY <1>2, <1>4, <1>5, <2>1 DEF SessionConnected, ConnectRefused, sessions
  <2>2. ASSUME NEW p \in Peers, DialFails(p) \/ LinkVanishes(p) PROVE Keeps
    BY <1>4, <2>2 DEF DialFails, LinkVanishes, sessions
  <2>3. ASSUME NEW p \in Peers, LinkBroken(p) PROVE Keeps \/ AllGone
    <3>1. "reconnect" \in Kinds
      BY <2>3 DEF LinkBroken, TypeInv, TypeOK
    <3>. QED  BY <1>0, <1>3, <1>5, <2>3, <3>1 DEF LinkBroken
  <2>4. ASSUME NEW p \in Peers, NEW k \in {"recv", "sent"}, LinkEvent(p, k)
        PROVE  Keeps \/ AllGone
    <3>1. k \in Kinds /\ k \in AllKinds
      BY <1>0, <2>4 DEF LinkEvent, TypeInv, TypeOK
    <3>. QED  BY <1>3, <1>5, <2>4, <3>1 DEF LinkEvent
  <2>5. ASSUME NEW p \in Peers, LinkDisconnected(p)
        PROVE  AllGone \/ \E q \in Peers : SessionDisconnected(q) /\ LinkEnds(q)
    BY <1>5, <2>5 DEF LinkDisconnected
  <2>6. Keeps \/ AllGone \/ \E q \in Peers : SessionDisconnected(q) /\ LinkEnds(q)
    BY <1>7, <2>1, <2>2, <2>3, <2>4, <2>5 DEF FirmwareStep
  <2>. QED  BY <2>6 DEF Keeps
<1>. QED  BY <1>6, <1>7 DEF Next

LEMMA SessionLeavesNext ==
  ASSUME TypeInv, [Next]_vars, NEW i \in Ids, table[i] # NoSession, table'[i] = NoSession
  PROVE  \/ \E p \in Peers : IdOf[p] = i /\ call' # NoCall
                            /\ call'.event = "disconnect" /\ call'.peer = p
         \/ AllGone
<1>1. ASSUME NEW p \in Peers, SessionDisconnected(p)
      PROVE  /\ IdOf[p] = i
             /\ call' # NoCall /\ call'.event = "disconnect" /\ call'.peer = p
  BY <1>1 DEF SessionDisconnected, Event, NoCall, TypeInv, TypeOK
<1>2. Next
  BY DEF vars, sessions
<1>. QED  BY <1>1, <1>2, TableOutcomes

(* A session leaves the table only with the disconnect event of its peer,   *)
(* or together with all the others.                                         *)
THEOREM SessionLeavesCorrect == Spec => SessionLeaves
<1>1. ASSUME TypeInv, [Next]_vars
      PROVE  [\A i \in Ids : table[i] # NoSession /\ table'[i] = NoSession =>
                \/ \E p \in Peers : IdOf[p] = i /\ call' # NoCall
                                   /\ call'.event = "disconnect" /\ call'.peer = p
                \/ table' = [j \in Ids |-> NoSession]]_vars
  BY <1>1, SessionLeavesNext DEF AllGone
<1>. QED  BY <1>1, TypeInvAlways, PTL DEF Spec, SessionLeaves

(* Only the event of a new link opens one.                                  *)
LEMMA LinkOpens ==
  ASSUME TypeInv, [Next]_vars, NEW p \in Peers, link'[p] = "open", link[p] # "open"
  PROVE  AddSession(p)
<1>. DEFINE Quiet == link'[p] = link[p] \/ link'[p] # "open"
<1>1. ASSUME UNCHANGED link \/ Reset PROVE Quiet
  BY <1>1 DEF Reset
<1>2. ASSUME NEW q \in Peers, Abort(q) PROVE Quiet
  BY <1>2 DEF Abort, TypeInv, TypeOK
<1>3. ASSUME NEW q \in Peers, LinkEnds(q) PROVE Quiet
  BY <1>3 DEF LinkEnds, TypeInv, TypeOK
<1>4. ASSUME NEW q \in Peers, DisconnectSession(q) PROVE Quiet
  BY <1>4 DEF DisconnectSession, Abort, TypeInv, TypeOK
<1>5. ASSUME NEW q \in Peers, SessionConnected(q) PROVE Quiet \/ (q = p /\ AddSession(p))
  <2>1. CASE ConnectRefused(q) \/ Reset
    BY <1>1, <2>1 DEF ConnectRefused
  <2>2. ASSUME AddSession(q), link' = [link EXCEPT ![q] = "open"]
        PROVE  Quiet \/ (q = p /\ AddSession(p))
    BY <2>2 DEF TypeInv, TypeOK
  <2>. QED  BY <1>5, <2>1, <2>2 DEF SessionConnected
<1>6. ~Quiet
  OBVIOUS
<1>. HIDE DEF Quiet
<1>7. CASE OwnerStep
  <2>1. ASSUME NEW q \in Peers, SendMessage(q) \/ UseDangling(q) PROVE Quiet
    BY <1>1, <1>2, <2>1 DEF SendMessage, UseDangling
  <2>2. ASSUME NEW o \in Owners, StartTcpServer(o) PROVE Quiet
    BY <1>1, <2>2 DEF StartTcpServer, Refuse, firmware
  <2>3. ASSUME NEW q \in Peers, NEW o \in Owners, StartTcpClient(q, o) PROVE Quiet
    BY <1>1, <2>3 DEF StartTcpClient, Refuse, firmware
  <2>4. ASSUME NEW ip \in Ips, StopTcpClient(ip) PROVE Quiet
    BY <1>1, <2>4 DEF StopTcpClient, Refuse, firmware
  <2>5. ASSUME Cleanup \/ StopTcpServer PROVE Quiet
    BY <1>1, <2>5 DEF Cleanup, StopTcpServer, Refuse, firmware
  <2>6. ASSUME NEW q \in Peers, NEW k \in Kinds, NEW o \in Owners, RegisterCb(q, k, o)
        PROVE  Quiet
    BY <1>1, <1>2, <2>6 DEF RegisterCb
  <2>. QED  BY <1>4, <1>6, <1>7, <2>1, <2>2, <2>3, <2>4, <2>5, <2>6 DEF OwnerStep
<1>8. CASE FirmwareStep
  <2>1. ASSUME NEW q \in Peers,
               DialFails(q) \/ LinkVanishes(q) \/ LinkDisconnected(q) \/ LinkBroken(q)
                 \/ \E k \in {"recv", "sent"} : LinkEvent(q, k)
        PROVE  Quiet
    BY <1>1, <1>3, <2>1
       DEF DialFails, LinkVanishes, LinkDisconnected, LinkBroken, LinkEvent, firmware
  <2>. QED  BY <1>5, <1>6, <1>8, <2>1 DEF FirmwareStep
<1>9. ~ UNCHANGED vars
  BY DEF vars, firmware
<1>. QED  BY <1>7, <1>8, <1>9 DEF Next

LEMMA UnattendedNext ==
  ASSUME \A p, q \in Peers : IdOf[p] = IdOf[q] => p = q,
         TypeInv, [Next]_vars, NEW p \in Peers, link'[p] = "open", table'[IdOf[p]] = NoSession
  PROVE  link[p] = "open" /\ (table[IdOf[p]] = NoSession \/ AllGone)
<1>0. IdOf[p] \in Ids
  BY ConstantsOK
<1>1. link[p] = "open"
  BY LinkOpens, AddSessionTable DEF TypeInv
<1>2. ASSUME NEW q \in Peers, SessionDisconnected(q), LinkEnds(q) PROVE table[IdOf[p]] = NoSession
  <2>1. q # p
    BY <1>2 DEF LinkEnds, TypeInv, TypeOK
  <2>. QED  BY <1>0, <1>2, <2>1 DEF SessionDisconnected, TypeInv, TypeOK
<1>3. CASE UNCHANGED vars
  BY <1>1, <1>3 DEF vars, sessions
<1>. QED  BY <1>0, <1>1, <1>2, <1>3, TableOutcomes

(* As long as no two peers hash to the same session id, refusing, ending or *)
(* replacing one session never leaves another link without its session:     *)
(* only emptying the whole table does.                                      *)
THEOREM NoUnattendedLinkCorrect ==
  ASSUME \A p, q \in Peers : IdOf[p] = IdOf[q] => p = q
  PROVE  Spec => NoUnattendedLink
<1>1. ASSUME TypeInv, [Next]_vars
      PROVE  [\A p \in Peers : link'[p] = "open" /\ table'[IdOf[p]] = NoSession =>
                /\ link[p] = "open"
                /\ table[IdOf[p]] = NoSession \/ table' = [j \in Ids |-> NoSession]]_vars
  BY <1>1, UnattendedNext DEF AllGone
<1>. QED  BY <1>1, TypeInvAlways, PTL DEF Spec, NoUnattendedLink
==============================================================================
