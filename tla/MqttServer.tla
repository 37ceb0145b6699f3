------------------------------ MODULE MqttServer ------------------------------
(***************************************************************************)
(* MqttServer objects over the TcpServer singleton and its TcpSessions, in *)
(* the MQTT server program (esp01-projects/mqtt server): an older TcpServer *)
(* than that of TcpServer.tla.                                             *)
(*                                                                         *)
(* A session is made for each new peer and stays in the table for ever:    *)
(* nothing calls removeSession.  The callback that an MqttServer hands to  *)
(* the singleton is stored and never called, so that no MQTT session comes *)
(* about and no listener is registered: a callback of the firmware ends in *)
(* the null callback of the session it finds.                              *)
(*                                                                         *)
(* The firmware is external.  The constructor of a session registers the   *)
(* three callbacks, on a copy of the connection, before the table is asked *)
(* for a place: the link of a session that is refused has them as well.    *)
(* Of such a registration the firmware may heed some, or none.             *)
(***************************************************************************)
EXTENDS Naturals, FiniteSets

CONSTANTS Peers, SessionIds, IdOf, \* endpoints, and the hash of "address:port"
          Servers, NoServer,       \* the MqttServer objects
          MaxTcpSessions           \* MAX_TCP_SESSIONS

ASSUME MqttServerConstantsOK ==
  /\ IdOf \in [Peers -> SessionIds] /\ NoServer \notin Servers
  /\ MaxTcpSessions \in Nat

VARIABLES ownerObj_,        \* who last started the singleton
          tcpSessions_,     \* the ids in the table
          listening, dialing, link,  \* the firmware
          nullSession       \* the kinds of link of which a callback was called
                            \* through a null session

serverVars == <<ownerObj_, tcpSessions_, listening, dialing, link, nullSession>>

MqttServerInit ==
  /\ ownerObj_ = NoServer /\ tcpSessions_ = {}
  /\ listening = FALSE /\ dialing = {} /\ link = [p \in Peers |-> "closed"]
  /\ nullSession = {}

(* startTcpServer: the singleton changes hands whatever the firmware says. *)
ServesAsServer(s) ==
  /\ ownerObj_' = s
  /\ listening' \in {TRUE, listening}
  /\ UNCHANGED <<tcpSessions_, dialing, link, nullSession>>

(* startTcpClient                                                          *)
ServesAsClient(s, p) ==
  /\ ownerObj_' = s
  /\ dialing' \in {dialing \cup {p}, dialing}
  /\ UNCHANGED <<tcpSessions_, listening, link, nullSession>>

------------------------------------------------------------------------------
(* addSession: an id that is in the table keeps its old session.           *)
HasPlace(p) ==
  IdOf[p] \in tcpSessions_ \/ Cardinality(tcpSessions_) < MaxTcpSessions

(* Mutant of Refused: the link is not aborted.                             *)
RefusedButOpen(p) ==
  /\ ~HasPlace(p)
  /\ link' = [link EXCEPT ![p] = "open"]
  /\ UNCHANGED tcpSessions_

(* sessionConnected: a session in the table, or an aborted link.           *)
Refused(p) ==
  /\ ~HasPlace(p)
  /\ link' = [link EXCEPT ![p] = "aborted"]
  /\ UNCHANGED tcpSessions_

Accepted(p) ==
  /\ HasPlace(p)
  /\ tcpSessions_' = tcpSessions_ \cup {IdOf[p]}
  /\ link' = [link EXCEPT ![p] = "open"]

SessionConnected(p) ==
  /\ link[p] = "closed"
  /\ listening \/ p \in dialing
  /\ Accepted(p) \/ Refused(p)
  /\ dialing' = dialing \ {p}
  /\ UNCHANGED <<ownerObj_, listening, nullSession>>

(* The dial fails: no reconnect callback is registered (a TODO).           *)
DialEnds(p) ==
  /\ p \in dialing
  /\ dialing' = dialing \ {p}
  /\ UNCHANGED <<ownerObj_, tcpSessions_, listening, link, nullSession>>

(* getSession, and a call through what it returns.                         *)
FindsSession(p) ==
  nullSession' = IF IdOf[p] \in tcpSessions_ THEN nullSession ELSE nullSession \cup {link[p]}

(* localIncomingMessageCb, localMessageSentCb                              *)
LinkCallback(p) ==
  /\ link[p] # "closed"
  /\ FindsSession(p)
  /\ UNCHANGED <<ownerObj_, tcpSessions_, listening, dialing, link>>

(* localSessionDisconnectCb: the session stays in the table.               *)
LinkEnds(p) ==
  /\ link[p] # "closed"
  /\ link' = [link EXCEPT ![p] = "closed"]
  /\ FindsSession(p) \/ UNCHANGED nullSession
  /\ UNCHANGED <<ownerObj_, tcpSessions_, listening, dialing>>

MqttServerNext ==
  \/ \E s \in Servers : ServesAsServer(s) \/ \E p \in Peers : ServesAsClient(s, p)
  \/ \E p \in Peers :
       SessionConnected(p) \/ DialEnds(p) \/ LinkCallback(p) \/ LinkEnds(p)

------------------------------------------------------------------------------
(* However peers connect, are refused by a table that never empties, and   *)
(* come back, a callback of a link that was given a place finds its        *)
(* session: getSession's nullptr, which the callbacks in tcp_session.cpp   *)
(* do not look at, is never called through.  This says nothing of a link   *)
(* that was refused: its callbacks were registered before it was aborted,  *)
(* and if the firmware still calls one, it goes through a null pointer.    *)
CallbacksFindSessions == "open" \notin nullSession
==============================================================================
