------------------------------ MODULE MqttClient ------------------------------
(* The MQTT client of mqtt broker/lib/rMQTTBroker/src/mqtt.c: its           *)
(* connection state, its task, its timer, and the callbacks of the firmware *)
(* (DNS, TCP), which all run to completion on one thread.                   *)
(*                                                                          *)
(* The task has a queue of one event: a post while one is pending is lost,  *)
(* and changes nothing since there is one client.  The timer fires once a   *)
(* second, and a task that is posted runs before it fires twice.  The       *)
(* owner's callbacks may call the client again; they come last in their     *)
(* handlers but for a post, so such a call is a step of its own.  The owner *)
(* makes no call after MQTT_DeleteClient.  No TLS; os_zalloc does not fail. *)
(*                                                                          *)
(* The connection, its messages that are not sent yet and the DNS requests  *)
(* are the firmware's.  An answer for a request whose espconn has been      *)
(* freed since is undefined behaviour: either the old memory still leads to *)
(* the client, or the processor faults and resets itself.                   *)
EXTENDS Integers, Sequences

CONSTANTS
  Types,                \* types of the messages that are queued
  MaxQueue,             \* bound: messages the queue has room for
  MaxUnsent,            \* bound: messages the firmware accepts unsent
  DnsTable,             \* bound: DNS requests the firmware takes
  MQTT_SEND_TIMOUT, MQTT_RECONNECT_TIMEOUT,
  HalfKeepalive         \* connect_info->keepalive / 2

ASSUME ClientConstantsOK ==
  /\ Types \subseteq {"publish", "other"}
  /\ MaxQueue \in Nat \ {0} /\ MaxUnsent \in Nat \ {0} /\ DnsTable \in Nat
  /\ MQTT_SEND_TIMOUT \in Nat \ {0} /\ MQTT_RECONNECT_TIMEOUT \in Nat
  /\ HalfKeepalive \in Nat \ {0}

VARIABLES
  connState, pCon,      \* pCon: whether an espconn is allocated
  msgQueue, pending,    \* pending_msg_type
  sendTimeout, keepAliveTick, reconnectTick,
  ip,                   \* client->ip is not 0
  hostIsIp,             \* the host is an address, not a name
  timer,                \* mqttTimer is armed
  posted, late,         \* an event is posted; the timer has fired since
  conn, unsent,         \* the connection of pCon
  dns, staleDns,        \* DNS requests of pCon, and of espconns freed since
  wanted,               \* the owner's last MQTT_Connect, Disconnect or Delete
  triedPublish,         \* a PUBLISH was sent, or failed to be, over the present
                        \* connection
  told                  \* the owner callback of this step (the two of interest)

clientVars == <<connState, pCon, msgQueue, pending>>
counters   == <<sendTimeout, keepAliveTick, reconnectTick>>
address    == <<ip, hostIsIp>>
scheduling == <<timer, posted, late>>
connection == <<conn, unsent, triedPublish>>
requests   == <<dns, staleDns>>
vars == <<clientVars, counters, address, scheduling, connection, requests, wanted, told>>

ConnStates ==
  {"WIFI_INIT", "TCP_CONNECTING", "MQTT_CONNECT_SENDING", "MQTT_DATA",
   "MQTT_KEEPALIVE_SEND", "TCP_RECONNECT_DISCONNECTING", "TCP_RECONNECT_REQ",
   "TCP_RECONNECT", "TCP_DISCONNECTING", "TCP_DISCONNECTED", "MQTT_DELETED"}

TypeOK ==
  /\ connState \in ConnStates /\ pCon \in BOOLEAN
  /\ msgQueue \in Seq(Types) /\ Len(msgQueue) <= MaxQueue
  /\ pending \in {"none", "connect", "publish", "other"}
  /\ sendTimeout \in 0 .. MQTT_SEND_TIMOUT
  /\ keepAliveTick \in Nat
  /\ reconnectTick \in 0 .. MQTT_RECONNECT_TIMEOUT
  /\ ip \in BOOLEAN /\ hostIsIp \in BOOLEAN
  /\ timer \in BOOLEAN /\ posted \in BOOLEAN /\ late \in BOOLEAN
  /\ conn \in {"none", "dialing", "open", "closing"} /\ unsent \in 0 .. MaxUnsent
  /\ dns \in 0..1 /\ staleDns \in Nat /\ dns + staleDns <= DnsTable
  /\ wanted \in {"nothing", "connect", "disconnect", "delete"}
  /\ triedPublish \in BOOLEAN
  /\ told \in {"nothing", "published", "disconnected"}

(* After MQTT_InitConnection and MQTT_InitClient.                           *)
Init ==
  /\ connState = "WIFI_INIT" /\ pCon = FALSE
  /\ msgQueue = <<>> /\ pending = "none"
  /\ sendTimeout = 0 /\ keepAliveTick = 0 /\ reconnectTick = 0
  /\ ip = FALSE /\ hostIsIp \in BOOLEAN
  /\ timer = FALSE /\ posted = TRUE /\ late = FALSE
  /\ conn = "none" /\ unsent = 0 /\ triedPublish = FALSE
  /\ dns = 0 /\ staleDns = 0
  /\ wanted = "nothing" /\ told = "nothing"

(* The processor resets itself and the owner starts anew.                   *)
Reset ==
  /\ connState' = "WIFI_INIT" /\ pCon' = FALSE
  /\ msgQueue' = <<>> /\ pending' = "none"
  /\ sendTimeout' = 0 /\ keepAliveTick' = 0 /\ reconnectTick' = 0
  /\ ip' = FALSE /\ UNCHANGED hostIsIp
  /\ timer' = FALSE /\ posted' = TRUE /\ late' = FALSE
  /\ conn' = "none" /\ unsent' = 0 /\ triedPublish' = FALSE
  /\ dns' = 0 /\ staleDns' = 0
  /\ wanted' = "nothing" /\ told' = "nothing"

------------------------------------------------------------------------------
(* system_os_post                                                           *)
Post == posted' = TRUE /\ UNCHANGED <<timer, late>>

Up == conn \in {"open", "closing"}

(* espconn_send of a message, its first outcome an error.                   *)
SendFails == UNCHANGED unsent
SendTaken == unsent < MaxUnsent /\ unsent' = unsent + 1

(* espconn_disconnect: only an open connection is found.                    *)
Close == conn' = IF conn = "open" THEN "closing" ELSE conn

(* mqtt_tcpclient_delete: the connection is aborted without a callback.     *)
FreeCon ==
  /\ pCon' = FALSE /\ conn' = "none" /\ unsent' = 0
  /\ dns' = 0 /\ staleDns' = staleDns + dns

(* espconn_gethostbyname answers from its cache, without a callback, or     *)
(* takes the request, or refuses it.                                        *)
Lookup ==
  /\ conn' = "none"
  /\ staleDns' = staleDns + dns
  /\ \/ ip' = TRUE /\ dns' = 0
     \/ dns + staleDns < DnsTable /\ dns' = 1 /\ UNCHANGED ip
     \/ dns' = 0 /\ UNCHANGED ip

(* espconn_connect, its result is not looked at.                            *)
Dial == conn' \in {"dialing", "none"} /\ UNCHANGED <<ip, requests>>

(* MQTT_Connect, with the mqtt_tcpclient_delete of an old espconn.          *)
StartConnecting ==
  /\ pCon' = TRUE /\ unsent' = 0
  /\ IF hostIsIp THEN Dial ELSE Lookup
  /\ keepAliveTick' = 0 /\ reconnectTick' = 0
  /\ connState' = "TCP_CONNECTING"
  /\ UNCHANGED <<msgQueue, pending, sendTimeout, hostIsIp, triedPublish>>

------------------------------------------------------------------------------
(* The owner's calls.                                                       *)

OwnerCalls == wanted # "delete" /\ told' = "nothing"

(* Mutant of Connect: the timer is not armed again.                         *)
ConnectWithoutTimer ==
  /\ OwnerCalls
  /\ StartConnecting
  /\ wanted' = "connect"
  /\ UNCHANGED scheduling

(* MQTT_Connect                                                             *)
Connect ==
  /\ OwnerCalls
  /\ StartConnecting
  /\ timer' = TRUE /\ UNCHANGED <<posted, late>>
  /\ wanted' = "connect"

(* Mutant of Disconnect: the timer goes on.                                 *)
DisconnectKeepsTimer ==
  /\ OwnerCalls
  /\ connState' = "TCP_DISCONNECTING"
  /\ Post
  /\ wanted' = "disconnect"
  /\ UNCHANGED <<pCon, msgQueue, pending, counters, address, connection, requests>>

(* MQTT_Disconnect                                                          *)
Disconnect ==
  /\ OwnerCalls
  /\ connState' = "TCP_DISCONNECTING"
  /\ posted' = TRUE /\ timer' = FALSE /\ UNCHANGED late
  /\ wanted' = "disconnect"
  /\ UNCHANGED <<pCon, msgQueue, pending, counters, address, connection, requests>>

(* MQTT_DeleteClient                                                        *)
DeleteClient ==
  /\ OwnerCalls
  /\ connState' = "MQTT_DELETED"
  /\ posted' = TRUE /\ timer' = FALSE /\ UNCHANGED late
  /\ wanted' = "delete"
  /\ UNCHANGED <<pCon, msgQueue, pending, counters, address, connection, requests>>

(* MQTT_Publish ("publish"), MQTT_Subscribe, MQTT_UnSubscribe and MQTT_Ping *)
(* ("other"): the k oldest messages make room, or all of them do not.       *)
Publish(type) ==
  /\ OwnerCalls
  /\ \/ /\ \E k \in 0 .. Len(msgQueue) :
             /\ Len(msgQueue) - k < MaxQueue
             /\ msgQueue' = Append(SubSeq(msgQueue, k + 1, Len(msgQueue)), type)
        /\ Post
     \/ msgQueue' = <<>> /\ UNCHANGED scheduling
  /\ UNCHANGED <<connState, pCon, pending, counters, address, connection, requests, wanted>>

OwnerStep == Connect \/ Disconnect \/ DeleteClient \/ \E t \in Types : Publish(t)

------------------------------------------------------------------------------
(* MQTT_Task, one action per connState.                                     *)

RunTask == posted /\ late' = FALSE /\ told' = "nothing"

(* TCP_RECONNECT: the old espconn is deleted and MQTT_Connect called.       *)
TaskReconnects ==
  /\ RunTask /\ connState = "TCP_RECONNECT"
  /\ StartConnecting
  /\ timer' = TRUE /\ posted' = FALSE
  /\ UNCHANGED wanted

TaskCloses ==
  /\ RunTask /\ connState \in {"TCP_DISCONNECTING", "TCP_RECONNECT_DISCONNECTING"}
  /\ Close
  /\ posted' = FALSE
  /\ UNCHANGED <<clientVars, counters, address, timer, unsent, triedPublish, requests, wanted>>

TaskReleases ==
  /\ RunTask /\ connState = "TCP_DISCONNECTED"
  /\ FreeCon
  /\ posted' = FALSE
  /\ UNCHANGED <<connState, msgQueue, pending, counters, address, timer, triedPublish, wanted>>

(* mqtt_client_delete                                                       *)
TaskDeletes ==
  /\ RunTask /\ connState = "MQTT_DELETED"
  /\ FreeCon
  /\ msgQueue' = <<>>
  /\ connState' = "WIFI_INIT"
  /\ posted' = FALSE
  /\ UNCHANGED <<pending, counters, address, timer, triedPublish, wanted>>

(* mqtt_send_keepalive: whatever is still unsent, a PINGREQ is sent.        *)
TaskSendsKeepalive ==
  /\ RunTask /\ connState = "MQTT_KEEPALIVE_SEND"
  /\ pending' = "other"
  /\ sendTimeout' = MQTT_SEND_TIMOUT
  /\ \/ SendTaken /\ keepAliveTick' = 0 /\ connState' = "MQTT_DATA"
     \/ SendFails /\ connState' = "TCP_RECONNECT_DISCONNECTING" /\ UNCHANGED keepAliveTick
  /\ posted' = TRUE
  /\ UNCHANGED <<pCon, msgQueue, reconnectTick, address, timer, conn, triedPublish,
                 requests, wanted>>

MaySend == msgQueue # <<>> /\ sendTimeout = 0

(* MQTT_DATA: the result of espconn_send is not looked at.                  *)
TaskSends ==
  /\ RunTask /\ connState = "MQTT_DATA" /\ MaySend
  /\ msgQueue' = Tail(msgQueue) /\ pending' = Head(msgQueue)
  /\ sendTimeout' = MQTT_SEND_TIMOUT /\ keepAliveTick' = 0
  /\ triedPublish' = (triedPublish \/ Head(msgQueue) = "publish")
  /\ SendTaken \/ SendFails
  /\ posted' = FALSE
  /\ UNCHANGED <<connState, pCon, reconnectTick, address, timer, conn, requests, wanted>>

TaskIdles ==
  /\ RunTask
  /\ \/ connState \in {"WIFI_INIT", "TCP_CONNECTING", "MQTT_CONNECT_SENDING",
                       "TCP_RECONNECT_REQ"}
     \/ connState = "MQTT_DATA" /\ ~MaySend
  /\ posted' = FALSE
  /\ UNCHANGED <<clientVars, counters, address, timer, connection, requests, wanted>>

Task ==
  \/ TaskReconnects \/ TaskCloses \/ TaskReleases \/ TaskDeletes
  \/ TaskSendsKeepalive \/ TaskSends \/ TaskIdles

------------------------------------------------------------------------------
(* mqtt_timer                                                               *)

(* Mutant of CountDown: the unsigned zero is counted down too.                *)
CountDownPastZero(n) == n - 1

CountDown(n) == IF n > 0 THEN n - 1 ELSE n

KeepaliveTick ==
  /\ connState = "MQTT_DATA"
  /\ keepAliveTick' = keepAliveTick + 1
  /\ IF keepAliveTick' > HalfKeepalive
     THEN connState' = "MQTT_KEEPALIVE_SEND" /\ posted' = TRUE
     ELSE UNCHANGED <<connState, posted>>
  /\ UNCHANGED reconnectTick

ReconnectTick ==
  /\ connState = "TCP_RECONNECT_REQ"
  /\ IF reconnectTick + 1 > MQTT_RECONNECT_TIMEOUT
     THEN reconnectTick' = 0 /\ connState' = "TCP_RECONNECT" /\ posted' = TRUE
     ELSE reconnectTick' = reconnectTick + 1 /\ UNCHANGED <<connState, posted>>
  /\ UNCHANGED keepAliveTick

OtherTick ==
  /\ connState \notin {"MQTT_DATA", "TCP_RECONNECT_REQ"}
  /\ UNCHANGED <<connState, posted, keepAliveTick, reconnectTick>>

Timer ==
  /\ timer /\ ~late
  /\ KeepaliveTick \/ ReconnectTick \/ OtherTick
  /\ sendTimeout' = CountDown(sendTimeout)
  /\ late' = posted
  /\ told' = "nothing"
  /\ UNCHANGED <<pCon, msgQueue, pending, address, timer, connection, requests, wanted>>

------------------------------------------------------------------------------
(* mqtt_dns_found                                                           *)

NoAddress == connState' = "TCP_RECONNECT_REQ" /\ UNCHANGED <<scheduling, conn>>

(* The answer is used only while client->ip is 0, for the espconn that the  *)
(* client has now, whatever became of the client in the meantime.           *)
AddressFound ==
  /\ ~ip /\ pCon
  /\ IF conn = "none" THEN conn' \in {"dialing", "none"} ELSE UNCHANGED conn
  /\ connState' = "TCP_CONNECTING"
  /\ Post

AddressIgnored == Post /\ UNCHANGED <<connState, conn>>

Answer ==
  /\ NoAddress \/ AddressFound \/ AddressIgnored
  /\ told' = "nothing"
  /\ UNCHANGED <<pCon, msgQueue, pending, counters, address, unsent, triedPublish, wanted>>

DnsFound == dns = 1 /\ dns' = 0 /\ UNCHANGED staleDns /\ Answer

StaleDnsFound ==
  /\ staleDns > 0
  /\ \/ staleDns' = staleDns - 1 /\ UNCHANGED dns /\ Answer
     \/ Reset

------------------------------------------------------------------------------
(* The callbacks of the connection.                                         *)

(* mqtt_tcpclient_connect_cb: CONNECT is sent, the result not looked at.    *)
Connected ==
  /\ conn = "dialing" /\ conn' = "open"
  /\ pending' = "connect" /\ sendTimeout' = MQTT_SEND_TIMOUT
  /\ triedPublish' = FALSE
  /\ SendTaken \/ SendFails
  /\ connState' = "MQTT_CONNECT_SENDING"
  /\ Post
  /\ told' = "nothing"
  /\ UNCHANGED <<pCon, msgQueue, keepAliveTick, reconnectTick, address, requests, wanted>>

(* Mutant of ConnectionLost: only a connection that is being made is retried. *)
ConnectionLostWhileConnecting ==
  /\ conn # "none" /\ conn' = "none" /\ unsent' = 0
  /\ connState' = IF connState = "TCP_CONNECTING" THEN "TCP_RECONNECT_REQ" ELSE connState
  /\ Post
  /\ told' = "nothing"
  /\ UNCHANGED <<pCon, msgQueue, pending, counters, address, triedPublish, requests, wanted>>

(* mqtt_tcpclient_recon_cb: the dial failed or the connection broke.        *)
ConnectionLost ==
  /\ conn # "none" /\ conn' = "none" /\ unsent' = 0
  /\ connState' = "TCP_RECONNECT_REQ"
  /\ Post
  /\ told' = "nothing"
  /\ UNCHANGED <<pCon, msgQueue, pending, counters, address, triedPublish, requests, wanted>>

(* mqtt_tcpclient_discon_cb: the connection has been closed by either side. *)
Disconnected ==
  /\ Up /\ conn' = "none" /\ unsent' = 0
  /\ connState' = IF connState = "TCP_DISCONNECTING" THEN "TCP_DISCONNECTED"
                  ELSE "TCP_RECONNECT_REQ"
  /\ told' = "disconnected"
  /\ Post
  /\ UNCHANGED <<pCon, msgQueue, pending, counters, address, triedPublish, requests, wanted>>

(* Mutant of Sent: the task is not posted.                                  *)
SentWithoutPost ==
  /\ Up /\ unsent > 0 /\ unsent' = unsent - 1
  /\ sendTimeout' = 0 /\ keepAliveTick' = 0
  /\ told' = IF /\ connState \in {"MQTT_DATA", "MQTT_KEEPALIVE_SEND"}
                /\ pending = "publish"
             THEN "published" ELSE "nothing"
  /\ UNCHANGED <<clientVars, reconnectTick, address, scheduling, conn, triedPublish, requests,
                 wanted>>

(* Mutant of Sent: the type of the pending message is not looked at.        *)
SentAlwaysTells ==
  /\ Up /\ unsent > 0 /\ unsent' = unsent - 1
  /\ sendTimeout' = 0 /\ keepAliveTick' = 0
  /\ told' = IF connState \in {"MQTT_DATA", "MQTT_KEEPALIVE_SEND"}
             THEN "published" ELSE "nothing"
  /\ Post
  /\ UNCHANGED <<clientVars, reconnectTick, address, conn, triedPublish, requests, wanted>>

(* mqtt_tcpclient_sent_cb                                                   *)
Sent ==
  /\ Up /\ unsent > 0 /\ unsent' = unsent - 1
  /\ sendTimeout' = 0 /\ keepAliveTick' = 0
  /\ told' = IF /\ connState \in {"MQTT_DATA", "MQTT_KEEPALIVE_SEND"}
                /\ pending = "publish"
             THEN "published" ELSE "nothing"
  /\ Post
  /\ UNCHANGED <<clientVars, reconnectTick, address, conn, triedPublish, requests, wanted>>

(* mqtt_tcpclient_recv                                                      *)
ReceiveConnack ==
  /\ connState = "MQTT_CONNECT_SENDING"
  /\ \/ pending = "connect" /\ connState' = "MQTT_DATA" /\ UNCHANGED conn
     \/ Close /\ UNCHANGED connState      \* refused, or not asked for
  /\ UNCHANGED msgQueue

(* A packet that is answered: the answer is queued if there is room.        *)
ReceiveRequest ==
  /\ connState \in {"MQTT_DATA", "MQTT_KEEPALIVE_SEND"}
  /\ "other" \in Types /\ Len(msgQueue) < MaxQueue
  /\ msgQueue' = Append(msgQueue, "other")
  /\ UNCHANGED <<connState, conn>>

ReceiveOther == UNCHANGED <<connState, conn, msgQueue>>

Receive ==
  /\ Up
  /\ ReceiveConnack \/ ReceiveRequest \/ ReceiveOther
  /\ Post
  /\ told' = "nothing"
  /\ UNCHANGED <<pCon, pending, counters, address, unsent, triedPublish, requests, wanted>>

FirmwareStep ==
  \/ DnsFound \/ StaleDnsFound
  \/ Connected \/ ConnectionLost \/ Disconnected \/ Sent \/ Receive

Next == OwnerStep \/ Task \/ Timer \/ FirmwareStep

Spec == Init /\ [][Next]_vars

(* A posted task runs, an armed timer fires, and the firmware ends a        *)
(* connection that is being closed.  It reports a message that it took as   *)
(* sent unless the connection ends first, and not always in the instant     *)
(* between a keepalive tick of the timer and the task.                      *)
FairSpec ==
  /\ Spec
  /\ WF_vars(Task) /\ WF_vars(Timer) /\ SF_vars(Sent /\ connState = "MQTT_DATA")
  /\ WF_vars(conn = "closing" /\ (Disconnected \/ ConnectionLost))

------------------------------------------------------------------------------
(* Properties                                                               *)

(* Whenever the client believes that it can send (the task then passes pCon *)
(* to espconn_send unchecked), there is an espconn and its connection has   *)
(* been made and not ended, whatever callbacks, timer ticks, reconnects and *)
(* calls of the owner came in between.                                      *)
LinkWhenSending ==
  connState \in {"MQTT_CONNECT_SENDING", "MQTT_DATA", "MQTT_KEEPALIVE_SEND",
                 "TCP_RECONNECT_DISCONNECTING"} => pCon /\ Up

(* After MQTT_Disconnect, however callbacks and the timer race with it, the *)
(* client dials again only for the answer to a DNS request.                 *)
NoDialAfterDisconnect ==
  [][conn # "dialing" /\ conn' = "dialing" =>
       wanted' = "connect" \/ dns' + staleDns' < dns + staleDns]_vars

(* publishedCb is not called for the CONNECT of a new connection after the  *)
(* last one ended with a PUBLISH pending, also when the answer to CONNECT   *)
(* comes before CONNECT is reported as sent.                                *)
PublishedAfterPublish == [][told' = "published" => triedPublish]_vars

(* A client that lost its connection tries again (or the dial that an old   *)
(* DNS answer made it forget succeeds), unless its owner stops it.          *)
Reconnects ==
  connState = "TCP_RECONNECT_REQ" /\ wanted = "connect"
    ~> connState \in {"TCP_CONNECTING", "MQTT_CONNECT_SENDING"} \/ wanted # "connect"

(* Queued messages do not wait forever while the client can send and its    *)
(* owner wants it to: even after failed sends, and with keepalives in       *)
(* between, the task sends.                                                 *)
Waiting ==
  /\ connState \in {"MQTT_DATA", "MQTT_KEEPALIVE_SEND"}
  /\ msgQueue # <<>> /\ wanted = "connect"

QueueDrains == []<>~Waiting \/ []<><<TaskSends>>_vars

(* What a comment in mqtt.c says, and the code does not do.                 *)

(* mqtt.c:867-869: MQTT_Disconnect releases the old connection when the     *)
(* disconnection callback is invoked.                                       *)
DisconnectReleases ==
  told = "disconnected" /\ wanted = "disconnect" ~> ~pCon \/ wanted # "disconnect"
==============================================================================
