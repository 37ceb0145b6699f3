-------------------------- MODULE MqttClient_proofs ---------------------------
(* The safety properties of MqttClient, for every length of its queue, of   *)
(* the firmware's tables and of its timeouts.                               *)
EXTENDS MqttClient, TLAPS

TimerInv ==
  /\ timer => wanted = "connect"
  /\ connState = "TCP_RECONNECT" => wanted = "connect"

LinkInv ==
  /\ LinkWhenSending
  /\ conn # "none" => pCon

PendingInv ==
  connState \in {"MQTT_DATA", "MQTT_KEEPALIVE_SEND"} /\ pending = "publish" => triedPublish

------------------------------------------------------------------------------
(* The connection is there while the client believes that it can send.      *)

LEMMA LinkInit == Init => LinkInv
BY DEF Init, LinkInv, LinkWhenSending

LEMMA LinkNext == LinkInv /\ [Next]_vars => LinkInv'
<1>. SUFFICES ASSUME LinkInv, [Next]_vars PROVE LinkInv'
  OBVIOUS
<1>. USE DEF LinkInv, LinkWhenSending, Up
<1>1. CASE OwnerStep
  <2>1. CASE Connect
    BY <2>1 DEF Connect, StartConnecting
  <2>2. CASE Disconnect
    BY <2>2 DEF Disconnect, connection
  <2>3. CASE DeleteClient
    BY <2>3 DEF DeleteClient, connection
  <2>4. ASSUME NEW t \in Types, Publish(t) PROVE LinkInv'
    BY <2>4 DEF Publish, connection
  <2>. QED  BY <1>1, <2>1, <2>2, <2>3, <2>4 DEF OwnerStep
<1>2. CASE Task
  <2>1. CASE TaskReconnects
    BY <2>1 DEF TaskReconnects, StartConnecting
  <2>2. CASE TaskCloses
    BY <2>2 DEF TaskCloses, Close, clientVars
  <2>3. CASE TaskReleases
    BY <2>3 DEF TaskReleases, FreeCon
  <2>4. CASE TaskDeletes
    BY <2>4 DEF TaskDeletes, FreeCon
  <2>5. CASE TaskSendsKeepalive
    BY <2>5 DEF TaskSendsKeepalive
  <2>6. CASE TaskSends
    BY <2>6 DEF TaskSends
  <2>7. CASE TaskIdles
    BY <2>7 DEF TaskIdles, clientVars, connection
  <2>. QED  BY <1>2, <2>1, <2>2, <2>3, <2>4, <2>5, <2>6, <2>7 DEF Task
<1>3. CASE Timer
  <2>1. UNCHANGED <<pCon, conn>>
    BY <1>3 DEF Timer, connection
  <2>2. CASE KeepaliveTick
    BY <2>1, <2>2 DEF KeepaliveTick
  <2>3. CASE ReconnectTick
    BY <2>1, <2>3 DEF ReconnectTick
  <2>4. CASE OtherTick
    BY <2>1, <2>4 DEF OtherTick
  <2>. QED  BY <1>3, <2>2, <2>3, <2>4 DEF Timer
<1>4. CASE FirmwareStep
  <2>1. ASSUME Answer PROVE LinkInv'
    BY <2>1 DEF Answer, NoAddress, AddressFound, AddressIgnored
  <2>2. CASE StaleDnsFound
    BY <2>1, <2>2 DEF StaleDnsFound, Reset
  <2>3. CASE Connected
    BY <2>3 DEF Connected
  <2>4. CASE ConnectionLost
    BY <2>4 DEF ConnectionLost
  <2>5. CASE Disconnected
    BY <2>5 DEF Disconnected
  <2>6. CASE Sent
    BY <2>6 DEF Sent, clientVars
  <2>7. CASE Receive
    BY <2>7 DEF Receive, ReceiveConnack, ReceiveRequest, ReceiveOther, Close
  <2>. QED  BY <1>4, <2>1, <2>2, <2>3, <2>4, <2>5, <2>6, <2>7 DEF FirmwareStep, DnsFound
<1>5. CASE UNCHANGED vars
  BY <1>5 DEF vars, clientVars, connection
<1>. QED  BY <1>1, <1>2, <1>3, <1>4, <1>5 DEF Next

(* The task never sends through an espconn that is not there or has no      *)
(* connection, in any interleaving of the callbacks, the timer and the      *)
(* owner's calls.                                                           *)
THEOREM LinkAlwaysThere == Spec => []LinkWhenSending
<1>1. LinkInv => LinkWhenSending
  BY DEF LinkInv
<1>. QED  BY <1>1, LinkInit, LinkNext, PTL DEF Spec

------------------------------------------------------------------------------
(* Type correctness.                                                        *)

QueueOK == msgQueue \in Seq(Types) /\ Len(msgQueue) <= MaxQueue

NumbersOK ==
  /\ sendTimeout \in 0 .. MQTT_SEND_TIMOUT /\ keepAliveTick \in Nat
  /\ reconnectTick \in 0 .. MQTT_RECONNECT_TIMEOUT
  /\ unsent \in 0 .. MaxUnsent
  /\ dns \in 0..1 /\ staleDns \in Nat /\ dns + staleDns <= DnsTable

StatesOK ==
  /\ connState \in ConnStates /\ pCon \in BOOLEAN
  /\ pending \in {"none", "connect", "publish", "other"}
  /\ ip \in BOOLEAN /\ hostIsIp \in BOOLEAN
  /\ timer \in BOOLEAN /\ posted \in BOOLEAN /\ late \in BOOLEAN
  /\ conn \in {"none", "dialing", "open", "closing"}
  /\ wanted \in {"nothing", "connect", "disconnect", "delete"}
  /\ triedPublish \in BOOLEAN
  /\ told \in {"nothing", "published", "disconnected"}

LEMMA TypeParts == TypeOK <=> QueueOK /\ NumbersOK /\ StatesOK
BY DEF TypeOK, QueueOK, NumbersOK, StatesOK

LEMMA TypePartsNext == QueueOK' /\ NumbersOK' /\ StatesOK' => TypeOK'
BY TypeParts, PTL

LEMMA TypeInit == Init => TypeOK
<1>. SUFFICES ASSUME Init PROVE TypeOK
  OBVIOUS
<1>1. QueueOK
  BY ClientConstantsOK DEF Init, QueueOK
<1>2. NumbersOK
  BY ClientConstantsOK DEF Init, NumbersOK
<1>3. StatesOK
  BY DEF Init, StatesOK, ConnStates
<1>. QED  BY <1>1, <1>2, <1>3, TypeParts

LEMMA QueueAppend ==
  ASSUME TypeOK, NEW t \in Types, NEW k \in 0 .. Len(msgQueue), Len(msgQueue) - k < MaxQueue
  PROVE  LET s == Append(SubSeq(msgQueue, k + 1, Len(msgQueue)), t)
         IN  s \in Seq(Types) /\ Len(s) <= MaxQueue
<1>. DEFINE r == SubSeq(msgQueue, k + 1, Len(msgQueue))
<1>1. r \in Seq(Types) /\ Len(r) = Len(msgQueue) - k
  BY DEF TypeOK
<1>2. Len(msgQueue) \in Nat /\ MaxQueue \in Nat
  BY ClientConstantsOK DEF TypeOK
<1>. QED  BY <1>1, <1>2

LEMMA StartConnectingType ==
  ASSUME TypeOK, StartConnecting
  PROVE  /\ pCon' \in BOOLEAN /\ unsent' \in 0 .. MaxUnsent
         /\ conn' \in {"none", "dialing", "open", "closing"} /\ ip' \in BOOLEAN
         /\ dns' \in 0..1 /\ staleDns' \in Nat /\ dns' + staleDns' <= DnsTable
         /\ keepAliveTick' \in Nat /\ reconnectTick' \in 0 .. MQTT_RECONNECT_TIMEOUT
         /\ connState' \in ConnStates
         /\ UNCHANGED <<msgQueue, pending, sendTimeout, hostIsIp, triedPublish>>
<1>1. CASE hostIsIp
  BY <1>1, ClientConstantsOK DEF TypeOK, StartConnecting, Dial, requests, ConnStates
<1>2. CASE ~hostIsIp
  <2>1. /\ conn' = "none" /\ staleDns' = staleDns + dns /\ pCon' = TRUE /\ unsent' = 0
        /\ keepAliveTick' = 0 /\ reconnectTick' = 0 /\ connState' = "TCP_CONNECTING"
        /\ UNCHANGED <<msgQueue, pending, sendTimeout, hostIsIp, triedPublish>>
        /\ ip' = TRUE \/ ip' = ip
    BY <1>2 DEF StartConnecting, Lookup
  <2>2. dns' = 0 \/ (dns' = 1 /\ dns + staleDns < DnsTable)
    BY <1>2 DEF StartConnecting, Lookup
  <2>3. dns' \in 0..1 /\ staleDns' \in Nat /\ dns' + staleDns' <= DnsTable
    BY <2>1, <2>2, ClientConstantsOK DEF TypeOK
  <2>4. MaxUnsent \in Nat /\ MQTT_RECONNECT_TIMEOUT \in Nat
    BY ClientConstantsOK
  <2>5. ip' \in BOOLEAN
    BY <2>1, Zenon DEF TypeOK
  <2>6. /\ unsent' \in 0 .. MaxUnsent /\ reconnectTick' \in 0 .. MQTT_RECONNECT_TIMEOUT
        /\ keepAliveTick' \in Nat
    BY <2>1, <2>4
  <2>7. connState' \in ConnStates /\ conn' \in {"none", "dialing", "open", "closing"}
    BY <2>1 DEF ConnStates
  <2>. QED  BY <2>1, <2>3, <2>5, <2>6, <2>7
<1>. QED  BY <1>1, <1>2

LEMMA TypeNext == TypeOK /\ [Next]_vars => TypeOK'
<1>. SUFFICES ASSUME TypeOK, [Next]_vars PROVE TypeOK'
  OBVIOUS
<1>0. /\ MaxQueue \in Nat \ {0} /\ MaxUnsent \in Nat \ {0} /\ DnsTable \in Nat
      /\ MQTT_SEND_TIMOUT \in Nat \ {0} /\ MQTT_RECONNECT_TIMEOUT \in Nat
      /\ Types \subseteq {"publish", "other"}
  BY ClientConstantsOK
<1>. USE DEF ConnStates, OwnerCalls, RunTask, Post, Up, SendTaken, SendFails,
         address, counters, connection, requests, scheduling
<1>1. CASE OwnerStep
  <2>1. CASE Connect
    <3>1. /\ StartConnecting /\ timer' = TRUE /\ UNCHANGED <<posted, late>>
          /\ wanted' = "connect" /\ told' = "nothing"
      BY <2>1 DEF Connect
    <3>. QED  BY <3>1, StartConnectingType DEF TypeOK
  <2>2. CASE Disconnect
    BY <2>2 DEF Disconnect, TypeOK
  <2>3. CASE DeleteClient
    BY <2>3 DEF DeleteClient, TypeOK
  <2>4. ASSUME NEW t \in Types, Publish(t) PROVE TypeOK'
    <3>1. msgQueue' \in Seq(Types) /\ Len(msgQueue') <= MaxQueue
      <4>1. CASE msgQueue' = <<>>
        BY <1>0, <4>1
      <4>2. ASSUME NEW k \in 0 .. Len(msgQueue), Len(msgQueue) - k < MaxQueue,
                   msgQueue' = Append(SubSeq(msgQueue, k + 1, Len(msgQueue)), t)
            PROVE  msgQueue' \in Seq(Types) /\ Len(msgQueue') <= MaxQueue
        BY <4>2, QueueAppend
      <4>. QED  BY <2>4, <4>1, <4>2 DEF Publish
    <3>2. QueueOK'
      BY <3>1 DEF QueueOK
    <3>3. NumbersOK'
      BY <2>4 DEF Publish, NumbersOK, TypeOK
    <3>4. StatesOK'
      <4>1. /\ posted' \in BOOLEAN
            /\ UNCHANGED <<connState, pCon, pending, address, timer, late, conn, triedPublish,
                            wanted>> /\ told' = "nothing"
        BY <2>4 DEF Publish, TypeOK
      <4>. QED  BY <4>1 DEF StatesOK, TypeOK
    <3>. QED  BY <3>2, <3>3, <3>4, TypePartsNext
  <2>. QED  BY <1>1, <2>1, <2>2, <2>3, <2>4 DEF OwnerStep
<1>2. CASE Task
  <2>1. CASE TaskReconnects
    <3>1. /\ StartConnecting /\ timer' = TRUE /\ posted' = FALSE /\ late' = FALSE
          /\ wanted' = wanted /\ told' = "nothing"
      BY <2>1 DEF TaskReconnects
    <3>. QED  BY <3>1, StartConnectingType DEF TypeOK
  <2>2. CASE TaskCloses
    <3>1. QueueOK'
      BY <2>2 DEF TaskCloses, Close, clientVars, QueueOK, TypeOK
    <3>2. NumbersOK'
      BY <1>0, <2>2 DEF TaskCloses, Close, clientVars, NumbersOK, TypeOK
    <3>3. StatesOK'
      BY <2>2 DEF TaskCloses, Close, clientVars, StatesOK, TypeOK
    <3>. QED  BY <3>1, <3>2, <3>3, TypePartsNext
  <2>3. CASE TaskReleases
    <3>1. QueueOK'
      BY <2>3 DEF TaskReleases, FreeCon, QueueOK, TypeOK
    <3>2. NumbersOK'
      BY <1>0, <2>3 DEF TaskReleases, FreeCon, NumbersOK, TypeOK
    <3>3. StatesOK'
      BY <2>3 DEF TaskReleases, FreeCon, StatesOK, TypeOK
    <3>. QED  BY <3>1, <3>2, <3>3, TypePartsNext
  <2>4. CASE TaskDeletes
    <3>1. QueueOK'
      BY <1>0, <2>4 DEF TaskDeletes, FreeCon, QueueOK
    <3>2. NumbersOK'
      BY <1>0, <2>4 DEF TaskDeletes, FreeCon, NumbersOK, TypeOK
    <3>3. StatesOK'
      BY <2>4 DEF TaskDeletes, FreeCon, StatesOK, TypeOK
    <3>. QED  BY <3>1, <3>2, <3>3, TypePartsNext
  <2>5. CASE TaskSendsKeepalive
    <3>1. QueueOK'
      BY <2>5 DEF TaskSendsKeepalive, QueueOK, TypeOK
    <3>2. NumbersOK'
      BY <1>0, <2>5 DEF TaskSendsKeepalive, NumbersOK, TypeOK
    <3>3. StatesOK'
      BY <2>5 DEF TaskSendsKeepalive, StatesOK, TypeOK
    <3>. QED  BY <3>1, <3>2, <3>3, TypePartsNext
  <2>6. CASE TaskSends
    <3>1. /\ Tail(msgQueue) \in Seq(Types) /\ Len(Tail(msgQueue)) <= MaxQueue
          /\ Head(msgQueue) \in Types
      BY <1>0, <2>6 DEF TaskSends, MaySend, TypeOK
    <3>2. UNCHANGED <<connState, pCon, reconnectTick, address, timer, conn, requests, wanted>>
      BY <2>6 DEF TaskSends
    <3>3. /\ msgQueue' = Tail(msgQueue) /\ pending' = Head(msgQueue)
          /\ sendTimeout' = MQTT_SEND_TIMOUT /\ keepAliveTick' = 0
          /\ posted' = FALSE /\ late' = FALSE /\ told' = "nothing"
          /\ triedPublish' \in BOOLEAN
      BY <2>6 DEF TaskSends, TypeOK
    <3>4. unsent' \in 0 .. MaxUnsent
      BY <1>0, <2>6 DEF TaskSends, TypeOK
    <3>5. QueueOK'
      BY <3>1, <3>3 DEF QueueOK
    <3>6. NumbersOK'
      BY <1>0, <3>2, <3>3, <3>4 DEF NumbersOK, TypeOK
    <3>7. StatesOK'
      BY <1>0, <3>1, <3>2, <3>3 DEF StatesOK, TypeOK
    <3>. QED  BY <3>5, <3>6, <3>7, TypePartsNext
  <2>7. CASE TaskIdles
    <3>1. QueueOK'
      BY <2>7 DEF TaskIdles, clientVars, QueueOK, TypeOK
    <3>2. NumbersOK'
      BY <1>0, <2>7 DEF TaskIdles, clientVars, NumbersOK, TypeOK
    <3>3. StatesOK'
      <4>1. posted' = FALSE /\ late' = FALSE /\ told' = "nothing"
        BY <2>7 DEF TaskIdles
      <4>2. UNCHANGED <<connState, pCon, pending, ip, hostIsIp, timer, conn, triedPublish, wanted>>
        BY <2>7 DEF TaskIdles, clientVars
      <4>3. /\ connState' \in ConnStates /\ pending' \in {"none", "connect", "publish", "other"}
            /\ conn' \in {"none", "dialing", "open", "closing"}
            /\ wanted' \in {"nothing", "connect", "disconnect", "delete"}
        BY <4>2 DEF TypeOK
      <4>4. /\ pCon' \in BOOLEAN /\ ip' \in BOOLEAN /\ hostIsIp' \in BOOLEAN
            /\ timer' \in BOOLEAN /\ triedPublish' \in BOOLEAN
        BY <4>2 DEF TypeOK
      <4>. QED  BY <4>1, <4>3, <4>4 DEF StatesOK
    <3>. QED  BY <3>1, <3>2, <3>3, TypePartsNext
  <2>. QED  BY <1>2, <2>1, <2>2, <2>3, <2>4, <2>5, <2>6, <2>7 DEF Task
<1>3. CASE Timer
  <2>1. /\ late' = posted /\ told' = "nothing"
        /\ UNCHANGED <<pCon, msgQueue, pending, address, timer, connection, requests, wanted>>
    BY <1>3 DEF Timer
  <2>2. sendTimeout' \in 0 .. MQTT_SEND_TIMOUT
    BY <1>0, <1>3 DEF Timer, CountDown, TypeOK
  <2>3. /\ connState' \in ConnStates /\ posted' \in BOOLEAN
        /\ keepAliveTick' \in Nat /\ reconnectTick' \in 0 .. MQTT_RECONNECT_TIMEOUT
    <3>1. CASE KeepaliveTick
      <4>1. /\ keepAliveTick' = keepAliveTick + 1 /\ reconnectTick' = reconnectTick
            /\ \/ connState' = "MQTT_KEEPALIVE_SEND" /\ posted' = TRUE
               \/ connState' = connState /\ posted' = posted
        BY <3>1 DEF KeepaliveTick
      <4>2. posted' \in BOOLEAN
        BY <4>1, Zenon DEF TypeOK
      <4>3. keepAliveTick' \in Nat /\ reconnectTick' \in 0 .. MQTT_RECONNECT_TIMEOUT
        BY <4>1 DEF TypeOK
      <4>4. connState' \in ConnStates
        BY <4>1 DEF TypeOK
      <4>. QED  BY <4>2, <4>3, <4>4, Zenon
    <3>2. CASE ReconnectTick
      <4>1. /\ keepAliveTick' = keepAliveTick
            /\ \/ reconnectTick' = 0 /\ connState' = "TCP_RECONNECT" /\ posted' = TRUE
               \/ /\ ~(reconnectTick + 1 > MQTT_RECONNECT_TIMEOUT)
                  /\ reconnectTick' = reconnectTick + 1
                  /\ connState' = connState /\ posted' = posted
        BY <3>2 DEF ReconnectTick
      <4>2. posted' \in BOOLEAN
        BY <4>1, Zenon DEF TypeOK
      <4>3. keepAliveTick' \in Nat /\ reconnectTick' \in 0 .. MQTT_RECONNECT_TIMEOUT
        BY <1>0, <4>1 DEF TypeOK
      <4>4. connState' \in ConnStates
        BY <4>1 DEF TypeOK
      <4>. QED  BY <4>2, <4>3, <4>4, Zenon
    <3>3. CASE OtherTick
      BY <3>3 DEF OtherTick, TypeOK
    <3>. QED  BY <1>3, <3>1, <3>2, <3>3 DEF Timer
  <2>. QED  BY <2>1, <2>2, <2>3 DEF TypeOK
<1>4. CASE FirmwareStep
  <2>1. ASSUME Answer, dns' \in 0..1, staleDns' \in Nat, dns' + staleDns' <= DnsTable
        PROVE  TypeOK'
    <3>1. UNCHANGED <<pCon, msgQueue, pending, counters, address, unsent, triedPublish,
                      wanted, timer, late>> /\ told' = "nothing"
      BY <2>1 DEF Answer, NoAddress, AddressFound, AddressIgnored
    <3>2. /\ connState' \in ConnStates /\ posted' \in BOOLEAN
          /\ conn' \in {"none", "dialing", "open", "closing"}
      BY <2>1 DEF Answer, NoAddress, AddressFound, AddressIgnored, TypeOK
    <3>. QED  BY <2>1, <3>1, <3>2 DEF TypeOK
  <2>2. CASE DnsFound
    BY <1>0, <2>1, <2>2 DEF DnsFound, TypeOK
  <2>3. CASE StaleDnsFound
    <3>1. CASE Reset
      <4>1. QueueOK'
        BY <1>0, <3>1 DEF Reset, QueueOK
      <4>2. NumbersOK'
        BY <1>0, <3>1 DEF Reset, NumbersOK
      <4>3. StatesOK'
        BY <3>1 DEF Reset, StatesOK, TypeOK
      <4>. QED  BY <4>1, <4>2, <4>3, TypePartsNext
    <3>2. CASE staleDns' = staleDns - 1 /\ UNCHANGED dns /\ Answer
      BY <1>0, <2>1, <2>3, <3>2 DEF StaleDnsFound, TypeOK
    <3>. QED  BY <2>3, <3>1, <3>2 DEF StaleDnsFound
  <2>4. CASE Connected
    <3>1. QueueOK'
      BY <2>4 DEF Connected, QueueOK, TypeOK
    <3>2. NumbersOK'
      BY <1>0, <2>4 DEF Connected, NumbersOK, TypeOK
    <3>3. StatesOK'
      BY <2>4 DEF Connected, StatesOK, TypeOK
    <3>. QED  BY <3>1, <3>2, <3>3, TypePartsNext
  <2>5. CASE ConnectionLost
    <3>1. QueueOK'
      BY <2>5 DEF ConnectionLost, QueueOK, TypeOK
    <3>2. NumbersOK'
      BY <1>0, <2>5 DEF ConnectionLost, NumbersOK, TypeOK
    <3>3. StatesOK'
      BY <2>5 DEF ConnectionLost, StatesOK, TypeOK
    <3>. QED  BY <3>1, <3>2, <3>3, TypePartsNext
  <2>6. CASE Disconnected
    <3>1. QueueOK'
      BY <2>6 DEF Disconnected, QueueOK, TypeOK
    <3>2. NumbersOK'
      BY <1>0, <2>6 DEF Disconnected, NumbersOK, TypeOK
    <3>3. StatesOK'
      BY <2>6 DEF Disconnected, StatesOK, TypeOK
    <3>. QED  BY <3>1, <3>2, <3>3, TypePartsNext
  <2>7. CASE Sent
    <3>1. QueueOK'
      BY <2>7 DEF Sent, clientVars, QueueOK, TypeOK
    <3>2. NumbersOK'
      BY <1>0, <2>7 DEF Sent, clientVars, NumbersOK, TypeOK
    <3>3. StatesOK'
      BY <2>7 DEF Sent, clientVars, StatesOK, TypeOK
    <3>. QED  BY <3>1, <3>2, <3>3, TypePartsNext
  <2>8. CASE Receive
    <3>1. msgQueue' \in Seq(Types) /\ Len(msgQueue') <= MaxQueue
      BY <1>0, <2>8 DEF Receive, ReceiveConnack, ReceiveRequest, ReceiveOther, TypeOK
    <3>2. connState' \in ConnStates /\ conn' \in {"none", "dialing", "open", "closing"}
      BY <2>8 DEF Receive, ReceiveConnack, ReceiveRequest, ReceiveOther, Close, TypeOK
    <3>. QED  BY <2>8, <3>1, <3>2 DEF Receive, TypeOK
  <2>. QED  BY <1>4, <2>2, <2>3, <2>4, <2>5, <2>6, <2>7, <2>8 DEF FirmwareStep
<1>5. CASE UNCHANGED vars
  BY <1>5 DEF vars, clientVars, TypeOK
<1>. QED  BY <1>1, <1>2, <1>3, <1>4, <1>5 DEF Next

(* Every variable keeps its type; the unsigned countdown of a send never    *)
(* goes below zero or above MQTT_SEND_TIMOUT.                               *)
THEOREM ClientTypeCorrect == Spec => []TypeOK
BY TypeInit, TypeNext, PTL DEF Spec

------------------------------------------------------------------------------
(* The timer and the reconnect state after MQTT_Disconnect.                 *)

LEMMA TimerNext == TypeOK /\ TimerInv /\ [Next]_vars => TimerInv'
<1>. SUFFICES ASSUME TypeOK, TimerInv, [Next]_vars PROVE TimerInv'
  OBVIOUS
<1>. USE DEF TimerInv, scheduling, Post
<1>1. CASE OwnerStep
  <2>1. ASSUME NEW t \in Types, Publish(t) PROVE TimerInv'
    BY <2>1 DEF Publish
  <2>. QED  BY <1>1, <2>1 DEF OwnerStep, Connect, Disconnect, DeleteClient, StartConnecting
<1>2. CASE Task
  <2>1. CASE TaskReconnects
    BY <2>1 DEF TaskReconnects, StartConnecting
  <2>2. CASE TaskCloses
    BY <2>2 DEF TaskCloses, clientVars
  <2>3. CASE TaskReleases
    BY <2>3 DEF TaskReleases
  <2>4. CASE TaskDeletes
    BY <2>4 DEF TaskDeletes
  <2>5. CASE TaskSendsKeepalive
    BY <2>5 DEF TaskSendsKeepalive
  <2>6. CASE TaskSends
    BY <2>6 DEF TaskSends
  <2>7. CASE TaskIdles
    BY <2>7 DEF TaskIdles, clientVars
  <2>. QED  BY <1>2, <2>1, <2>2, <2>3, <2>4, <2>5, <2>6, <2>7 DEF Task
<1>3. CASE Timer
  BY <1>3 DEF Timer
<1>4. CASE FirmwareStep
  <2>1. ASSUME Answer PROVE TimerInv'
    BY <2>1 DEF Answer, NoAddress, AddressFound, AddressIgnored
  <2>2. CASE StaleDnsFound
    BY <2>1, <2>2 DEF StaleDnsFound, Reset
  <2>3. CASE Connected
    BY <2>3 DEF Connected
  <2>4. CASE ConnectionLost
    BY <2>4 DEF ConnectionLost
  <2>5. CASE Disconnected
    BY <2>5 DEF Disconnected
  <2>6. CASE Sent
    BY <2>6 DEF Sent, clientVars
  <2>7. CASE Receive
    BY <2>7 DEF Receive, ReceiveConnack, ReceiveRequest, ReceiveOther
  <2>. QED  BY <1>4, <2>1, <2>2, <2>3, <2>4, <2>5, <2>6, <2>7 DEF FirmwareStep, DnsFound
<1>5. CASE UNCHANGED vars
  BY <1>5 DEF vars, clientVars
<1>. QED  BY <1>1, <1>2, <1>3, <1>4, <1>5 DEF Next

NoDial ==
  conn # "dialing" /\ conn' = "dialing" =>
    wanted' = "connect" \/ dns' + staleDns' < dns + staleDns

LEMMA DialStep == TypeOK /\ TimerInv /\ [Next]_vars => NoDial
<1>. SUFFICES ASSUME TypeOK, TimerInv, [Next]_vars, conn # "dialing", conn' = "dialing"
              PROVE  wanted' = "connect" \/ dns' + staleDns' < dns + staleDns
  BY DEF NoDial
<1>1. CASE OwnerStep
  BY <1>1 DEF OwnerStep, Connect, Disconnect, DeleteClient, Publish, connection
<1>2. CASE Task
  <2>1. CASE TaskReconnects
    BY <2>1 DEF TaskReconnects, TimerInv
  <2>. QED
    BY <1>2, <2>1 DEF Task, TaskCloses, TaskReleases, TaskDeletes, TaskSendsKeepalive,
                      TaskSends, TaskIdles, Close, FreeCon, connection
<1>3. CASE Timer
  BY <1>3 DEF Timer, connection
<1>4. CASE FirmwareStep
  <2>1. CASE DnsFound
    BY <2>1 DEF DnsFound, TypeOK
  <2>2. CASE StaleDnsFound
    BY <2>2 DEF StaleDnsFound, Reset, TypeOK
  <2>. QED
    BY <1>4, <2>1, <2>2 DEF FirmwareStep, Connected, ConnectionLost, Disconnected, Sent,
         Receive, ReceiveConnack, ReceiveRequest, ReceiveOther, Close
<1>5. CASE UNCHANGED vars
  BY <1>5 DEF vars, connection
<1>. QED  BY <1>1, <1>2, <1>3, <1>4, <1>5 DEF Next

(* After MQTT_Disconnect only the answer to a DNS request that was made     *)
(* before it makes the client dial: neither the timer nor a retry that was  *)
(* due already does.                                                        *)
THEOREM NoDialCorrect == Spec => NoDialAfterDisconnect
<1>1. Init => TimerInv
  BY DEF Init, TimerInv
<1>2. TypeOK /\ TimerInv /\ [Next]_vars => [NoDial]_vars
  BY DialStep
<1>. QED
  BY <1>1, <1>2, TypeInit, TypeNext, TimerNext, PTL DEF Spec, NoDialAfterDisconnect, NoDial

------------------------------------------------------------------------------
(* publishedCb and the message that is pending.                             *)

LEMMA PendingNext == PendingInv /\ [Next]_vars => PendingInv'
<1>. SUFFICES ASSUME PendingInv, [Next]_vars PROVE PendingInv'
  OBVIOUS
<1>. USE DEF PendingInv
<1>1. CASE OwnerStep
  <2>1. ASSUME NEW t \in Types, Publish(t) PROVE PendingInv'
    BY <2>1 DEF Publish, connection
  <2>. QED
    BY <1>1, <2>1 DEF OwnerStep, Connect, Disconnect, DeleteClient, StartConnecting, connection
<1>2. CASE Task
  <2>1. CASE TaskReconnects
    BY <2>1 DEF TaskReconnects, StartConnecting
  <2>2. CASE TaskCloses
    BY <2>2 DEF TaskCloses, clientVars
  <2>3. CASE TaskReleases
    BY <2>3 DEF TaskReleases
  <2>4. CASE TaskDeletes
    BY <2>4 DEF TaskDeletes
  <2>5. CASE TaskSendsKeepalive
    BY <2>5 DEF TaskSendsKeepalive
  <2>6. CASE TaskSends
    BY <2>6 DEF TaskSends
  <2>7. CASE TaskIdles
    BY <2>7 DEF TaskIdles, clientVars, connection
  <2>. QED  BY <1>2, <2>1, <2>2, <2>3, <2>4, <2>5, <2>6, <2>7 DEF Task
<1>3. CASE Timer
  <2>1. UNCHANGED <<pending, triedPublish>>
    BY <1>3 DEF Timer, connection
  <2>2. connState' = connState \/ connState' \notin {"MQTT_DATA", "MQTT_KEEPALIVE_SEND"}
        \/ connState = "MQTT_DATA"
    BY <1>3 DEF Timer, KeepaliveTick, ReconnectTick, OtherTick
  <2>. QED  BY <2>1, <2>2
<1>4. CASE FirmwareStep
  <2>1. ASSUME Answer PROVE PendingInv'
    BY <2>1 DEF Answer, NoAddress, AddressFound, AddressIgnored
  <2>2. CASE StaleDnsFound
    BY <2>1, <2>2 DEF StaleDnsFound, Reset
  <2>3. CASE Connected
    BY <2>3 DEF Connected
  <2>4. CASE ConnectionLost
    BY <2>4 DEF ConnectionLost
  <2>5. CASE Disconnected
    BY <2>5 DEF Disconnected
  <2>6. CASE Sent
    BY <2>6 DEF Sent, clientVars
  <2>7. CASE Receive
    BY <2>7 DEF Receive, ReceiveConnack, ReceiveRequest, ReceiveOther
  <2>. QED  BY <1>4, <2>1, <2>2, <2>3, <2>4, <2>5, <2>6, <2>7 DEF FirmwareStep, DnsFound
<1>5. CASE UNCHANGED vars
  BY <1>5 DEF vars, clientVars, connection
<1>. QED  BY <1>1, <1>2, <1>3, <1>4, <1>5 DEF Next

LEMMA ToldStep ==
  ASSUME PendingInv, Next, told' = "published"
  PROVE  triedPublish
<1>1. ~OwnerStep
  BY DEF OwnerStep, Connect, Disconnect, DeleteClient, Publish, OwnerCalls
<1>2. ~Task
  BY DEF Task, TaskReconnects, TaskCloses, TaskReleases, TaskDeletes, TaskSendsKeepalive,
         TaskSends, TaskIdles, RunTask
<1>3. ~Timer
  BY DEF Timer
<1>4. ~DnsFound /\ ~StaleDnsFound /\ ~Connected /\ ~ConnectionLost /\ ~Disconnected /\ ~Receive
  BY DEF DnsFound, StaleDnsFound, Answer, Reset, Connected, ConnectionLost, Disconnected, Receive
<1>5. Sent
  BY <1>1, <1>2, <1>3, <1>4 DEF Next, FirmwareStep
<1>. QED  BY <1>5 DEF Sent, PendingInv

(* publishedCb is called only once a PUBLISH was sent, or failed to be, over *)
(* the present connection: what the last connection left pending is gone.   *)
THEOREM PublishedCorrect == Spec => PublishedAfterPublish
<1>1. Init => PendingInv
  BY DEF Init, PendingInv
<1>2. PendingInv /\ [Next]_vars => [told' = "published" => triedPublish]_vars
  BY ToldStep
<1>. QED  BY <1>1, <1>2, PendingNext, PTL DEF Spec, PublishedAfterPublish
==============================================================================
