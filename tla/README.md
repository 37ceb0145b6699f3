# ev-midget: specifications and proofs

ev-midget connects the sensors, switches and relays of a vehicle over MQTT:
microcontrollers (ESP-01, Arduino Nano) and Raspberry Pis. The repository holds a
TCP server and an MQTT server for the ESP-01 in C++, an older MQTT broker and
client library in C, the Arduino Ethernet library that the Nano's programs are
built from, and Python programs for the dashboard and the relay boards. This
directory holds TLA+ modules of the parts that keep state, the TLC runs that check
them, and TLAPS proofs of their main properties.

    tlc -config <file>.cfg <module>.tla       # PROJECT.json lists the pairs
    tlapm <module>_proofs.tla

Paths below are relative to `src/`; *TS* is `esp01-projects/tcp server`, *RB* is
`esp01-projects/mqtt broker/lib/rMQTTBroker/src`, *MS* is
`esp01-projects/mqtt server/src`, *EL* is
`arduino-projects/nano with ethernet/lib/Ethernet-2.0.2/src`.

## 1. Inventory

Everything on the ESP8266 runs on one thread: calls of the firmware (`espconn`)
return at once, and their outcomes come later as callbacks, each of which runs to
completion. The hard behaviour is therefore not preemption but *order*: which
callback, timer tick, posted task or call of an upper layer comes next, what it
reads of a state that was set several callbacks ago, and what an operation leaves
behind when it fails half way.

On the Nano the program is one thread too, but its calls block, and the Ethernet
chip beside it is a second actor: peers connect, send and go between any two
registers that a call reads. On the Pis, Python's timer threads share variables with
the thread that handles messages, without a lock.

| Component | State | Operations | What makes it correct |
|---|---|---|---|
| TCP server (TS `tcp_server.cpp`) | started flag, a server *or* client configuration with a list of clients and its counter, the table of sessions by hashed id | start/stop server and client, cleanup, the connect callback, add/remove session | counters and limits hold, the right owner learns of a session, a link that stays up has a session |
| TCP session (TS `tcp_session.cpp`) | validity, callbacks and listeners; the object is shared between table and owner | register four callbacks, send, disconnect; four firmware callbacks that look the session up by id | events reach the listener registered for them, an object is not used after it was deleted |
| Ring buffer (RB `ringbuf_mqtt.c`) | memory, read and write pointer, fill count | init, put, get | a bounded FIFO |
| Message queue (RB `queue.c`, `proto.c`) | frames in a ring | puts, gets; callers that drop old messages for room | whole messages, in order, whatever was refused half way |
| MQTT client (RB `mqtt.c`) | connection state, queue, pending message, three counters, timer, `espconn` | connect, disconnect, delete, publish & co.; task, timer, DNS and TCP callbacks | sends only over a connection, retries a lost one, does not retry a closed one, sends what is queued |
| Retained messages (RB `mqtt_broker_retained_list.cpp`) | a table of topics and data, a saved copy | update, find, clear, serialise, deserialise | the last message of each topic; a copy that loads is the table that was saved |
| MQTT server (MS `mqtt_server.cpp`, `tcp_server.cpp`, `tcp_session.cpp`) | owner of the singleton, table of sessions | start, the connect callback, the callbacks of links | a callback finds its session |
| Topics (MS `mqtt_topic.cpp`) | a name | set, reset, validate, compare | MQTT's names and wildcards |
| Messages, parsers (MS `mqtt_message.cpp`, `mqtt_*_parser.cpp`) | the bytes written so far | thirteen creations, thirteen parsers | packets begin where their lengths say; parsing what was created gives it back |
| Relay boards (`front`, `back`) | state and lamp of each light, blink timers | on_message, timers | a lamp follows its switch, an indicator blinks and goes out |
| Dashboard (`dashboard/switch-publisher.py`) | last reading of each switch | the check of the switches | changes are published |
| DHCP client (EL `Dhcp.cpp`, `Ethernet.cpp`) | state, lease, its terms and counters, what the chip was given | begin, maintain | works under leases that were acknowledged to it, renews in time, returns |
| Sockets, server, client (EL `socket.cpp`, `EthernetServer.cpp`, `EthernetClient.cpp`) | the chip's sockets, the server's record of its own, objects that hold a socket's index | available, accept, listen, connect, stop, write | sockets are not taken from their users, a server listens, received data is kept |
| UDP (EL `EthernetUdp.cpp`, `socket.cpp`) | the chip's memory, a copy of its fill, the rest of the open packet | begin, parsePacket, read, stop | whole datagrams in order |
| DNS client (EL `Dns.cpp`) | request id, server | connect by name | the address of the host that was asked for |
| not modelled | | `MQTT` wrapper, broker's topic and client lists, `uMQTTBroker`, legacy broker, address parsing, switch sensor, sketches, chip driver | section 6 |

How they interact: `TcpServer` is a singleton that registers one connect callback
with `espconn`; a `TcpSession` registers its callbacks per link and is found again
through the singleton by a hash of address and port; the MQTT server is the owner
above. The MQTT client frames messages into its queue, whose ring the task drains
when `sendTimeout` allows; callbacks and the one-second timer change `connState`
and post the task, which acts on whatever `connState` is when it runs. In the
Ethernet library, servers, clients and UDP objects compete for the sockets of the
chip; DNS runs over a UDP object, DHCP tells the chip which address to use. The
dashboard publishes through the broker to the boards, each of which has subscribed to
the topics of its own lights.

The hazards at their lines are listed in `PROJECT.json`; section 7 has those that
no property is about.

## 2. Modules

| Module | Stands for | Kind |
|---|---|---|
| `TcpServer`, `MCTcpServer`, `MCTcpOwners` | TS `tcp_server.cpp`, `tcp_session.cpp`, headers | model, instances for TLC |
| `ByteFifo` | what `RINGBUF` promises | abstract |
| `RingBuf` | `ringbuf_mqtt.c` | model, refines `ByteFifo` |
| `MessageQueue` | what `QUEUE` promises its callers | abstract |
| `ProtoQueue`, `MCProtoQueue` | `queue.c`, `proto.c`, the callers' loops in `mqtt.c` | model over `ByteFifo`, refines `MessageQueue` |
| `MqttClient` | `mqtt.c` | model, over the abstract queue |
| `Retained` | what the list of retained messages promises | abstract |
| `RetainedList` | `mqtt_broker_retained_list.cpp` | model, refines `Retained` |
| `MqttTopic` | `mqtt_topic.cpp` | model, and MQTT's matching as a reference |
| `MqttMessage` | `mqtt_message.cpp`, the parsers | model |
| `MqttServer` | MS `mqtt_server.cpp`, `tcp_server.cpp`, `tcp_session.cpp` | model |
| `MCClasses` | | instances of `RingBuf` and the four before |
| `EthDhcp`, `MCEthDhcp` | `Dhcp.cpp`, `Ethernet.cpp` | model, instances |
| `EthSocket`, `MCEthSocket` | `socket.cpp`, `EthernetServer.cpp`, `EthernetClient.cpp` | model, instances |
| `Datagrams` | what an `EthernetUDP` object promises | abstract |
| `EthUdp` | `EthernetUdp.cpp` and the receiving half of `socket.cpp` | model, refines `Datagrams` |
| `EthDns` | `Dns.cpp`, `EthernetClient::connect(host)` | model, over what `Datagrams` promises |
| `MCEthDatagrams` | | instances of the two before |
| `LightMaps` | the tables of `front/` and `back/relay-subscriber.py`, the events of `switch-publisher.py` | data |
| `VehicleLights`, `MCVehicleLights` | the message handlers and timers of the boards, the loop of `switch-publisher.py` | model, instances |
| `*_proofs` | of `TcpServer`, `ProtoQueue`, `MqttClient`, `EthDhcp`, `EthSocket`, `VehicleLights`; `EthDatagrams_proofs` of `EthUdp` and `EthDns`; `Classes_proofs` of `RingBuf`, `RetainedList`, `MqttTopic`, `MqttMessage` and `MqttServer` | proofs |

Three layers of the client stack on each other: `RingBuf` implements `ByteFifo`,
`ProtoQueue` is written over `ByteFifo` and implements `MessageQueue`, and the queue
of `MqttClient` behaves as `MessageQueue` allows (a publisher drops the oldest
messages or fails with an empty queue, a response is refused). In the same way
`EthUdp` implements `Datagrams`, and the inbox of `EthDns` is a queue of whole
datagrams.

### TcpServer

A call of the owner and a callback of the firmware are one action each.
`started`, `mode`, `serverOwner`, `clients`, `numberOfClients` are `started_` and
the variant `config_`; `table` is `tcpSessions_`, whose entries record
`sessionValid_`, the listener of each callback, and whether the object was already
deleted. `handle` says what the pointer that the owner was given designates: the
object in the table, one that only the owner keeps alive, or a deleted one.
`listening`, `dialing`, `link`, `reg` are the firmware's: what it was asked for,
and the callbacks it has for each link. `call` is the owner's callback that the
step made.

`shared_ptr(this)` in the callbacks deletes the session at the end of the call.
From there on behaviour is undefined; the model takes two outcomes, going on as if
nothing had happened and a fault that resets the processor. A call through the
null pointer that `getSession` returns always faults.

Left out: message contents, TLS, the `reconnect` error code, the port's place in a
client's configuration (it is never read again), and allocation failures other
than of a session object. An owner calls a session outside a callback only: a call
inside one is the same as a call right after it, since no handler does anything
after the owner's callback but remove the session.

### RingBuf, ByteFifo

Pointers are offsets from `p_o`. `content`, the refinement mapping, reads
`fill_cnt` bytes from `p_r` on.

### ProtoQueue, MessageQueue

A `QUEUE_Puts` or `QUEUE_Gets` is a sequence of steps, one `RINGBUF` call each,
with `phase` and `pos` as its program counter: nothing else runs in between, but a
call that fails half way leaves in the ring what it has put. `op` is the caller:
`MQTT_Publish` and its siblings loop, dropping the oldest message; the responses in
`mqtt_tcpclient_recv` give up; the task takes. `Decode` reads the ring as the
parser will: that is the refinement mapping to a sequence of messages.
`isBegin`, which `PROTO_Init` does not set, reads as either value.

### MqttClient

`connState`, `sendTimeout`, `keepAliveTick`, `reconnectTick` and `pending`
(`pending_msg_type`) are the client's fields; `pCon` and `ip` are what the code asks
of them (allocated, not zero). `timer` and `posted` are the armed timer and the
posted task; `late` says that the timer fired since the post, and the task runs
before it does so again (a second is long for a one-event queue). `conn`, `unsent`,
`dns`, `staleDns` are the firmware's: the connection, the messages it accepted and
has not reported as sent, and DNS requests, also those whose `espconn` was freed.
`wanted`, `triedPublish`, `told` are history for the properties.

A segment with several packets is several `Receive` steps. Left out: contents and
ids of messages, TLS, failed allocation, two clients on one task queue. The owner
makes no call after `MQTT_DeleteClient`.

### RetainedList, Retained

`retained_list` is the array with its holes, `retained_cb` whether somebody
listens; `updated`, `found` and `cbCalled` are what the calls of this step gave
back. Any allocation may fail, and `update_retainedtopic` then leaves behind what
the code leaves: nothing changed, or, if the old data was already freed, no entry.
`clear_retainedtopics` is one action (its callback takes the entries out one after
the other, and nobody else runs). The copy is kept byte by byte in `buf`, the
buffer of the previous copy, with which a restart begins; `Fits` is the code's
check, entry by entry. `deserialize_retainedtopics` is a step per entry, with its
16-bit position; the operands of `buf[pos++] + (buf[pos++] << 8)` are evaluated in
an order that is chosen when a load starts. Nothing in the repository owns the list
yet: the owner of the model makes it after a start and loads into an empty list.

### MqttTopic, MqttMessage, MqttServer

`MqttTopic`: `topic` is the name each object holds. Names are sequences of
characters, of which letters are one: levels are told apart by their lengths.
`isValidName` reads the byte before its array for a name that begins with `+`; it
is any byte. `Equals` is `operator==` with its two tokenisers; `Matches` is the
comment above it.

`MqttMessage`: `message_` grows with every creation, since nothing empties it;
`made` is the history of creations, `read` what the last parser found. The
remaining length is encoded and decoded digit by digit, strings by their length
bytes. A parser reads `(m[i++] << 8) + m[i++]` in either order; what it reads past
the end of the message is `Overrun`. `begins` is history: the byte that each packet
begins with.

`MqttServer`: an older `TcpServer` than that of TS, and the `MqttServer` objects that
start it. `tcpSessions_` only grows. A session registers its callbacks when it is
constructed (`tcp_session.cpp:118-120`), before `addSession` has a place for it or
not: a link that is refused is "aborted", and may still be called back about until it is
"closed". `nullSession` is history: the kinds of links whose callback found
`nullptr`. The callback it stores is called by nobody, so
`MqttServer::handleTcpSessionConnect` and what lies behind it never run.

### EthDhcp

`begin` and `maintain` are sequences of steps, with `pc` for where they are:
idle, in a request (for whom), or between the two halves of `checkLease`. A turn of
`request_DHCP_lease`'s loop is one action: the message it sends or the reply it
reads, and what `EndOfTurn` makes of the state and the time. `asked` is what was
broadcast in this call; servers answer that, late, twice, or never, and replies for
other clients, or to earlier calls, are among what is read. Transaction ids are
counted from the call's first, which is random. Time is in ticks, of which there are
`TicksPerSecond` to a second, since `checkLease` counts seconds and keeps the rest.
`options` says of each option which server it came from: a reply overwrites the address
and those options that it carries, and leaves the others as they were
(`Dhcp.cpp:281-306`), also the identifier of the server. `chip` says whether a chip has
answered; a `begin` without one ends at once. `hw` is what the chip was given; `acked`
and `backing` (the acknowledgement that the client's lease, and the chip's, came
with) and `age` are history.

### EthSocket

`status`, `port` and `unread` are the chip's; `server_port` is the servers' record;
`index` is the socket that each object of the sketch holds. A call reads registers
one after the other, so `available` and `accept` are a step per socket (`ScanOther`
to `ScanQuiet`), and connecting, stopping and writing wait in loops; between any two
steps the chip accepts, delivers, and ends connections (`Network`). A send waits for
room (`SendRoom`) and then for its acknowledgement (`SendCompletes`), both of
which are the peer's to give; only the end of the connection helps the call otherwise. `op`, `kind`,
`by`, `at`, `stat`, `listening`, `found` are the program counter and the locals.
Reading is one action: its memory is modelled by `EthUdp`.

### EthUdp, Datagrams; EthDns

`rd` and `memory` are the chip's receive memory from its read pointer on; `RX_RSR`,
`RX_RD`, `RX_inc` are the record in `state[s]`, which lags behind the chip so as to
save bus transfers; `remaining` is `_remaining`. Memory is counted in units: a
header is one (eight bytes), a payload some. `parsePacket` is a step for each turn of
its discarding loop. The mapping to `Datagrams` finds headers in the memory that
is unread. The sending half is left out.

`EthDns` is a lookup: `connect(host)` to `Dials`, over the queue `inbox` of an open
socket. The network is external: a server that answers requests late, twice or
never, and strangers. Replies are complete messages, of what matters of them (whom
they are from, the id, the name, the kind, the records' types), too short for a
header, or cut off within their questions and answers. `read` fails past the end and leaves what it
was to overwrite, so that a loop over labels may not end (`ReadsForEver`), and an
answer may be found that is not there (`ProcessPart`). `Converted` is what
`inet_aton` leaves of a name that only begins like an address. `Returned` is the detour of the result through `uint16_t`.

### LightMaps, VehicleLights

`LightMaps` is the tables, with the topic that the back board subscribes to and has no
row for (`back_topics`, `back_rows`). In `VehicleLights`, `wire` holds the messages under way
to each board; the publisher looks at one switch in a step. `on_message` deals at
once with the lights that no timer touches; for an indicator it is two more steps
(`SwitchIndicator`, `SetIndicator`), since timer threads run between its statements,
and a timer's thread is two as well: it reads the state (`Expire`) and acts on what
it has read (`Blink`, `EndBlinking`, one step each). A timer of three quarters of a second does not expire
between the handler's start of it and its next statement. `running` says whether a
board's program runs: a message of the flasher raises an IndexError in the back board's
handler (`HandlerFails`), `GPIO.cleanup` lets go of the pins, and the timers, which go on, fail at
their next output (`TimerFails`). `missed` is history: the switches whose last
message was lost.

## 3. Runs

| Run | Checks | Bounds, and why they are enough |
|---|---|---|
| `tcp_sessions` | `ClientBook`, `ListenersMatch`, `SessionLeaves`, `NoUnattendedLink` | two peers and one client place (both compete); two session places with owners that ask for disconnects (both sessions are held at once), or one place (a peer is refused) with owners that ask for broken links and data; a session object that cannot be allocated. `MCTcpOwners` has the two cases, of which a behaviour follows one. The two addresses are symmetric: no definition tells them apart, and the properties are of states and steps |
| `queue_frames` | `ParserSynchronised`, `RefinesQueue`, `CallsReturn` | seven bytes; frames of 3, 4, 6 and 8 bytes with every special byte and one that becomes special when flipped; the last frame never fits |
| `client_calls` | `LinkWhenSending`, `NoDialAfterDisconnect`, `PublishedAfterPublish`, `Reconnects`, `QueueDrains` | two queued and two unsent messages of both types, two DNS requests (a stale and a current one), timeouts of 1 and 2 ticks, so a timeout, a keepalive and a retry can each come before or after any callback |
| `dhcp_lease` | `OnlyGranted`, `LeasedIsUsed`, `RenewOnTime`, `CallReturns`, `AsksAgain` | two servers with an address each, whose replies carry an option and an identifier or neither (so that the parts of two answers can be mixed up), refusals of the first request and of a renewal; two waits fit into a timeout; two ticks to a second and gaps of up to three, so that fractions add up; a lease of four seconds, whose T1 and T2 are two and four |
| `eth_sockets` | `PortAgrees`, `OneListener`, `NeverTaken`, `UnreadKept`, `ListensAgain`, `CallsReturn` | two sockets for a server, a client and a UDP object: they always lack one, and the server can have a connection and listen; peers that need not acknowledge or close |
| `eth_datagrams` | `MemoryAgrees`, `RefinesDatagrams`, `ParseReturns`; `RightAddress`, `WaitsThreeTimes`, `ConnectReturns` | six units of memory for datagrams of one to four, so that two or three compete and the pointers, of seven values, wrap around at any place; a lookup of two names and an address over two ports and two ids, both of which are used again at once, one of the names begins like an address; one datagram in the queue, a timeout of one poll |
| `lights` | `InStep`, `GoesDark`, `Blinks` | one of the two boards is switched on; the side lights, which one switch commands on either, an indicator, and the flasher, which ends the back board's program; one message under way, connections that break; one timer that still runs when a switch is closed again, hence two chains |
| `classes` | `RefinesFifo`; `RefinesRetained`, `LoadRestores`; `NamesAreWellFormed`, `FiltersFindTopics`; `PacketsAreFramed`, `PacketsReadBack`; `CallbacksFindSessions` | four slots: all positions and fills. Two entries, three topics (one empty), data of up to three bytes with zeroes, a buffer of 16 bytes that two entries may or may not fit. All names of `a / + #` of up to six characters and the shortest with `$` and a space, in pairs. Two packets on an object, strings at the limit of 50 and one beyond, a PUBLISH on each side of 128 bytes, a CONNECT with a client id, a SUBACK of 125 and one of 126 grants, identifiers whose two bytes differ. Two places for three peers |

`classes` and `eth_datagrams` hold several components that do not interact: a
behaviour follows one of them (`class`, `follows`), whose properties the others leave
alone.

Runs that find what a comment or document says violated by the code:

| Run | Says | Does |
|---|---|---|
| `tcp_client_told` | `ClientOwnerTold`: the session is returned in the callback in both cases (README.md:60 of TS) | `tcp_server.cpp:319` tests `find()` the wrong way round |
| `tcp_stale_session` | `MessageReachesOwner`: the callback is invoked when a message is received (README.md:101 of TS) | `tcp_server.cpp:358` keeps the old session of a peer that connects again |
| `client_release` | `DisconnectReleases`: the disconnection callback releases the connection (`mqtt.c:867-869`) | the connect callback (538) overwrites the disconnect |
| `dhcp_retries` | `RetriesAfterError`: "this is actually an error, it will retry though" (`Ethernet.cpp:139`) | `checkLease` asks again only in LEASED and START (`Dhcp.cpp:382-394`); a request that runs out of time leaves the client in DISCOVER or REQUEST, one without a socket in REREQUEST |

Deadlock is checked in all runs but two. In those of `MqttClient`, a deleted client
really stops; in `classes`, a message object stops at the bound on its packets.
Types are proved (section 4), and so not checked again by the runs; those of
`EthUdp`, `RetainedList`, `MqttTopic`, `MqttMessage` and `MqttServer` are what their
other properties rest on.

### Fairness

*ProtoQueue*: weak fairness of a call in progress; it runs to completion.

*MqttClient*: weak fairness of the task and the timer (the system runs posted tasks
and armed timers), and of the end of a connection that is being closed (TCP's own
timeout). Strong fairness of `Sent` while `connState` is `MQTT_DATA`: the firmware
reports messages it took, and not always in the instant between a keepalive tick
and the task that handles it. None is assumed of the owner, of connecting, of DNS
answers or of received packets, and so `Reconnects` promises the attempt, not its
success. `QueueDrains` says that the task goes on sending as long as something waits; no
message is promised to arrive, since `espconn_send`'s result is not looked at.

*EthDhcp*: weak fairness of a call's steps and of `Maintain` (the sketch's loop),
strong fairness of time, since it passes also between two replies (each begins a new wait). Strong
fairness of `RebindWithSocket`: a maintain that wants to rebind does not find all
sockets in use every time. None of replies: `AsksAgain` promises the attempt.

*EthSocket*: weak fairness of the steps of a call, and of the end of a connection that is
closing on both sides (the chip's timeouts, `ConnectionTimesOut`); strong fairness
of the sketch's calls of `available`, since other calls come in between. None of
peers: none has to connect, to acknowledge what it is sent, or to close. So
`CallsReturn` and `ListensAgain` except a send that waits for its peer for ever (`AwaitsPeer`).

*EthUdp*, *EthDns*: weak fairness of the steps of a call, and for a lookup that old
requests are at last forgotten: an id is a reading of the clock, and free again
after a minute. None of the server.

*VehicleLights*: weak fairness of the publisher's loop, of each board's handler, and
of each timer and its thread (`Fairness`; the run adds it to the boards it switches on). None of
the driver or of the network.

## 4. Proofs

All theorems hold for every value of the constants that the modules' assumptions
admit (limits, sizes, timeouts, sets of peers, servers, sockets and messages).

* `TcpServer_proofs`. `TypeInv` strengthens `TypeOK` by `ClientBook` (the counter is
  decremented in a branch where only the *map* was looked at, so its type needs
  its meaning) and by `HandlesInTable` (an owner's mapped pointer has an entry, so
  that `Unmapped` reads a session). From it: `SessionBoundCorrect` (the table grows
  by one id, and only below the limit), `ListenersCorrect`, `OwnerIsSetCorrect`,
  `ModeStableCorrect`, `SessionLeavesCorrect`. `NoUnattendedLinkCorrect` assumes that
  ids are unique (`IdOf` injective), as README.md:108 of TS says and a hash only
  makes likely.
* `ProtoQueue_proofs`. `FrameInv` adds to `TypeOK` that begin and end marks alternate
  in the ring (`MarksAlternate`), as far as a parser cares: after every end mark, and at the
  start, the next byte is a begin mark. This survives a `Puts` that fails
  half way, and gives `ParserSynchronised`. For the refinement, `OpenFrame` says what
  the frame that is being put (or was left behind) reads as: the first `pos - 1` bytes of the
  caller's message, escaped and read back. With what a byte at the end of the ring, and
  one fewer at its front, do to `Decode`, each step is one of `MessageQueue` or none:
  `QueueKeepsItsPromise` is `Spec => RefinesQueue`.
* `MqttClient_proofs`. `LinkInv` adds that there is an `espconn` whenever there is a
  connection. `TimerInv` says that an armed timer, and a retry that is due, mean that the owner
  wants a connection: this is what `MQTT_Disconnect` has to break for
  `NoDialCorrect`. `PendingInv` relates a pending PUBLISH to the connection it was
  tried on (`PublishedCorrect`).
* `EthDhcp_proofs`. The address and the options that the chip has and those that the
  client holds are related only between calls, and every reply overwrites some of the latter.
  An acknowledgement `Backs` a configuration that has its address and every option it
  carried; options that it leaves out are not spoken of, since they may be another server's.
  `Installed` says what is known in between: no request is under way in LEASED, and
  halfway `checkLease` a lease is on the chip already, or has just been acknowledged
  and will be. With it `OnlyGranted` and `LeasedIsUsed` are inductive. `RenewalIsOnTime`
  needs to know how the ticks since the lease began are shared out between the seconds
  that the counter has lost and the fraction that `checkLease` keeps.
* `EthSocket_proofs`. `OneListener` rests on what a scan knows (`ScanSeen`): of the
  listeners of its server, it has seen those before the socket in hand, for a socket
  may stop to listen during the scan but none starts. `Recorded` (a socket that
  listens is on record) is the other half of `PortAgrees`; `InHand` says what is still
  true of the socket whose status was read some steps ago (`DataIsKept`).
* `EthDatagrams_proofs`, of `EthUdp`. `UdpInv` says that the memory is laid out as
  datagrams from the place where the next header is due (`Heads` follows the lengths from
  header to header), that the rest of the open one is still before it, and that the record, with
  what was read since it was last written (`RX_inc`), gives the chip's pointer and no more than its fill. Then
  `MemoryIsAgreedOn`, and with what arriving, opening, reading and discarding do to
  the sequence of headers, `DeliversDatagrams`: `UdpSpec => RefinesDatagrams`.
* `EthDatagrams_proofs`, of `EthDns`. While a lookup waits, every request that can still be answered under
  its id, and every answer from the server that has come under it, is for its host
  (`AskedForHost`, `AnsweredForHost`): a new request's id is nobody's whose answer may
  still come, whatever port the answer finds open. Hence `DialsTheHost`; names that begin like an address, and lookups that were
  answered by a reply that was cut off, are carried along as the cases that it excepts.
  `LookupsWaitThreeTimes` assumes the Nano's `int` of 16 bits (`IntMax = 32767`): with another, the
  detour through `uint16_t` gives other results.
* `Classes_proofs`, of `RingBuf`. `RingInv` is type correctness with `PointersAgree`; the pointers
  of a ring say nothing of its content without the fill count. `PutMaps` and
  `GetMaps` then show that a call is a step of the FIFO: `RingImplementsFifo`.
* `Classes_proofs`, of `RetainedList`. `BufferOK` says of every buffer that was written or
  read: each entry is where the entries before it end, as long as the bytes that
  it begins with say. `IsCopy` says that bytes are those of a table, `HasRead` what
  a load in either order of evaluation has made of the first of them. `KeepsThePromise`
  is the refinement, `CopiesRestoreTheList` the property `LoadRestores`.
* `Classes_proofs`, of `MqttServer`. A link that is open, which one that was refused never
  is, has its session in the table (`LinksHaveSessions`), since it was opened with a place there and
  nothing is ever removed.
* `Classes_proofs`, of `MqttTopic`. The functions that walk along a name (`Cutting` and
  `Finding`, the tokenisers) are unfolded a level at a time; `WellPlaced` and
  `LevelsOK` say what the walk has found so far. `NamesHeld` is the invariant:
  a name that is held is empty or was let in by `isValidName`. It gives
  `NamesAlwaysWellFormed`; that two names which MQTT matches are equal for `operator==` then is
  a fact of the two walks, `FiltersAlwaysFindTopics`.
* `Classes_proofs`, of `MqttMessage`. `IsLength` says which digits stand for a remaining
  length, `Lies` where they are: what `RemainingLength` writes, `AfterLength` and `LengthFrom`
  read back. `Framed` says of every packet where it begins (`begins`), with which byte, and how far its
  length leads, and keeps this through every creation, which only appends; a CONNECT falls short
  by the length of its client id. The functions that halve a length or jump from string
  to string are unfolded with `ChainIsFunction` in place of `RecursionIsFunction`. `AloneInv`
  says of a packet that is alone which bytes it has (`HoldsPacket`); for the two
  lists of topics, `StringsAreSent` shows that after `k` topics what
  was sent so far, followed by what the parser reads from there on, is what it reads from the start.
* `VehicleLights_proofs`. `HandlerBusy` says that the timer the handler has just started
  is still running when it sets the state: `TimersRun`. For `LightsInStep`, `Told` says of
  every switch whose last message was not lost that the last one *under way* carries
  what was published, or, if none is, that the state does; `Glows` says that a light
  with state ON that no timer switches is lit. The tables enter only through their
  codes: no topic switches an indicator on (`IndicatorsAreTimed`).

A theorem that says what a whole memory, buffer or name reads as needs induction over data.
The library's induction theorems cannot be used (they take an operator as a parameter), so
these proofs argue by the least counterexample: `NumberInduction` says that a set of numbers
with 0 and with every successor of a member is all of them. What a recursive function returns is its own equation only
where there is such a function; `RecursionIsFunction` shows that there is.

The assumptions on constants are those of the modules: limits, sizes and timeouts are numbers (some of them
not 0), messages and names are sequences of bytes and characters; `NothingIsNoEntry` (the
mark of a hole in `retained_list` is no entry); `MaxTopicLength` is at
most 128, the size of the array a name is kept in (`mqtt_topic.hpp`); `MaxStringLength`
(MAX_TOPIC_LENGTH, 50) at most 255, since the high byte of a topic's length is written
as 0 (`mqtt_message.cpp:196`); identifiers have two bytes. TLC evaluates all of them.

Only model-checked: all liveness (`CallsReturn` of two modules, `Reconnects`,
`QueueDrains`, `CallReturns`, `AsksAgain`, `ListensAgain`, `ParseReturns`,
`ConnectReturns`, `GoesDark`, `Blinks`), which is out of the prover's reach.

## 5. What the checks do not say

* `TcpServer`: the code does use deleted sessions (`tcp_session.cpp:268`), and passes
  the reconnect callback the listener that was registered for disconnects (263).
* `OnlyGranted`: the address is that of one acknowledgement, and so is every option which
  that acknowledgement carried. A gateway or a DNS server that it left out may be another
  server's, from an offer that came late (`Dhcp.cpp:281-306`). And it is not about time: a client whose renewal is refused
  keeps the chip on the old address until it has asked again (`Dhcp.cpp:92`), against
  which no statement of the code stands.
* `RenewOnTime` is about T1. The seconds that a failed renewal takes are not taken
  off the counter for rebinding (`Dhcp.cpp:111`).
* `FiltersFindTopics`: a filter also equals names that are longer or shorter than what
  it should match ("a/+/c" equals "a/b"), against the comment at
  `mqtt_topic.cpp:228-249`.
* `NamesAreWellFormed` leaves out one rule of `isValidName`, because the code breaks it: a
  `+` "must be preceded by a '/'" (`mqtt_topic.cpp:116`). Where it begins the name the code looks at
  the byte in front of the array (208), and takes "+/a" when that is a slash.
* `PacketsAreFramed` says of a CONNECT that its length, a constant (`mqtt_message.cpp:36`),
  falls short by exactly the client id; a SUBACK of 126 grants or more, whose length is cut
  to a byte (209), it leaves out. `PacketsReadBack` leaves out both, and PUBLISH, whose writer
  and parser disagree (92-96); where operands are evaluated from right to left, also the lists of topics,
  and identifiers come back with their bytes swapped.
* `CallbacksFindSessions` is about links that were given a place. One that was refused has
  its callbacks registered too, and if the firmware still calls one it goes through a null
  pointer (`tcp_server.cpp:202-204`, `tcp_session.cpp:57`). Sessions of the MQTT server are never
  removed, so that after `MAX_TCP_SESSIONS` peers no new one is served.
* `NoDialAfterDisconnect` excepts the answer to a DNS request: it dials although the client
  was disconnected meanwhile (`mqtt.c:83`).
* `CallsReturn` of `EthSocket` excepts a send to a peer that keeps its window shut, or does not
  acknowledge, and does not close either: `socketSend` waits without a timeout
  (`socket.cpp:435-458`).
* `RightAddress` and `ConnectReturns`: a reply that is cut off within its questions or answers can
  be read for ever (`Dns.cpp:272-317`) or yield a part of an address; `inet_aton` leaves what it
  has converted of a name such as "1.pool.ntp.org" (`Dns.cpp:71`), which is dialled when the
  lookup then fails.
* `InStep` is about lights that a switch commands alone, on a board whose program runs. The
  flasher ends the back board's (`back/relay-subscriber.py:32`, 124): its lights stay dark. Messages about other topics
  switch lights too ("ASC": on with another), and the last of them wins. The brake
  lights follow no switch: `switch-publisher.py:55` publishes `topic/lights/brakes`,
  `back/relay-subscriber.py:25` subscribes to `topic/lights/brake`. An indicator that was
  just switched on may be switched off by an old timer (`relay-subscriber.py:84`).
* `NeverTaken` and `PortAgrees`: an object keeps the index of its socket after the
  connection is over, and its `stop()` or `write()` then acts on whoever has the socket.

## 6. Not modelled

* `MQTT` wrapper: forwards. Its destructor (`MQTT.cpp:131`) only posts the deletion.
* The broker's topic and client lists and `uMQTTBroker` are half-way through a
  refactoring and do not compile; the legacy broker in `to-delete` has lost the
  header of its types. There is no program to be faithful to.
* `utils.c`: parses addresses; which way `UTILS_StrToIP` goes is a choice of
  `MqttClient`.
* `MqttSession` and the message handlers of MS: nothing reaches them (see
  `MqttServer`), and the handlers are empty.
* The sending half of UDP, an offset into the chip's buffer and three register
  accesses; the chip's driver (`w5100.cpp`), which is below the models' chip.
* Switch sensor: the reading and publishing is commented out (`main.cpp:82-101`).
  Sketches; the other programs of the dashboard, which try connections out.

What a continuation would take up: `available()` with two servers (the proofs hold for
any number, the run has one); the client's refinement of its owner's view (connected, told,
disconnected).

## 7. Further hazards

Seen while reading, and covered by no property:

* Session ids are hashes of "address:port": two peers may share one (`tcp_session.cpp:301`).
  A dial that fails is reported to nobody (`tcp_server.cpp:200`).
* Packets that follow anything but a PUBLISH in one segment are dropped (`mqtt.c:417`). A
  keepalive overwrites the type of the message that is being sent (120). The partial
  frames of refused responses can fill the ring (587). Two clients share a task queue of
  one event (837). A host in the DNS cache is called back by nobody (902).
* DHCP: a server's address, once known, is not forgotten within a call, and another
  server's offers then carry its name (`Dhcp.cpp:298-306`); option lengths below 4 make
  the count of what is left to read wrap around (289, 295).
* UDP: `socketBufferData` ignores its offset when it looks for room (`socket.cpp:488-493`); after a
  `begin` that found no socket, an object still has the rest of its last packet.
* DNS: any datagram ends a lookup, a stranger's too.
* Dashboard: an exception in the check of the switches stops its timer for good
  (`switch-publisher.py:106-107`).
