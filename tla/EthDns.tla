------------------------------- MODULE EthDns --------------------------------
(***************************************************************************)
(* EthernetClient::connect with the name of a host, and the DNSClient that *)
(* looks it up (arduino-projects/nano with ethernet/lib/Ethernet-2.0.2/    *)
(* src/Dns.cpp, EthernetClient.cpp).                                       *)
(*                                                                         *)
(* The client's EthernetUDP object is what Datagrams promises: a queue of  *)
(* whole datagrams.  The server answers late, twice, or never, strangers   *)
(* send datagrams too, and one of an earlier lookup may reach the socket   *)
(* of a later one, which is open on one of only 16 ports.  Replies are     *)
(* complete messages, cut off within their questions and answers, or too   *)
(* short to hold a header.                                                 *)
(***************************************************************************)
EXTENDS Integers, Sequences, SequencesExt

CONSTANTS Names, Numeric,   \* host names, and those that are an address
          Leading,          \* names that begin like one: "1.pool.ntp.org"
          Server, Stranger, \* senders of datagrams
          NoServer,         \* no DNS server is configured
          NoAddress,        \* the address 0.0.0.0
          PartAddress,      \* an address of which only some bytes were written
          Ports,            \* 1024 + (millis() & 0xF)
          RequestIds,       \* what millis() may be
          IntMax,           \* the largest int: 32767 on an AVR
          MaxPolls,         \* bound: parsePacket calls before the timeout is over
          MaxQueue          \* bound: datagrams in the queue

ASSUME DnsConstantsOK ==
  /\ Numeric \subseteq Names /\ Leading \subseteq Names \ Numeric
  /\ Stranger # Server
  /\ NoServer \notin {Server, Stranger} /\ NoAddress \notin Names
  /\ PartAddress \notin Names \cup {NoAddress}
  /\ IntMax \in {32767, 2147483647}
  /\ MaxPolls \in Nat /\ MaxQueue \in Nat

SUCCESS == 1
TIMED_OUT == -1
INVALID_SERVER == -2
TRUNCATED == -3
INVALID_RESPONSE == -4

VARIABLES
  dnsOp,            \* where connect(host) is: "idle", "lookup", "send", "wait", "reading", "dial"
  host,             \* aHostname
  iDNSServer, iRequestId,
  port, inbox,      \* iUdp: its port, and the datagrams that nobody has read
  ret,              \* getHostByName's result
  aResult,          \* the address it left: a host's, a part of one, or NoAddress
  waits, polls,     \* wait_retries, and the polls of this wait
  came,             \* what was read in this lookup: "nothing", a "whole" datagram, or
                    \* a "part", a response that was cut off
  asked,            \* the requests whose answers may still come
  dialled           \* the address that connect went on to dial, or NoAddress

udp  == <<port, inbox>>
turn == <<waits, polls, came>>
dnsVars == <<dnsOp, host, iDNSServer, iRequestId, udp, ret, aResult, turn, asked, dialled>>

(* A reply: who it is from, the request it answers, for which name, and    *)
(* its flags and answers.                                                  *)
Answers == {<<>>, <<"A">>, <<"other", "A">>, <<"other">>, <<"weird", "A">>}
Reply ==
  [from : {Server, Stranger}, id : RequestIds, name : Names,
   kind : {"short", "query", "error", "cut"}, answers : {<<>>}]
    \cup [from : {Server, Stranger}, id : RequestIds, name : Names,
          kind : {"response"}, answers : Answers]

DnsInit ==
  /\ dnsOp = "idle" /\ host \in Names
  /\ iDNSServer = NoServer /\ iRequestId \in RequestIds
  /\ port \in Ports /\ inbox = <<>>
  /\ ret = 0 /\ aResult = NoAddress
  /\ waits = 0 /\ polls = 0 /\ came = "nothing"
  /\ asked = {} /\ dialled = NoAddress

------------------------------------------------------------------------------
(* connect(host): the server is the one that Ethernet knows, if any.       *)
connect(h) ==
  /\ dnsOp = "idle"
  /\ dnsOp' = "lookup" /\ host' = h
  /\ iDNSServer' \in {Server, NoServer}
  /\ ret' = 0 /\ aResult' = NoAddress /\ dialled' = NoAddress
  /\ came' = "nothing"
  /\ UNCHANGED <<iRequestId, udp, waits, polls, asked>>

(* getHostByName returns: the UDP socket is stopped, and what was in it is *)
(* lost.                                                                   *)
Stopped == inbox' = <<>> /\ UNCHANGED port

(* inet_aton leaves what it has converted when it meets the rest.          *)
Converted == IF host \in Leading THEN PartAddress ELSE aResult

ResolvesNumber ==
  /\ dnsOp = "lookup" /\ host \in Numeric
  /\ dnsOp' = "dial" /\ ret' = SUCCESS /\ aResult' = host
  /\ UNCHANGED <<host, iDNSServer, iRequestId, udp, turn, asked, dialled>>

HasNoServer ==
  /\ dnsOp = "lookup" /\ host \notin Numeric /\ iDNSServer = NoServer
  /\ dnsOp' = "dial" /\ ret' = INVALID_SERVER /\ aResult' = Converted
  /\ UNCHANGED <<host, iDNSServer, iRequestId, udp, turn, asked, dialled>>

HasNoSocket ==
  /\ dnsOp = "lookup" /\ host \notin Numeric /\ iDNSServer # NoServer
  /\ dnsOp' = "dial" /\ aResult' = Converted
  /\ UNCHANGED <<host, iDNSServer, iRequestId, udp, ret, turn, asked, dialled>>

OpensSocket ==
  /\ dnsOp = "lookup" /\ host \notin Numeric /\ iDNSServer # NoServer
  /\ dnsOp' = "send" /\ aResult' = Converted
  /\ port' \in Ports /\ inbox' = <<>>
  /\ UNCHANGED <<host, iDNSServer, iRequestId, ret, turn, asked, dialled>>

Outstanding == {q.id : q \in asked} \cup {r.id : r \in Range(inbox)}

(* BuildRequest, beginPacket and endPacket: the request goes out, under an *)
(* id that no request has whose answer may still come (an id is used again *)
(* after 65 seconds) ...                                                   *)
SendsRequest ==
  /\ dnsOp = "send"
  /\ iRequestId' \in RequestIds \ Outstanding
  /\ asked' = asked \cup {[id |-> iRequestId', port |-> port, name |-> host]}
  /\ dnsOp' = "wait" /\ ret' = TIMED_OUT
  /\ waits' = 0 /\ polls' = 0 /\ UNCHANGED came
  /\ UNCHANGED <<host, iDNSServer, udp, aResult, dialled>>

(* ... or the chip finds nobody to send it to.                             *)
SendTimesOut ==
  /\ dnsOp = "send"
  /\ iRequestId' \in RequestIds \ Outstanding
  /\ dnsOp' = "dial" /\ ret' = 0
  /\ Stopped
  /\ UNCHANGED <<host, iDNSServer, aResult, turn, asked, dialled>>

------------------------------------------------------------------------------
(* ProcessResponse: what becomes of a datagram.                            *)
Meaning(r) ==
  LET first == SelectInSeq(r.answers, LAMBDA a : a # "other") IN
  CASE r.kind = "error" -> -5
    [] r.answers = <<>> -> -6
    [] first = 0 -> -10
    [] r.answers[first] = "weird" -> -9
    [] OTHER -> SUCCESS

(* Mutant of Processed: a response to any request will do.                 *)
ProcessedForAny(r) ==
  IF r.from # iDNSServer THEN INVALID_SERVER
  ELSE IF r.kind = "short" THEN TRUNCATED
  ELSE IF r.kind = "query" THEN INVALID_RESPONSE
  ELSE Meaning(r)

Processed(r) ==
  IF r.from # iDNSServer THEN INVALID_SERVER
  ELSE IF r.kind = "short" THEN TRUNCATED
  ELSE IF r.id # iRequestId \/ r.kind = "query" THEN INVALID_RESPONSE
  ELSE Meaning(r)

(* Mutant of Returned: the result where int is wider than 16 bits.         *)
ReturnedWide(r) == r % 65536

(* Its result is returned as a uint16_t, and assigned to an int.           *)
Returned(r) ==
  LET word == r % 65536 IN
  IF word > IntMax THEN word - 65536 ELSE word

(* Mutant of Counted: the waits are not counted.                           *)
NotCounted == waits

Counted == waits + 1

WaitsOn(r) == Counted < 3 /\ r = TIMED_OUT

(* Nothing has come: parsePacket is called again after a delay, ...        *)
Polls ==
  /\ dnsOp = "wait" /\ inbox = <<>> /\ polls < MaxPolls
  /\ polls' = polls + 1
  /\ UNCHANGED <<dnsOp, host, iDNSServer, iRequestId, udp, ret, aResult, waits, came, asked, dialled>>

(* ... until the timeout is over, up to three times.                       *)
WaitIsOver ==
  /\ dnsOp = "wait" /\ inbox = <<>> /\ polls = MaxPolls
  /\ ret' = Returned(TIMED_OUT)
  /\ IF WaitsOn(ret') THEN waits' = Counted /\ polls' = 0 /\ UNCHANGED <<dnsOp, udp, came>>
     ELSE dnsOp' = "dial" /\ Stopped /\ waits' = Counted /\ UNCHANGED <<polls, came>>
  /\ UNCHANGED <<host, iDNSServer, iRequestId, aResult, asked, dialled>>

(* Any datagram ends the waiting, whatever becomes of it.                  *)
Takes(what) == dnsOp = "wait" /\ inbox # <<>> /\ came' = what

(* A response to this request that ends within its questions or answers.   *)
Cut(r) == r.from = iDNSServer /\ r.id = iRequestId /\ r.kind = "cut"

ProcessResponse ==
  /\ Takes("whole") /\ ~Cut(Head(inbox))
  /\ LET r == Head(inbox) IN
     /\ ret' = Returned(Processed(r))
     /\ aResult' = IF Processed(r) = SUCCESS THEN r.name ELSE aResult
  /\ dnsOp' = "dial" /\ Stopped
  /\ UNCHANGED <<host, iDNSServer, iRequestId, waits, polls, asked, dialled>>

(* read() fails at the end of the datagram and leaves what it was to       *)
(* overwrite.  The loops over the labels of a name then see the same       *)
(* length for ever; or the answer's type, class and length are those of    *)
(* an earlier one, or of nothing, ...                                      *)
ReadsForEver ==
  /\ Takes("part") /\ Cut(Head(inbox))
  /\ dnsOp' = "reading" /\ inbox' = Tail(inbox)
  /\ UNCHANGED <<host, iDNSServer, iRequestId, port, ret, aResult, waits, polls, asked, dialled>>

ReadsOn == dnsOp = "reading" /\ UNCHANGED dnsVars

(* ... and an address may be found, of which less than four bytes came.    *)
ProcessPart ==
  /\ Takes("part") /\ Cut(Head(inbox))
  /\ \/ ret' \in {Returned(-9), Returned(-10)} /\ UNCHANGED aResult
     \/ ret' = SUCCESS /\ aResult' \in {aResult, PartAddress}
  /\ dnsOp' = "dial" /\ Stopped
  /\ UNCHANGED <<host, iDNSServer, iRequestId, waits, polls, asked, dialled>>

(* connect(ip): an address is dialled if the lookup did not return 0, and  *)
(* if it is one.                                                           *)
Dials ==
  /\ dnsOp = "dial"
  /\ dnsOp' = "idle"
  /\ dialled' = IF ret = 0 THEN NoAddress ELSE aResult
  /\ waits' = 0 /\ polls' = 0
  /\ UNCHANGED <<host, iDNSServer, iRequestId, udp, ret, aResult, came, asked>>

ClientStep ==
  \/ ResolvesNumber \/ HasNoServer \/ HasNoSocket \/ OpensSocket
  \/ SendsRequest \/ SendTimesOut \/ Polls \/ WaitIsOver
  \/ ProcessResponse \/ ReadsForEver \/ ReadsOn \/ ProcessPart \/ Dials

------------------------------------------------------------------------------
(* The network: a datagram reaches the port that it is sent to, if the     *)
(* socket is open.                                                         *)
Reaches(p, r) ==
  /\ dnsOp \in {"send", "wait", "reading"} /\ p = port /\ Len(inbox) < MaxQueue
  /\ inbox' = Append(inbox, r)

ServerAnswers(q) ==
  /\ \E r \in Reply :
       /\ r.from = Server /\ r.id = q.id /\ r.name = q.name
       /\ Reaches(q.port, r)
  /\ UNCHANGED <<dnsOp, host, iDNSServer, iRequestId, port, ret, aResult, turn, asked, dialled>>

StrangerSends ==
  /\ \E r \in Reply : r.from = Stranger /\ Reaches(port, r)
  /\ UNCHANGED <<dnsOp, host, iDNSServer, iRequestId, port, ret, aResult, turn, asked, dialled>>

(* No answer to a request is on its way any more.                          *)
Forgotten(q) ==
  /\ dnsOp # "wait" \/ q.id # iRequestId
  /\ asked' = asked \ {q}
  /\ UNCHANGED <<dnsOp, host, iDNSServer, iRequestId, udp, ret, aResult, turn, dialled>>

DnsNext ==
  \/ \E h \in Names : connect(h)
  \/ ClientStep
  \/ \E q \in asked : ServerAnswers(q) \/ Forgotten(q)
  \/ StrangerSends

DnsSpec == DnsInit /\ [][DnsNext]_dnsVars

(* A call goes on, and old requests are forgotten at last.                 *)
FairDnsSpec == DnsSpec /\ WF_dnsVars(ClientStep) /\ WF_dnsVars(\E q \in asked : Forgotten(q))

------------------------------------------------------------------------------
(* Properties                                                              *)

(* Whichever answers come late, twice, or from elsewhere, connect dials    *)
(* the address of the host it was asked for, or none: iRequestId ties a    *)
(* response to its question although the socket's port is soon reused.     *)
(* But for a name that begins like an address, and after a response that   *)
(* was cut off, it may dial the part of an address that was left behind.   *)
RightAddress ==
  \/ dialled \in {host, NoAddress}
  \/ dialled = PartAddress /\ (host \in Leading \/ came = "part")

(* A lookup that no datagram has answered is given up only after three     *)
(* waits: TIMED_OUT survives the detour through ProcessResponse's unsigned *)
(* result.                                                                 *)
WaitsThreeTimes ==
  [][dnsOp = "wait" /\ dnsOp' = "dial" /\ came' = "nothing" => waits' = 3]_dnsVars

(* Every connect returns, whichever answers come or do not, unless the     *)
(* response to its request is cut off: then it may read for ever.          *)
ConnectReturns ==
  dnsOp # "idle" ~> dnsOp = "idle" \/ (dnsOp = "reading" /\ came = "part")
==============================================================================
