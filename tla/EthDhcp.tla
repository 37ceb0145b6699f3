------------------------------- MODULE EthDhcp -------------------------------
(***************************************************************************)
(* The DHCP client of the Ethernet library and the two calls of            *)
(* EthernetClass that drive it (arduino-projects/nano with ethernet/lib/   *)
(* Ethernet-2.0.2/src/Dhcp.cpp, Ethernet.cpp).                             *)
(*                                                                         *)
(* begin() and maintain() block: they send, wait for replies and give up   *)
(* after a time, so a call is a sequence of steps between which time       *)
(* passes and replies arrive.  The network is external: what was sent is   *)
(* kept in "asked", and any honest answer to it may arrive at any time     *)
(* while the call lasts, never, late or more than once, among the replies  *)
(* meant for other clients (they are broadcast).  The transaction ids of a *)
(* call start at a random number: they are counted from it, and the id of  *)
(* a reply to an earlier call is out of range, or in it by chance.         *)
(*                                                                         *)
(* Time goes by in ticks, TicksPerSecond of them to a second, because the  *)
(* lease is counted in seconds of which the fraction is carried over.      *)
(***************************************************************************)
EXTENDS Integers, FiniteSets

CONSTANTS Servers, Ips, NoIp, NoServer,
          OffersOf,        \* the addresses that a server may lease to us
          ForeignIp,       \* an address leased to another client
          Terms,           \* the terms in a reply: lease, t1, t2; 0: no such option
          Options,         \* subnetMask, routersOnSubnet, dns
          ServerIdentifier,
          Carried,         \* the sets of these that a reply may bring
          DefaultLease,    \* DEFAULT_LEASE
          Timeout, ResponseTimeout,   \* in ticks
          TicksPerSecond,
          MaxXid,          \* bound: a server refuses a request up to this id
          MaxGap           \* bound: ticks between two rounds of the sketch's loop

ASSUME DhcpConstantsOK ==
  /\ NoIp \notin Ips /\ ForeignIp \notin Ips \cup {NoIp} /\ NoServer \notin Servers
  /\ OffersOf \in [Servers -> SUBSET Ips]
  /\ Terms \subseteq [lease : Nat, t1 : Nat, t2 : Nat]
  /\ ServerIdentifier \notin Options
  /\ Carried \subseteq SUBSET (Options \cup {ServerIdentifier})
  /\ DefaultLease \in Nat \ {0}
  /\ Timeout \in Nat /\ ResponseTimeout \in Nat
  /\ TicksPerSecond \in Nat \ {0}
  /\ MaxXid \in Nat /\ MaxGap \in Nat

VARIABLES
  chip,                     \* W5100Class::initialized
  started,                  \* EthernetClass::_dhcp points to the client
  state, xid,               \* _dhcp_state, _dhcpTransactionId from the initial one
  localIp, serverIp,        \* _dhcpLocalIp, _dhcpDhcpServerIp
  options,                  \* of each option held, the server it came from
  lease, t1, t2,            \* _dhcpLeaseTime, _dhcpT1, _dhcpT2
  renewIn, rebindIn,        \* _renewInSec, _rebindInSec
  pc,                       \* idle; in a request for begin, renew or rebind; or
                            \* at the check for rebinding, halfway checkLease
  rc,                       \* what the last maintain() since begin() returned, or
                            \* will return
  spent, waited,            \* ticks of the call, of the wait for a reply
  sinceCheck,               \* ticks since _lastCheckLeaseMillis
  hw,                       \* the address and the options the chip was given (the
                            \* DNS server is kept beside it)
  asked,                    \* the requests of the call under way
  acked, backing,           \* history: the acknowledgement to us that the lease held
                            \* came with, and the one behind what the chip was given
  age                       \* history: the ticks gone by in the current lease

held     == <<localIp, serverIp, options>>
terms    == <<lease, t1, t2>>
counters == <<renewIn, rebindIn>>
client   == <<state, xid, held, terms, counters>>
time     == <<spent, waited, sinceCheck, age>>
vars     == <<chip, started, client, pc, rc, time, hw, asked, acked, backing>>

States  == {"START", "DISCOVER", "REQUEST", "LEASED", "REREQUEST"}
Calling == {"begin", "renew", "rebind"}
AnyIp   == Ips \cup {ForeignIp, NoIp}
Origins == [Options -> Servers \cup {NoServer}]
Config  == [ip : AnyIp, options : Origins]
Acks    == [ip : AnyIp, server : Servers \cup {NoServer},
            carries : SUBSET (Options \cup {ServerIdentifier})]
NoAck   == [ip |-> NoIp, server |-> NoServer, carries |-> {}]
Nowhere == [o \in Options |-> NoServer]

Requests == [type : {"DISCOVER"}, xid : Nat]
       \cup [type : {"REQUEST"}, xid : Int, ip : AnyIp, server : Servers \cup {NoServer}]

TypeOK ==
  /\ chip \in BOOLEAN /\ started \in BOOLEAN
  /\ state \in States /\ xid \in Nat
  /\ localIp \in AnyIp /\ serverIp \in Servers \cup {NoServer}
  /\ options \in Origins
  /\ lease \in Nat /\ t1 \in Nat /\ t2 \in Nat
  /\ renewIn \in Nat /\ rebindIn \in Nat
  /\ pc \in Calling \cup {"idle", "check"} /\ rc \in 0..4
  /\ spent \in Nat /\ waited \in Nat /\ sinceCheck \in Nat /\ age \in Nat
  /\ hw \in Config /\ acked \in Acks /\ backing \in Acks
  /\ asked \subseteq Requests

Init ==
  /\ chip = FALSE /\ started = FALSE /\ state = "START" /\ xid = 0
  /\ localIp = NoIp /\ serverIp = NoServer /\ options = Nowhere
  /\ lease = 0 /\ t1 = 0 /\ t2 = 0 /\ renewIn = 0 /\ rebindIn = 0
  /\ pc = "idle" /\ rc = 0
  /\ spent = 0 /\ waited = 0 /\ sinceCheck = 0 /\ age = 0
  /\ hw = [ip |-> NoIp, options |-> Nowhere]
  /\ asked = {} /\ acked = NoAck /\ backing = NoAck

------------------------------------------------------------------------------
(* request_DHCP_lease, before its loop: a socket is opened; the random     *)
(* initial transaction id counts as zero.                                  *)
StartRequest(call) ==
  /\ pc' = call
  /\ xid' = 0 /\ asked' = {}
  /\ spent' = 0 /\ waited' = 0

(* No socket is left, or no chip is there: the request fails before        *)
(* anything else.                                                          *)
NoSocket == UNCHANGED <<xid, asked, spent, waited>>

(* What lease there was is over (history).                                 *)
LeaseOver == age' = 0 /\ acked' = NoAck

(* reset_DHCP_lease: the five addresses are zeroed.                        *)
ResetLease == localIp' = NoIp /\ serverIp' = NoServer /\ options' = Nowhere

(* The chip is given what the client holds.                                *)
Install == hw' = [ip |-> localIp', options |-> options'] /\ backing' = acked'

(* EthernetClass::begin(mac, timeout, responseTimeout): no chip answers;   *)
(* one that did is not asked again (W5100Class::init) ...                  *)
BeginWithoutChip ==
  /\ pc = "idle" /\ ~chip
  /\ started' = TRUE
  /\ UNCHANGED <<chip, client, pc, rc, time, hw, asked, acked, backing>>

(* ... or beginWithDHCP follows.                                           *)
Begin ==
  /\ pc = "idle"
  /\ chip' = TRUE /\ started' = TRUE
  /\ lease' = 0 /\ t1' = 0 /\ t2' = 0
  /\ ResetLease
  /\ state' = "START"
  /\ hw' = [hw EXCEPT !.ip = NoIp]
  /\ \/ StartRequest("begin")
     \/ pc' = "idle" /\ NoSocket
  /\ LeaseOver
  /\ rc' = 0 /\ backing' = NoAck
  /\ UNCHANGED <<counters, sinceCheck>>

(* Mutant of CountDown: the counters run out at their time, not early.     *)
CountDownExactly(left, seconds) == left - seconds

(* checkLease: the seconds gone by are taken off the counters, which run   *)
(* out early rather than late.                                             *)
CountDown(left, seconds) ==
  IF left < 2 * seconds THEN 0 ELSE left - seconds

(* Mutant of KeepFraction: the part of a second gone by is lost.           *)
LoseFraction(ticks) == 0

KeepFraction(ticks) == ticks % TicksPerSecond

CountTime ==
  LET seconds == sinceCheck \div TicksPerSecond IN
  IF seconds >= 1
  THEN /\ sinceCheck' = KeepFraction(sinceCheck)
       /\ renewIn' = CountDown(renewIn, seconds)
       /\ rebindIn' = CountDown(rebindIn, seconds)
  ELSE UNCHANGED <<sinceCheck, counters>>

RenewDue == renewIn' = 0 /\ state = "LEASED"

(* EthernetClass::maintain, checkLease: the time is counted, and a lease   *)
(* that is due for it is renewed.                                          *)
MaintainIdle ==
  /\ ~RenewDue
  /\ pc' = "check" /\ rc' = 0
  /\ NoSocket /\ UNCHANGED <<state, age, acked>>

RenewWithSocket ==
  /\ RenewDue /\ chip
  /\ state' = "REREQUEST"
  /\ StartRequest("renew") /\ LeaseOver
  /\ rc' = 0

RenewWithoutSocket ==
  /\ RenewDue
  /\ state' = "REREQUEST"
  /\ pc' = "check" /\ rc' = 1
  /\ NoSocket /\ LeaseOver

Maintain ==
  /\ pc = "idle" /\ started
  /\ CountTime
  /\ MaintainIdle \/ RenewWithSocket \/ RenewWithoutSocket
  /\ UNCHANGED <<chip, started, held, terms, hw, backing>>

(* Mutant of RebindDue: only a lease is rebound, not a search for one.     *)
RebindOnlyLease == rebindIn = 0 /\ state = "LEASED"

RebindDue == rebindIn = 0 /\ state \in {"LEASED", "START"}

(* checkLease, second half: a lease, or a search for one, that is due for  *)
(* rebinding starts from nothing ...                                       *)
RebindWithSocket ==
  /\ pc = "check" /\ RebindDue /\ chip
  /\ ResetLease /\ state' = "START"
  /\ StartRequest("rebind") /\ LeaseOver
  /\ UNCHANGED <<chip, started, rc, terms, counters, sinceCheck, hw, backing>>

RebindWithoutSocket ==
  /\ pc = "check" /\ RebindDue
  /\ ResetLease /\ state' = "START"
  /\ pc' = "idle" /\ rc' = 3
  /\ NoSocket /\ LeaseOver
  /\ UNCHANGED <<chip, started, terms, counters, sinceCheck, hw, backing>>

(* ... otherwise maintain() returns, having passed a renewed lease on.     *)
MaintainReturns ==
  /\ pc = "check" /\ ~RebindDue
  /\ pc' = "idle"
  /\ UNCHANGED held
  /\ UNCHANGED <<chip, started, state, xid, terms, counters, rc, time, asked, acked>>
  /\ IF rc = 2 THEN Install ELSE UNCHANGED <<hw, backing>>

------------------------------------------------------------------------------
(* The end of request_DHCP_lease: the socket is closed, the time of the    *)
(* lease starts, and the call goes on with what it does with the result.   *)

(* Mutant of Done: the outcome of a rebinding does not reach the chip.     *)
DoneRebindIgnored(ok) ==
  /\ xid' = 0 /\ asked' = {} /\ spent' = 0 /\ waited' = 0
  /\ sinceCheck' = 0 /\ age' = 0
  /\ pc' = IF pc = "renew" THEN "check" ELSE "idle"
  /\ rc' = CASE pc = "begin" -> rc
             [] pc = "renew" -> IF ok THEN 2 ELSE 1
             [] pc = "rebind" -> IF ok THEN 4 ELSE 3
  /\ IF ok /\ pc = "begin" THEN Install ELSE UNCHANGED <<hw, backing>>

Done(ok) ==
  /\ xid' = 0 /\ asked' = {} /\ spent' = 0 /\ waited' = 0
  /\ sinceCheck' = 0 /\ age' = 0
  /\ pc' = IF pc = "renew" THEN "check" ELSE "idle"
  /\ rc' = CASE pc = "begin" -> rc
             [] pc = "renew" -> IF ok THEN 2 ELSE 1
             [] pc = "rebind" -> IF ok THEN 4 ELSE 3
  /\ IF ok /\ pc # "renew" THEN Install ELSE UNCHANGED <<hw, backing>>

(* Mutant of TimeUp: the time is taken from the start of the turn.         *)
TimeUpInTurn == waited > Timeout

TimeUp == spent > Timeout

(* The end of a turn of its loop: a lease, or the time is up, or again.    *)
EndOfTurn ==
  IF state' = "LEASED" THEN Done(TRUE)
  ELSE IF TimeUp THEN Done(FALSE)
  ELSE waited' = 0 /\ UNCHANGED <<spent, sinceCheck, age, pc, rc, hw, backing>>

Continues == state' # "LEASED" /\ ~TimeUp

(* send_DHCP_MESSAGE: the request is broadcast, whether or not it arrives. *)
Sent(q) == asked' = IF Continues THEN asked \cup {q} ELSE {}

RequestMessage(id) == [type |-> "REQUEST", xid |-> id, ip |-> localIp', server |-> serverIp']

(* request_DHCP_lease, a turn in START or REREQUEST: a message goes out.   *)
SendDiscover ==
  /\ pc \in Calling /\ state = "START"
  /\ state' = "DISCOVER"
  /\ Sent([type |-> "DISCOVER", xid |-> xid + 1])
  /\ Continues => xid' = xid + 1
  /\ UNCHANGED <<chip, started, held, terms, counters, acked>>
  /\ EndOfTurn

SendRenewal ==
  /\ pc \in Calling /\ state = "REREQUEST"
  /\ state' = "REQUEST"
  /\ UNCHANGED held
  /\ Sent(RequestMessage(xid + 1))
  /\ Continues => xid' = xid + 1
  /\ UNCHANGED <<chip, started, terms, counters, acked>>
  /\ EndOfTurn

Waiting == pc \in Calling /\ state \in {"DISCOVER", "REQUEST"}

------------------------------------------------------------------------------
(* The shape of a reply.                                                   *)
NoTerms == [lease |-> 0, t1 |-> 0, t2 |-> 0]
Answer(ty, id, us, s, i, t, c) ==
  [type |-> ty, xid |-> id, forUs |-> us, server |-> s, ip |-> i, terms |-> t, carries |-> c]

(* Mutant of Accepted: replies to other clients pass.                      *)
AcceptedAnyClient(r) == r.xid >= 0 /\ r.xid <= xid

(* parseDHCPResponse: a reply for us, with a transaction id of this call.  *)
Accepted(r) == r.forUs /\ r.xid >= 0 /\ r.xid <= xid

Present(new, old) == IF new # 0 THEN new ELSE old

(* ... whose address is taken over, whatever its type, and with it those   *)
(* options that it carries: the others stay as an earlier reply left them  *)
(* ...                                                                     *)
Parse(r) ==
  /\ localIp' = r.ip
  /\ serverIp' = IF ServerIdentifier \in r.carries /\ serverIp \in {NoServer, r.server}
                 THEN r.server ELSE serverIp
  /\ options' = [o \in Options |-> IF o \in r.carries THEN r.server ELSE options[o]]

(* ... the terms of the lease among them; those that an acknowledgement    *)
(* leaves out are computed.                                                *)
TakeTerms(r) ==
  LET l == Present(r.terms.lease, lease)
      a == Present(r.terms.t1, t1)
      b == Present(r.terms.t2, t2) IN
  IF state' # "LEASED"
  THEN /\ lease' = l /\ t1' = a /\ t2' = b
       /\ renewIn' = Present(r.terms.lease, renewIn)
       /\ UNCHANGED rebindIn
  ELSE LET full == Present(l, DefaultLease) IN
       /\ lease' = full
       /\ t1' = Present(a, full \div 2)
       /\ t2' = Present(b, full - full \div 8)
       /\ renewIn' = t1' /\ rebindIn' = t2'

(* An offer is taken up, with the transaction id it came with.             *)
ReceiveOffer(r) ==
  /\ Accepted(r) /\ state = "DISCOVER" /\ r.type = "OFFER"
  /\ Parse(r) /\ state' = "REQUEST"
  /\ Sent(RequestMessage(r.xid))
  /\ Continues => xid' = r.xid

ReceiveAck(r) ==
  /\ Accepted(r) /\ state = "REQUEST" /\ r.type = "ACK"
  /\ Parse(r) /\ state' = "LEASED"

ReceiveNak(r) ==
  /\ Accepted(r) /\ state = "REQUEST" /\ r.type = "NAK"
  /\ Parse(r) /\ state' = "START"
  /\ Continues => UNCHANGED <<xid, asked>>

(* Any other reply of this call still leaves its address behind.           *)
ReceiveOther(r) ==
  /\ Accepted(r)
  /\ \/ state = "DISCOVER" /\ r.type # "OFFER"
     \/ state = "REQUEST" /\ r.type \notin {"ACK", "NAK"}
  /\ Parse(r) /\ UNCHANGED state
  /\ Continues => UNCHANGED <<xid, asked>>

Receive(r) ==
  /\ Waiting
  /\ ReceiveOffer(r) \/ ReceiveAck(r) \/ ReceiveNak(r) \/ ReceiveOther(r)
  /\ TakeTerms(r)
  /\ acked' = IF r.forUs /\ r.type = "ACK" /\ state' = "LEASED"
              THEN [ip |-> r.ip, server |-> r.server, carries |-> r.carries] ELSE acked
  /\ UNCHANGED <<chip, started>>
  /\ EndOfTurn

(* A reply that is not ours is read and forgotten.                         *)
ReceiveStray(r) ==
  /\ Waiting /\ ~Accepted(r)
  /\ UNCHANGED <<state, held, terms, counters>>
  /\ Continues => UNCHANGED <<xid, asked>>
  /\ UNCHANGED <<chip, started, acked>>
  /\ EndOfTurn

(* parseDHCPResponse has waited long enough: all starts again.             *)
GiveUpWaiting ==
  /\ Waiting /\ waited > ResponseTimeout
  /\ state' = "START"
  /\ Continues => UNCHANGED <<xid, asked>>
  /\ UNCHANGED <<chip, started, held, terms, counters, acked>>
  /\ EndOfTurn

------------------------------------------------------------------------------
Tick ==
  /\ \/ /\ pc \in Calling /\ waited <= ResponseTimeout
        /\ spent' = IF spent > Timeout THEN spent ELSE spent + 1
        /\ waited' = waited + 1
        /\ UNCHANGED <<sinceCheck, age>>
     \/ /\ pc = "idle" /\ started /\ sinceCheck < MaxGap
        /\ sinceCheck' = sinceCheck + 1
        /\ age' = IF state = "LEASED" THEN age + 1 ELSE age
        /\ UNCHANGED <<spent, waited>>
  /\ UNCHANGED <<chip, started, client, pc, rc, hw, asked, acked, backing>>

(* The replies on the wire: what honest servers answer to what was asked,  *)
(* and what they tell other clients or have told us before.                *)
Arrives(r) == Receive(r) \/ ReceiveStray(r)

ServerOffers(s, t, c) ==
  \E q \in asked, i \in OffersOf[s] :
    q.type = "DISCOVER" /\ Arrives(Answer("OFFER", q.xid, TRUE, s, i, t, c))

ServerAcks(s, t, c) ==
  \E q \in asked :
    /\ q.type = "REQUEST" /\ q.server = s /\ q.ip \in OffersOf[s]
    /\ Arrives(Answer("ACK", q.xid, TRUE, s, q.ip, t, c))

ServerRefuses(s) ==
  \E q \in asked :
    /\ q.type = "REQUEST" /\ q.server = s /\ xid < MaxXid
    /\ Arrives(Answer("NAK", q.xid, TRUE, s, NoIp, NoTerms, {ServerIdentifier}))

OthersAnswer(s, t, c) ==
  \E ty \in {"OFFER", "ACK"} : Arrives(Answer(ty, xid, FALSE, s, ForeignIp, t, c))

LateAnswer(s, t, c) ==
  \E id \in {-1, xid}, i \in OffersOf[s] : Arrives(Answer("ACK", id, TRUE, s, i, t, c))

Reply ==
  \E s \in Servers :
    \/ ServerRefuses(s)
    \/ \E t \in Terms, c \in Carried :
         \/ ServerOffers(s, t, c) \/ ServerAcks(s, t, c)
         \/ OthersAnswer(s, t, c) \/ LateAnswer(s, t, c)

CallStep ==
  SendDiscover \/ SendRenewal \/ GiveUpWaiting
    \/ RebindWithSocket \/ RebindWithoutSocket \/ MaintainReturns

Next == BeginWithoutChip \/ Begin \/ Maintain \/ CallStep \/ Reply \/ Tick

Spec == Init /\ [][Next]_vars

(* A call runs while time passes, and the sketch calls maintain() again    *)
(* and again; a call that finds no socket is not all that ever happens.    *)
FairSpec ==
  /\ Spec
  /\ SF_vars(Tick) /\ WF_vars(CallStep) /\ WF_vars(Maintain)
  /\ SF_vars(RebindWithSocket)

------------------------------------------------------------------------------
(* Properties                                                              *)

(* The chip never works under an address but that of one acknowledgement   *)
(* addressed to us, with every option that this acknowledgement carried,   *)
(* although every reply that is read overwrites the client's fields and    *)
(* replies to other clients are heard (parseDHCPResponse, the              *)
(* installations of EthernetClass::begin and maintain).  An option that it *)
(* does not carry may be another server's, from an offer that came late.   *)
OnlyGranted ==
  hw.ip # NoIp =>
    /\ hw.ip = backing.ip
    /\ \A o \in Options \cap backing.carries : hw.options[o] = backing.server

(* Between calls, a client that holds a lease has given the chip that very *)
(* lease: no outcome of begin() and maintain() forgets the installation    *)
(* (the switch on checkLease()'s result in EthernetClass::maintain).       *)
LeasedIsUsed ==
  pc = "idle" /\ state = "LEASED" => hw = [ip |-> localIp, options |-> options]

(* However irregularly maintain() is called, the time until the renewal    *)
(* and the time the lease is held add up to T1: no part of a second is     *)
(* lost between two calls of checkLease.                                   *)
RenewOnTime ==
  pc = "idle" /\ state = "LEASED" /\ renewIn # 0 =>
    (age - sinceCheck) + TicksPerSecond * renewIn = TicksPerSecond * t1

(* begin() and maintain() return, whatever arrives or does not: the        *)
(* timeout of request_DHCP_lease is checked in every turn of its loop.     *)
CallReturns == pc \in Calling ~> pc = "idle"

(* Between calls, a client whose last call left it in START asks again,   *)
(* and no lease is held for ever: checkLease renews it.  (A client that is *)
(* left waiting for an answer is RetriesAfterError's.)                     *)
AsksAgain ==
  /\ pc = "idle" /\ chip /\ started /\ state = "START" ~> pc \in Calling
  /\ state = "LEASED" ~> state # "LEASED"

(* A maintain() that returns that the renewal or the rebinding failed is   *)
(* followed by another attempt ("it will retry though", in the switch of   *)
(* EthernetClass::maintain).                                               *)
RetriesAfterError == pc = "idle" /\ chip /\ rc \in {1, 3} ~> pc \in Calling
==============================================================================
