--------------------------- MODULE EthDhcp_proofs ---------------------------
(***************************************************************************)
(* Theorems about EthDhcp, for any servers, addresses, terms and timeouts: *)
(* type correctness, and that the chip works under acknowledged leases     *)
(* only and under the one that is held.                                    *)
(***************************************************************************)
EXTENDS EthDhcp, TLAPS

USE DEF States, Calling, AnyIp, Config, Origins, Acks, held, terms, counters, client, time

(* The address and the options that the client holds.                      *)
HeldLease == [ip |-> localIp, options |-> options]

(* An acknowledgement is behind a configuration: its address, and every    *)
(* option that it carried.                                                 *)
Backs(a, c) ==
  c.ip = a.ip /\ \A o \in Options \cap a.carries : c.options[o] = a.server

(* The strengthening: a call is never under way in LEASED; while           *)
(* checkLease is halfway, a lease just renewed is held but not yet on the  *)
(* chip, and any other is there already.                                   *)
Installed ==
  /\ pc \in Calling => state # "LEASED"
  /\ pc = "check" /\ rc # 2 /\ state = "LEASED" => hw = HeldLease
  /\ pc = "check" /\ rc = 2 => state = "LEASED" /\ Backs(acked, HeldLease)

IInv == TypeOK /\ OnlyGranted /\ LeasedIsUsed /\ Installed

(* A terms option is a number of seconds, present or not.                  *)
LEMMA PresentNat ==
  ASSUME NEW a \in Nat, NEW b \in Nat
  PROVE  Present(a, b) \in Nat
BY DEF Present

LEMMA CountDownNat ==
  ASSUME NEW left \in Nat, NEW seconds \in Nat
  PROVE  CountDown(left, seconds) \in Nat
BY DEF CountDown

(* The counters and the time since the last check keep their types.        *)
LEMMA CountTimeType ==
  ASSUME TypeOK, CountTime
  PROVE  sinceCheck' \in Nat /\ renewIn' \in Nat /\ rebindIn' \in Nat
<1>1. TicksPerSecond \in Nat \ {0} BY DhcpConstantsOK
<1>2. sinceCheck \in Nat /\ renewIn \in Nat /\ rebindIn \in Nat BY DEF TypeOK
<1>3. /\ sinceCheck \div TicksPerSecond \in Nat
      /\ sinceCheck % TicksPerSecond \in Nat
  BY <1>1, <1>2
<1>4. CASE sinceCheck \div TicksPerSecond >= 1
  BY <1>2, <1>3, <1>4, CountDownNat DEF CountTime, KeepFraction
<1>5. CASE ~(sinceCheck \div TicksPerSecond >= 1)
  BY <1>2, <1>5 DEF CountTime
<1>6. QED BY <1>4, <1>5

(* The shape of every reply on the wire.                                   *)
Replies == [type : {"OFFER", "ACK", "NAK"}, xid : Int, forUs : BOOLEAN,
            server : Servers, ip : AnyIp, terms : [lease : Nat, t1 : Nat, t2 : Nat],
            carries : SUBSET (Options \cup {ServerIdentifier})]

LEMMA ReplyType ==
  ASSUME TypeOK, Reply
  PROVE  \E r \in Replies : Arrives(r)
<1>1. PICK s \in Servers :
        ServerRefuses(s) \/ \E t \in Terms, c \in Carried :
          \/ ServerOffers(s, t, c) \/ ServerAcks(s, t, c)
          \/ OthersAnswer(s, t, c) \/ LateAnswer(s, t, c)
  BY DEF Reply
<1> DEFINE Carry == SUBSET (Options \cup {ServerIdentifier})
           Term == [lease : Nat, t1 : Nat, t2 : Nat]
<1>2. OffersOf[s] \subseteq Ips BY DhcpConstantsOK
<1>3. Terms \subseteq Term /\ Carried \subseteq Carry BY DhcpConstantsOK
<1>4. xid \in Int /\ \A q \in asked : q.xid \in Int
  BY DEF TypeOK, Requests
<1>5. ASSUME NEW ty \in {"OFFER", "ACK", "NAK"}, NEW id \in Int, NEW us \in BOOLEAN,
             NEW i \in AnyIp, NEW t \in Term, NEW c \in Carry
      PROVE  Answer(ty, id, us, s, i, t, c) \in Replies
  BY DEF Answer, Replies
<1> HIDE DEF Carry, Term
<1>6. CASE ServerRefuses(s)
  <2>1. PICK q \in asked :
          Arrives(Answer("NAK", q.xid, TRUE, s, NoIp, NoTerms, {ServerIdentifier}))
    BY <1>6 DEF ServerRefuses
  <2>2. NoTerms \in Term /\ {ServerIdentifier} \in Carry BY DEF NoTerms, Carry, Term
  <2>3. Answer("NAK", q.xid, TRUE, s, NoIp, NoTerms, {ServerIdentifier}) \in Replies
    BY <1>4, <1>5, <2>2
  <2>4. QED BY <2>1, <2>3
<1>7. ASSUME NEW t \in Terms, NEW c \in Carried, ServerOffers(s, t, c)
      PROVE  \E r \in Replies : Arrives(r)
  <2>1. PICK q \in asked, i \in OffersOf[s] :
          Arrives(Answer("OFFER", q.xid, TRUE, s, i, t, c))
    BY <1>7 DEF ServerOffers
  <2>2. Answer("OFFER", q.xid, TRUE, s, i, t, c) \in Replies BY <1>2, <1>3, <1>4, <1>5
  <2>3. QED BY <2>1, <2>2
<1>8. ASSUME NEW t \in Terms, NEW c \in Carried, ServerAcks(s, t, c)
      PROVE  \E r \in Replies : Arrives(r)
  <2>1. PICK q \in asked :
          q.ip \in OffersOf[s] /\ Arrives(Answer("ACK", q.xid, TRUE, s, q.ip, t, c))
    BY <1>8 DEF ServerAcks
  <2>2. Answer("ACK", q.xid, TRUE, s, q.ip, t, c) \in Replies
    BY <1>2, <1>3, <1>4, <1>5, <2>1
  <2>3. QED BY <2>1, <2>2
<1>9. ASSUME NEW t \in Terms, NEW c \in Carried, OthersAnswer(s, t, c)
      PROVE  \E r \in Replies : Arrives(r)
  <2>1. PICK ty \in {"OFFER", "ACK"} : Arrives(Answer(ty, xid, FALSE, s, ForeignIp, t, c))
    BY <1>9 DEF OthersAnswer
  <2>2. Answer(ty, xid, FALSE, s, ForeignIp, t, c) \in Replies BY <1>3, <1>4, <1>5
  <2>3. QED BY <2>1, <2>2
<1>10. ASSUME NEW t \in Terms, NEW c \in Carried, LateAnswer(s, t, c)
       PROVE  \E r \in Replies : Arrives(r)
  <2>1. PICK id \in {-1, xid}, i \in OffersOf[s] :
          Arrives(Answer("ACK", id, TRUE, s, i, t, c))
    BY <1>10 DEF LateAnswer
  <2>2. id \in Int /\ i \in AnyIp BY <1>2, <1>4
  <2>3. Answer("ACK", id, TRUE, s, i, t, c) \in Replies BY <1>3, <1>5, <2>2
  <2>4. QED BY <2>1, <2>3
<1>11. QED BY <1>1, <1>6, <1>7, <1>8, <1>9, <1>10

LEMMA TakeTermsType ==
  ASSUME TypeOK, NEW r \in Replies, TakeTerms(r)
  PROVE  /\ lease' \in Nat /\ t1' \in Nat /\ t2' \in Nat
         /\ renewIn' \in Nat /\ rebindIn' \in Nat
<1> DEFINE l == Present(r.terms.lease, lease)
           a == Present(r.terms.t1, t1)
           b == Present(r.terms.t2, t2)
<1>1. /\ l \in Nat /\ a \in Nat /\ b \in Nat
      /\ Present(r.terms.lease, renewIn) \in Nat
  BY PresentNat DEF TypeOK, Replies
<1>2. CASE state' # "LEASED"
  BY <1>1, <1>2 DEF TakeTerms, TypeOK
<1>3. CASE state' = "LEASED"
  <2> DEFINE full == Present(l, DefaultLease)
  <2>1. full \in Nat BY <1>1, PresentNat, DhcpConstantsOK
  <2> HIDE DEF full
  <2>2. full \div 2 \in Nat /\ full - full \div 8 \in Nat BY <2>1
  <2>3. Present(a, full \div 2) \in Nat /\ Present(b, full - full \div 8) \in Nat
    BY <1>1, <2>2, PresentNat
  <2>4. /\ lease' = full /\ t1' = Present(a, full \div 2)
        /\ t2' = Present(b, full - full \div 8)
        /\ renewIn' = t1' /\ rebindIn' = t2'
    BY <1>3 DEF TakeTerms, full
  <2>5. QED BY <2>1, <2>3, <2>4
<1>4. QED BY <1>2, <1>3

(* The end of a turn either ends the call or leaves it under way.          *)
LEMMA EndOfTurnType ==
  ASSUME TypeOK, EndOfTurn, pc \in Calling, state' \in States
  PROVE  /\ spent' \in Nat /\ waited' \in Nat /\ sinceCheck' \in Nat /\ age' \in Nat
         /\ pc' \in Calling \cup {"idle", "check"} /\ rc' \in 0..4
BY DEF TypeOK, EndOfTurn, Done

LEMMA EndOfTurnXid ==
  ASSUME EndOfTurn
  PROVE  Continues \/ (xid' = 0 /\ asked' = {})
BY DEF EndOfTurn, Done, Continues

LEMMA EndOfTurnHw ==
  ASSUME TypeOK, EndOfTurn, pc \in Calling,
         localIp' \in AnyIp, options' \in Origins,
         acked' \in Acks
  PROVE  hw' \in Config /\ backing' \in Acks
BY DEF TypeOK, EndOfTurn, Done, Install

(* What the client asks for is a request.                                  *)
LEMMA RequestType ==
  ASSUME NEW id \in Int, localIp' \in AnyIp, serverIp' \in Servers \cup {NoServer}
  PROVE  RequestMessage(id) \in Requests
BY DEF RequestMessage, Requests

(* A turn that ends in LEASED ends the call with an acknowledged lease,    *)
(* which begin() and a rebinding put on the chip at once.                  *)
LEMMA TurnInstalls ==
  ASSUME IInv, pc \in Calling, EndOfTurn, state' \in States,
         localIp' \in AnyIp, options' \in Origins,
         state' = "LEASED" => Backs(acked', HeldLease')
  PROVE  OnlyGranted' /\ LeasedIsUsed' /\ Installed'
<1>1. CASE state' = "LEASED" /\ pc = "renew"
  <2>1. pc' = "check" /\ rc' = 2 /\ UNCHANGED <<hw, backing>> BY <1>1 DEF EndOfTurn, Done
  <2>2. QED BY <1>1, <2>1 DEF IInv, OnlyGranted, LeasedIsUsed, Installed
<1>2. CASE state' = "LEASED" /\ pc # "renew"
  <2>1. pc' = "idle" /\ hw' = HeldLease' /\ backing' = acked'
    BY <1>2 DEF EndOfTurn, Done, Install, HeldLease
  <2>2. QED BY <1>2, <2>1 DEF OnlyGranted, LeasedIsUsed, Installed, HeldLease, Backs
<1>3. CASE state' # "LEASED" /\ TimeUp
  <2>1. /\ pc' \in {"idle", "check"} /\ UNCHANGED <<hw, backing>>
        /\ pc' = "check" => rc' = 1
    BY <1>3 DEF EndOfTurn, Done
  <2>2. QED BY <1>3, <2>1 DEF IInv, OnlyGranted, LeasedIsUsed, Installed
<1>4. CASE state' # "LEASED" /\ ~TimeUp
  <2>1. pc' = pc /\ UNCHANGED <<hw, backing>> BY <1>4 DEF EndOfTurn
  <2>2. QED BY <1>4, <2>1 DEF IInv, OnlyGranted, LeasedIsUsed, Installed
<1>5. QED BY <1>1, <1>2, <1>3, <1>4

(* A reply that was accepted keeps the types, and a lease that it brings   *)
(* is the one that it acknowledges.                                        *)
LEMMA ReceiveKeepsIInv ==
  ASSUME IInv, NEW r \in Replies, Receive(r)
  PROVE  IInv'
<1>1. TypeOK /\ pc \in Calling BY DEF IInv, Receive, Waiting
<1>2. Parse(r) /\ state' \in States
  BY DEF Receive, ReceiveOffer, ReceiveAck, ReceiveNak, ReceiveOther, IInv, TypeOK
<1>3. /\ localIp' \in AnyIp /\ serverIp' \in Servers \cup {NoServer}
      /\ options' \in Origins
  BY <1>1, <1>2 DEF Parse, Replies, TypeOK
<1>4. xid' \in Nat /\ asked' \subseteq Requests
  <2>1. CASE ~Continues
    <3>1. xid' = 0 /\ asked' = {} BY <2>1, EndOfTurnXid DEF Receive
    <3>2. QED BY <3>1
  <2>2. CASE Continues
    <3>1. CASE ReceiveOffer(r)
      <4>1. r.xid \in Int /\ r.xid >= 0 BY <3>1 DEF ReceiveOffer, Accepted, Replies
      <4>2. RequestMessage(r.xid) \in Requests BY <1>3, <4>1, RequestType
      <4>3. xid' = r.xid /\ asked' = asked \cup {RequestMessage(r.xid)}
        BY <2>2, <3>1 DEF ReceiveOffer, Sent
      <4>4. QED BY <1>1, <4>1, <4>2, <4>3 DEF TypeOK
    <3>2. CASE ReceiveAck(r) BY <2>2, <3>2 DEF ReceiveAck, Continues
    <3>3. CASE ReceiveNak(r) \/ ReceiveOther(r)
      BY <1>1, <2>2, <3>3 DEF ReceiveNak, ReceiveOther, TypeOK
    <3>4. QED BY <3>1, <3>2, <3>3 DEF Receive
  <2>3. QED BY <2>1, <2>2
<1>5. /\ lease' \in Nat /\ t1' \in Nat /\ t2' \in Nat
      /\ renewIn' \in Nat /\ rebindIn' \in Nat
  BY <1>1, TakeTermsType DEF Receive
<1>6. /\ spent' \in Nat /\ waited' \in Nat /\ sinceCheck' \in Nat /\ age' \in Nat
      /\ pc' \in Calling \cup {"idle", "check"} /\ rc' \in 0..4
  BY <1>1, <1>2, EndOfTurnType DEF Receive
<1>7. acked' \in Acks
  <2>1. [ip |-> r.ip, server |-> r.server, carries |-> r.carries] \in Acks BY DEF Replies
  <2>2. QED BY <1>1, <2>1 DEF Receive, TypeOK
<1>8. hw' \in Config /\ backing' \in Acks BY <1>1, <1>3, <1>7, EndOfTurnHw DEF Receive
<1>9. state' = "LEASED" => Backs(acked', HeldLease')
  <2>1. SUFFICES ASSUME state' = "LEASED" PROVE Backs(acked', HeldLease') OBVIOUS
  <2>2. state # "LEASED" BY <1>1 DEF IInv, Installed
  <2>3. ReceiveAck(r)
    BY <2>1, <2>2 DEF Receive, ReceiveOffer, ReceiveNak, ReceiveOther
  <2>4. r.forUs /\ r.type = "ACK" BY <2>3 DEF ReceiveAck, Accepted
  <2>5. acked' = [ip |-> r.ip, server |-> r.server, carries |-> r.carries]
    BY <2>1, <2>4 DEF Receive
  <2>6. /\ localIp' = r.ip
        /\ \A o \in Options \cap r.carries : options'[o] = r.server
    BY <1>2 DEF Parse
  <2>7. QED BY <2>5, <2>6 DEF Backs, HeldLease
<1>11. OnlyGranted' /\ LeasedIsUsed' /\ Installed'
  BY <1>1, <1>2, <1>3, <1>9, TurnInstalls DEF Receive
<1>12. chip' \in BOOLEAN /\ started' \in BOOLEAN BY <1>1 DEF Receive, TypeOK
<1>13. QED
  BY <1>2, <1>3, <1>4, <1>5, <1>6, <1>7, <1>8, <1>11, <1>12 DEF IInv, TypeOK

(* The other turns of the loop send, skip a reply or give up: none of      *)
(* them brings a lease.                                                    *)
LEMMA TurnKeepsIInv ==
  ASSUME IInv,
         SendDiscover \/ SendRenewal \/ GiveUpWaiting \/ \E r \in Replies : ReceiveStray(r)
  PROVE  IInv'
<1>1. TypeOK /\ pc \in Calling
  BY DEF IInv, SendDiscover, SendRenewal, GiveUpWaiting, ReceiveStray, Waiting
<1>2. EndOfTurn /\ UNCHANGED <<chip, started, held, terms, counters, acked>>
  BY DEF SendDiscover, SendRenewal, GiveUpWaiting, ReceiveStray
<1>3. state # "LEASED" BY <1>1 DEF IInv, Installed
<1>4. state' \in States /\ state' # "LEASED"
  BY <1>1, <1>3 DEF SendDiscover, SendRenewal, GiveUpWaiting, ReceiveStray, TypeOK
<1>5. /\ localIp' \in AnyIp /\ serverIp' \in Servers \cup {NoServer}
      /\ options' \in Origins
  BY <1>1, <1>2 DEF TypeOK
<1>6. xid' \in Nat /\ asked' \subseteq Requests
  <2>1. CASE ~Continues
    <3>1. xid' = 0 /\ asked' = {} BY <1>2, <2>1, EndOfTurnXid
    <3>2. QED BY <3>1
  <2>2. CASE Continues /\ SendDiscover
    <3>1. xid' = xid + 1 /\ asked' = asked \cup {[type |-> "DISCOVER", xid |-> xid + 1]}
      BY <2>2 DEF SendDiscover, Sent
    <3>2. xid \in Nat /\ xid + 1 \in Nat /\ asked \subseteq Requests BY <1>1 DEF TypeOK
    <3>3. [type |-> "DISCOVER", xid |-> xid + 1] \in Requests BY <3>2 DEF Requests
    <3>4. QED BY <3>1, <3>2, <3>3
  <2>3. CASE Continues /\ SendRenewal
    <3>1. xid' = xid + 1 /\ asked' = asked \cup {RequestMessage(xid + 1)}
      BY <2>3 DEF SendRenewal, Sent
    <3>2. xid + 1 \in Int /\ xid + 1 \in Nat /\ asked \subseteq Requests BY <1>1 DEF TypeOK
    <3>3. RequestMessage(xid + 1) \in Requests BY <1>5, <3>2, RequestType
    <3>4. QED BY <3>1, <3>2, <3>3
  <2>4. CASE Continues /\ (GiveUpWaiting \/ \E r \in Replies : ReceiveStray(r))
    BY <1>1, <2>4 DEF GiveUpWaiting, ReceiveStray, TypeOK
  <2>5. QED BY <2>1, <2>2, <2>3, <2>4
<1>7. /\ spent' \in Nat /\ waited' \in Nat /\ sinceCheck' \in Nat /\ age' \in Nat
      /\ pc' \in Calling \cup {"idle", "check"} /\ rc' \in 0..4
  BY <1>1, <1>2, <1>4, EndOfTurnType
<1>8. hw' \in Config /\ backing' \in Acks
  <2>1. acked' \in Acks BY <1>1, <1>2 DEF TypeOK
  <2>2. QED BY <1>1, <1>2, <1>5, <2>1, EndOfTurnHw
<1>9. OnlyGranted' /\ LeasedIsUsed' /\ Installed'
  BY <1>1, <1>2, <1>4, <1>5, TurnInstalls
<1>10. QED BY <1>1, <1>2, <1>4, <1>5, <1>6, <1>7, <1>8, <1>9 DEF IInv, TypeOK

(* No acknowledgement yet.                                                 *)
LEMMA NoAckType == NoAck \in Acks
BY DEF NoAck

(* The calls of the sketch, and the ends of maintain() and checkLease().   *)
LEMMA BeginKeepsIInv ==
  ASSUME IInv, Begin
  PROVE  IInv'
<1>1. /\ hw' \in Config /\ hw'.ip = NoIp
      /\ acked' \in Acks /\ backing' \in Acks
  BY NoAckType DEF Begin, LeaseOver, IInv, TypeOK
<1>2. /\ pc' \in {"idle", "begin"} /\ state' = "START"
      /\ xid' \in Nat /\ asked' \subseteq Requests
      /\ spent' \in Nat /\ waited' \in Nat /\ age' \in Nat
  BY DEF Begin, StartRequest, NoSocket, LeaseOver, IInv, TypeOK
<1>3. TypeOK' BY <1>1, <1>2 DEF IInv, TypeOK, Begin, ResetLease, Nowhere
<1>4. OnlyGranted' /\ LeasedIsUsed' /\ Installed'
  BY <1>1, <1>2 DEF OnlyGranted, LeasedIsUsed, Installed
<1>5. QED BY <1>3, <1>4 DEF IInv

LEMMA MaintainKeepsIInv ==
  ASSUME IInv, Maintain
  PROVE  IInv'
<1>1. sinceCheck' \in Nat /\ renewIn' \in Nat /\ rebindIn' \in Nat
  BY CountTimeType DEF Maintain, IInv
<1>2. /\ pc' \in {"check", "renew"} /\ rc' \in 0..4
      /\ xid' \in Nat /\ asked' \subseteq Requests
      /\ spent' \in Nat /\ waited' \in Nat /\ age' \in Nat /\ state' \in States
      /\ acked' \in Acks
  BY NoAckType DEF Maintain, MaintainIdle, RenewWithSocket, RenewWithoutSocket,
                   StartRequest, NoSocket, LeaseOver, IInv, TypeOK
<1>3. TypeOK' BY <1>1, <1>2 DEF IInv, TypeOK, Maintain
<1>4. OnlyGranted' BY DEF IInv, OnlyGranted, Maintain
<1>5. LeasedIsUsed' /\ Installed'
  <2>1. CASE MaintainIdle
    <3>1. pc' = "check" /\ rc' = 0 /\ state' = state /\ hw' = hw /\ HeldLease' = HeldLease
      BY <2>1 DEF Maintain, MaintainIdle, HeldLease
    <3>2. pc = "idle" BY DEF Maintain
    <3>3. state = "LEASED" => hw = HeldLease
      BY <3>2 DEF IInv, LeasedIsUsed, HeldLease
    <3>4. QED BY <3>1, <3>3 DEF LeasedIsUsed, Installed
  <2>2. CASE RenewWithSocket \/ RenewWithoutSocket
    <3>1. pc' \in {"check", "renew"} /\ state' = "REREQUEST" /\ (pc' = "check" => rc' = 1)
      BY <2>2 DEF RenewWithSocket, RenewWithoutSocket, StartRequest
    <3>2. QED BY <3>1 DEF LeasedIsUsed, Installed
  <2>3. QED BY <2>1, <2>2 DEF Maintain
<1>6. QED BY <1>3, <1>4, <1>5 DEF IInv

LEMMA CallEndKeepsIInv ==
  ASSUME IInv, RebindWithSocket \/ RebindWithoutSocket \/ MaintainReturns \/ Tick
  PROVE  IInv'
<1>1. CASE RebindWithSocket \/ RebindWithoutSocket
  <2>1. TypeOK'
    BY <1>1, NoAckType DEF IInv, TypeOK, RebindWithSocket, RebindWithoutSocket, ResetLease,
                Nowhere, StartRequest, NoSocket, LeaseOver
  <2>2. OnlyGranted' /\ LeasedIsUsed' /\ Installed'
    BY <1>1 DEF IInv, RebindWithSocket, RebindWithoutSocket, StartRequest, NoSocket,
                OnlyGranted, LeasedIsUsed, Installed
  <2>3. QED BY <2>1, <2>2 DEF IInv
<1>2. CASE MaintainReturns
  <2>1. hw' \in Config /\ backing' \in Acks
    BY <1>2 DEF IInv, TypeOK, MaintainReturns, Install
  <2>2. TypeOK'
    BY <1>2, <2>1 DEF IInv, TypeOK, MaintainReturns
  <2>3. CASE rc = 2
    <3>1. /\ state = "LEASED" /\ Backs(acked, HeldLease)
          /\ hw' = HeldLease /\ backing' = acked
      BY <1>2, <2>3 DEF IInv, Installed, MaintainReturns, Install, HeldLease
    <3>2. QED
      BY <1>2, <2>2, <3>1 DEF IInv, MaintainReturns, OnlyGranted, LeasedIsUsed,
                              Installed, HeldLease, Backs
  <2>4. CASE rc # 2
    BY <1>2, <2>2, <2>4 DEF IInv, MaintainReturns, OnlyGranted, LeasedIsUsed,
                            Installed, HeldLease
  <2>5. QED BY <2>3, <2>4
<1>3. CASE Tick
  <2>1. TypeOK' BY <1>3 DEF IInv, TypeOK, Tick
  <2>2. QED
    BY <1>3, <2>1 DEF IInv, Tick, OnlyGranted, LeasedIsUsed, Installed, HeldLease
<1>4. QED BY <1>1, <1>2, <1>3

(* The invariant holds in every reachable state: no interleaving of calls, *)
(* replies, losses and time outs puts an address on the chip that was not  *)
(* acknowledged to this client.                                            *)
THEOREM Invariance == Spec => []IInv
<1>1. Init => IInv
  <2>1. SUFFICES ASSUME Init PROVE IInv OBVIOUS
  <2>2. hw \in Config /\ hw.ip = NoIp BY <2>1 DEF Init, Nowhere
  <2>3. /\ asked \subseteq Requests /\ acked \in Acks /\ backing \in Acks
        /\ options \in Origins
    BY <2>1, NoAckType DEF Init, Nowhere
  <2>4. /\ chip \in BOOLEAN /\ started \in BOOLEAN /\ state \in States /\ localIp \in AnyIp
        /\ serverIp \in Servers \cup {NoServer}
        /\ pc \in Calling \cup {"idle", "check"}
    BY <2>1, Zenon DEF Init
  <2>5. /\ rc \in 0..4 /\ xid \in Nat /\ lease \in Nat /\ t1 \in Nat /\ t2 \in Nat
        /\ renewIn \in Nat /\ rebindIn \in Nat
        /\ spent \in Nat /\ waited \in Nat /\ sinceCheck \in Nat /\ age \in Nat
    BY <2>1 DEF Init
  <2>6. TypeOK BY <2>2, <2>3, <2>4, <2>5 DEF TypeOK
  <2>7. QED BY <2>1, <2>2, <2>6 DEF Init, IInv, OnlyGranted, LeasedIsUsed, Installed
<1>2. IInv /\ [Next]_vars => IInv'
  <2>1. SUFFICES ASSUME IInv, [Next]_vars PROVE IInv' OBVIOUS
  <2>9. CASE BeginWithoutChip
    BY <2>1, <2>9 DEF BeginWithoutChip, IInv, TypeOK, OnlyGranted, LeasedIsUsed,
                      Installed, HeldLease
  <2>2. CASE Begin BY <2>1, <2>2, BeginKeepsIInv
  <2>3. CASE Maintain BY <2>1, <2>3, MaintainKeepsIInv
  <2>4. CASE CallStep BY <2>1, <2>4, TurnKeepsIInv, CallEndKeepsIInv DEF CallStep
  <2>5. CASE Reply
    <3>1. PICK r \in Replies : Receive(r) \/ ReceiveStray(r)
      BY <2>1, <2>5, ReplyType DEF IInv, Arrives
    <3>2. QED BY <2>1, <3>1, ReceiveKeepsIInv, TurnKeepsIInv
  <2>6. CASE Tick BY <2>1, <2>6, CallEndKeepsIInv
  <2>7. CASE UNCHANGED vars
    BY <2>1, <2>7 DEF vars, IInv, TypeOK, OnlyGranted, LeasedIsUsed, Installed, HeldLease
  <2>8. QED BY <2>1, <2>2, <2>3, <2>4, <2>5, <2>6, <2>7, <2>9 DEF Next
<1>3. QED BY <1>1, <1>2, PTL DEF Spec

(* Every variable keeps its type.                                          *)
THEOREM TypeCorrect == Spec => []TypeOK
BY Invariance, PTL DEF IInv

(* The chip's address comes from one acknowledgement to us, and with it    *)
(* every option that this acknowledgement carried.                         *)
THEOREM AddressesAreGranted == Spec => []OnlyGranted
BY Invariance, PTL DEF IInv

(* Between calls the lease that is held is the one the chip uses.          *)
THEOREM LeasesAreUsed == Spec => []LeasedIsUsed
BY Invariance, PTL DEF IInv

------------------------------------------------------------------------------
(* The time until the renewal and the time the lease is held, while a      *)
(* lease is held, also halfway checkLease.                                 *)
TimeAddsUp ==
  pc \in {"idle", "check"} /\ state = "LEASED" /\ renewIn # 0 =>
    (age - sinceCheck) + TicksPerSecond * renewIn = TicksPerSecond * t1

(* Whole seconds and the part of one that is kept make up the time gone by.  *)
LEMMA DivisionOfTime ==
  ASSUME NEW n \in Nat, NEW d \in Nat \ {0}
  PROVE  n = d * (n \div d) + (n % d) /\ n \div d \in Nat /\ n % d \in Nat
OBVIOUS

(* The seconds that leave the counter are those that leave the fraction.   *)
LEMMA CountTimeAddsUp ==
  ASSUME TypeOK, CountTime, TimeAddsUp, pc = "idle", state = "LEASED", renewIn' # 0
  PROVE  (age - sinceCheck') + TicksPerSecond * renewIn' = TicksPerSecond * t1
<1> DEFINE T == TicksPerSecond
           s == sinceCheck \div T
<1>1. /\ T \in Nat \ {0} /\ sinceCheck \in Nat /\ renewIn \in Nat /\ age \in Nat
      /\ t1 \in Nat
  BY DhcpConstantsOK DEF TypeOK
<1>2. /\ sinceCheck = T * s + (sinceCheck % T) /\ s \in Nat /\ sinceCheck % T \in Nat
  BY <1>1, DivisionOfTime
<1>3. CASE s >= 1
  <2>1. sinceCheck' = sinceCheck % T /\ renewIn' = CountDown(renewIn, s)
    BY <1>3 DEF CountTime, KeepFraction
  <2>2. renewIn' = renewIn - s /\ renewIn # 0
    BY <1>1, <1>2, <1>3, <2>1 DEF CountDown
  <2>3. (age - sinceCheck) + T * renewIn = T * t1 BY <2>2 DEF TimeAddsUp
  <2>4. T * renewIn' = T * renewIn - T * s BY <1>1, <1>2, <2>2
  <2> DEFINE a == T * s  b == T * renewIn  c == T * renewIn'  d == T * t1
             r == sinceCheck % T
  <2>5. a \in Nat /\ b \in Nat /\ d \in Nat /\ c = b - a BY <1>1, <1>2, <2>4
  <2>6. sinceCheck = a + r /\ r \in Nat /\ sinceCheck' = r /\ (age - sinceCheck) + b = d
    BY <1>2, <2>1, <2>3
  <2> HIDE DEF a, b, c, d, r
  <2>7. (age - sinceCheck') + c = d BY <1>1, <2>5, <2>6
  <2>8. QED BY <2>7 DEF c, d
<1>4. CASE ~(s >= 1)
  <2>1. sinceCheck' = sinceCheck /\ renewIn' = renewIn BY <1>4 DEF CountTime
  <2>2. QED BY <2>1 DEF TimeAddsUp
<1>5. QED BY <1>3, <1>4

(* A reply that brings a lease starts its time, and T1 is on the counter.  *)
LEMMA ReceiveAddsUp ==
  ASSUME IInv, NEW r \in Replies, Receive(r)
  PROVE  TimeAddsUp'
<1>1. SUFFICES ASSUME state' = "LEASED" PROVE TimeAddsUp' BY DEF TimeAddsUp
<1>2. age' = 0 /\ sinceCheck' = 0 BY <1>1 DEF Receive, EndOfTurn, Done
<1>3. renewIn' = t1' BY <1>1 DEF Receive, TakeTerms
<1>4. TicksPerSecond * renewIn' \in Nat
  <2>1. renewIn' \in Nat BY ReceiveKeepsIInv DEF IInv, TypeOK
  <2>2. TicksPerSecond \in Nat BY DhcpConstantsOK
  <2> DEFINE seconds == renewIn'
  <2> HIDE DEF seconds
  <2>3. seconds \in Nat => TicksPerSecond * seconds \in Nat BY <2>2
  <2>4. QED BY <2>1, <2>3 DEF seconds
<1>5. QED BY <1>2, <1>3, <1>4 DEF TimeAddsUp

LEMMA MaintainAddsUp ==
  ASSUME IInv, TimeAddsUp, Maintain
  PROVE  TimeAddsUp'
<1>1. CASE MaintainIdle
  <2>1. SUFFICES ASSUME state' = "LEASED", renewIn' # 0 PROVE TimeAddsUp'
    BY DEF TimeAddsUp
  <2>2. /\ pc = "idle" /\ CountTime /\ state = "LEASED" /\ UNCHANGED <<age, t1>>
    BY <1>1, <2>1 DEF Maintain, MaintainIdle, NoSocket
  <2>3. (age - sinceCheck') + TicksPerSecond * renewIn' = TicksPerSecond * t1
    BY <2>1, <2>2, CountTimeAddsUp DEF IInv
  <2>4. QED BY <2>2, <2>3 DEF TimeAddsUp
<1>2. CASE RenewWithSocket \/ RenewWithoutSocket
  BY <1>2 DEF RenewWithSocket, RenewWithoutSocket, TimeAddsUp
<1>3. QED BY <1>1, <1>2 DEF Maintain

(* In a call that is under way no lease is held, and between two calls the  *)
(* time goes by in both counts alike.                                      *)
LEMMA TimeKeepsAddingUp ==
  ASSUME IInv, TimeAddsUp, [Next]_vars
  PROVE  TimeAddsUp'
<1>0. CASE BeginWithoutChip BY <1>0 DEF BeginWithoutChip, TimeAddsUp
<1>1. CASE Begin BY <1>1 DEF Begin, TimeAddsUp
<1>2. CASE Maintain BY <1>2, MaintainAddsUp
<1>3. CASE SendDiscover \/ SendRenewal \/ GiveUpWaiting \/ \E r \in Replies : ReceiveStray(r)
  <2>1. state # "LEASED"
    BY <1>3 DEF SendDiscover, SendRenewal, GiveUpWaiting, ReceiveStray, Waiting,
                IInv, Installed
  <2>2. state' # "LEASED"
    BY <1>3, <2>1 DEF SendDiscover, SendRenewal, GiveUpWaiting, ReceiveStray
  <2>3. QED BY <2>2 DEF TimeAddsUp
<1>4. CASE RebindWithSocket \/ RebindWithoutSocket
  BY <1>4 DEF RebindWithSocket, RebindWithoutSocket, TimeAddsUp
<1>5. CASE MaintainReturns BY <1>5 DEF MaintainReturns, TimeAddsUp
<1>6. CASE Reply
  <2>1. PICK r \in Replies : Receive(r) \/ ReceiveStray(r)
    BY <1>6, ReplyType DEF IInv, Arrives
  <2>2. CASE Receive(r) BY <2>2, ReceiveAddsUp
  <2>3. CASE ReceiveStray(r) BY <1>3, <2>3
  <2>4. QED BY <2>1, <2>2, <2>3
<1>7. CASE Tick
  <2>1. CASE pc \in Calling BY <1>7, <2>1 DEF Tick, TimeAddsUp
  <2>2. CASE pc = "idle" /\ state = "LEASED" /\ renewIn # 0
    <3>1. /\ age' - sinceCheck' = age - sinceCheck
          /\ UNCHANGED <<pc, state, renewIn, t1>>
      BY <1>7, <2>2 DEF Tick, IInv, TypeOK
    <3>2. (age - sinceCheck) + TicksPerSecond * renewIn = TicksPerSecond * t1
      BY <2>2 DEF TimeAddsUp
    <3>3. QED BY <3>1, <3>2 DEF TimeAddsUp
  <2>3. CASE pc = "idle" /\ ~(state = "LEASED" /\ renewIn # 0)
    BY <1>7, <2>3 DEF Tick, TimeAddsUp
  <2>4. QED BY <1>7, <2>1, <2>2, <2>3 DEF Tick
<1>8. CASE UNCHANGED vars BY <1>8 DEF vars, TimeAddsUp
<1>9. QED
  BY <1>0, <1>1, <1>2, <1>3, <1>4, <1>5, <1>6, <1>7, <1>8 DEF Next, CallStep

(* However irregularly maintain() is called, with whatever lease, tick and *)
(* timeouts: the counter and the time the lease is held add up to T1.      *)
THEOREM RenewalIsOnTime == Spec => []RenewOnTime
<1>1. Init => TimeAddsUp BY DEF Init, TimeAddsUp
<1>2. TimeAddsUp => RenewOnTime BY DEF TimeAddsUp, RenewOnTime
<1>3. QED BY <1>1, <1>2, TimeKeepsAddingUp, Invariance, PTL DEF Spec
==============================================================================
