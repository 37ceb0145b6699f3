---------------------------- MODULE MCEthDatagrams ---------------------------
(* An EthernetUDP object over the memory of the chip, and, over what that  *)
(* object promises, a lookup: a behaviour follows one of the two.  The     *)
(* receive memory has a few units, and there are two names and an address. *)
EXTENDS EthUdp, EthDns

CONSTANTS d1, d2, h1, h2, ip, p1, p2, i1, i2

VARIABLE follows

vars == <<udpVars, dnsVars, follows>>

Udp(A) == follows = "EthUdp" /\ A /\ UNCHANGED <<dnsVars, follows>>
Dns(A) == follows = "EthDns" /\ A /\ UNCHANGED <<udpVars, follows>>

Init ==
  /\ UdpInit /\ DnsInit /\ follows \in {"EthUdp", "EthDns"}
  /\ follows = "EthUdp" => host = h1 /\ iRequestId = i1 /\ port = p1
Next == Udp(UdpNext) \/ Dns(DnsNext)
Spec ==
  /\ Init /\ [][Next]_vars
  /\ WF_vars(Udp(ParseStep))
  /\ WF_vars(Dns(ClientStep)) /\ WF_vars(Dns(\E q \in asked : Forgotten(q)))
==============================================================================
