------------------------------ MODULE MCEthDhcp ------------------------------
(* Two servers lease one address each; a short lease whose T1 and T2 are   *)
(* computed.  A reply brings a gateway and an identifier, or neither.      *)
EXTENDS EthDhcp

CONSTANTS A, B, IpA, IpB, Gateway, Sid

MCOffersOf == [s \in {A, B} |-> IF s = A THEN {IpA} ELSE {IpB}]
MCCarried == {{Gateway, Sid}, {}}
MCTerms == {[lease |-> 4, t1 |-> 0, t2 |-> 0]}
==============================================================================
