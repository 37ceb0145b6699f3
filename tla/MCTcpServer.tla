----------------------------- MODULE MCTcpServer -----------------------------
(* Instances of TcpServer for TLC: peers are <<address, port>> pairs, and   *)
(* the hash of their session ids has no collisions.                         *)
EXTENDS TcpServer, TLC

CONSTANTS a, b, o1, o2

OnePeer      == {<<a, 1>>}
TwoPeers     == {<<a, 1>>, <<b, 1>>}
OneAddress   == {<<a, 1>>, <<a, 2>>}

AddressOf == [p \in Peers |-> p[1]]
HashOf    == [p \in Peers |-> p]

(* The two addresses play the same part.                                   *)
Addresses == Permutations({a, b})
==============================================================================
