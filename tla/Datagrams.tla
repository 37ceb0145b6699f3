------------------------------ MODULE Datagrams ------------------------------
(***************************************************************************)
(* What EthernetUDP promises its user: the datagrams that the network left *)
(* at the socket are opened one at a time and in their order, and what is  *)
(* read is what the open one still holds.                                  *)
(***************************************************************************)
EXTENDS Naturals, Sequences

CONSTANT Datagram           \* [id, size], a datagram of so many units

VARIABLES
  queue,                    \* the datagrams that nobody has opened
  inHand                    \* what is left of the one that is open

Payload(d) == [i \in 1..d.size |-> <<d.id, i>>]

Init == queue = <<>> /\ inHand = <<>>

Arrive(d) == queue' = Append(queue, d) /\ UNCHANGED inHand

(* The rest of the open datagram is given up.                              *)
Discard == inHand' = <<>> /\ UNCHANGED queue

Open ==
  /\ inHand = <<>> /\ queue # <<>>
  /\ inHand' = Payload(Head(queue)) /\ queue' = Tail(queue)

Read(n) ==
  /\ inHand # <<>>
  /\ inHand' = SubSeq(inHand, n + 1, Len(inHand))
  /\ UNCHANGED queue

Close == queue' = <<>> /\ inHand' = <<>>

Next ==
  \/ \E d \in Datagram : Arrive(d)
  \/ Discard \/ Open \/ Close
  \/ \E n \in 1..Len(inHand) : Read(n)

Spec == Init /\ [][Next]_<<queue, inHand>>
==============================================================================
