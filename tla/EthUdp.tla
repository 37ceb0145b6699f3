------------------------------- MODULE EthUdp --------------------------------
(***************************************************************************)
(* How an EthernetUDP object gets its datagrams out of the receive memory  *)
(* of the chip (arduino-projects/nano with ethernet/lib/Ethernet-2.0.2/    *)
(* src/socket.cpp, EthernetUdp.cpp).                                       *)
(*                                                                         *)
(* The chip stores each datagram after a header with its sender and its    *)
(* length.  To spare bus transfers the library keeps a copy of the number  *)
(* of bytes received, and tells the chip of what it has read only when     *)
(* that is a lot, or everything.  Memory is counted in units: a header is  *)
(* one, and a payload is a few.                                            *)
(***************************************************************************)
EXTENDS Integers, Sequences

CONSTANTS Size,             \* the receive memory of a socket, W5100.SSIZE
          Pointers,         \* the values of its 16-bit pointers
          Threshold,        \* what may be read before the chip is told (250 bytes)
          Ids, MaxPayload   \* the datagrams

ASSUME UdpConstantsOK ==
  /\ Size \in Nat \ {0} /\ Pointers \in Nat /\ Pointers > Size
  /\ Threshold \in 1..Size
  /\ MaxPayload \in 0..(Size - 1)

Datagram == [id : Ids, size : 0..MaxPayload]

VARIABLES
  rd, memory,               \* the chip: Sn_RX_RD, and what is stored from there on
  RX_RSR, RX_RD, RX_inc,    \* socketstate_t: received, where to read, and how far
                            \* that is beyond Sn_RX_RD
  remaining,                \* _remaining: what is left of the open datagram
  udpOp                     \* "closed", "idle" or "parse": in parsePacket

socketstate == <<RX_RSR, RX_RD, RX_inc>>
udpVars == <<rd, memory, socketstate, remaining, udpOp>>

(* What is stored of a datagram: <<d, 0>> is its header, <<d, i>> a unit   *)
(* of its payload.                                                         *)
Stored(d) == [i \in 1..(d.size + 1) |-> <<d, i - 1>>]
Cells == {<<d, i>> : d \in Datagram, i \in 0..MaxPayload}

UdpTypeOK ==
  /\ rd \in 0..(Pointers - 1) /\ memory \in Seq(Cells) /\ Len(memory) <= Size
  /\ RX_RSR \in 0..Size /\ RX_RD \in 0..(Pointers - 1) /\ RX_inc \in 0..(Threshold - 1)
  /\ remaining \in 0..MaxPayload
  /\ udpOp \in {"closed", "idle", "parse"}

UdpInit ==
  /\ rd = 0 /\ memory = <<>>
  /\ RX_RSR = 0 /\ RX_RD = 0 /\ RX_inc = 0
  /\ remaining = 0 /\ udpOp = "closed"

------------------------------------------------------------------------------
(* The chip stores a datagram that it has room for, and drops any other.   *)
Arrives(d) ==
  /\ udpOp # "closed"
  /\ Len(memory) + d.size + 1 <= Size
  /\ memory' = memory \o Stored(d)
  /\ UNCHANGED <<rd, socketstate, remaining, udpOp>>

(* The Sock_RECV command: what lies before ptr is free.                    *)
ChipFrees(ptr) ==
  /\ rd' = ptr
  /\ memory' = SubSeq(memory, ((ptr - rd) % Pointers) + 1, Len(memory))

(* What read_data finds at RX_RD, around the end of the memory.            *)
Unread == SubSeq(memory, ((RX_RD - rd) % Pointers) + 1, Len(memory))

(* socketBegin and socketClose: the chip starts again with an empty memory *)
(* (the pointer stays where it was), and so does the record of it.         *)
ChipEmpties == memory' = <<>> /\ UNCHANGED rd

(* Mutant of StateResets: what was read of the last use is carried over.   *)
StateResetsButInc == RX_RSR' = 0 /\ RX_RD' = rd /\ UNCHANGED RX_inc

StateResets == RX_RSR' = 0 /\ RX_RD' = rd /\ RX_inc' = 0

(* Mutant of RemainingResets: begin leaves the last packet open.           *)
RemainingStays == UNCHANGED remaining

RemainingResets == remaining' = 0

begin ==
  /\ udpOp \in {"closed", "idle"}
  /\ ChipEmpties /\ StateResets /\ RemainingResets
  /\ udpOp' = "idle"

stop ==
  /\ udpOp = "idle"
  /\ ChipEmpties
  /\ udpOp' = "closed"
  /\ UNCHANGED <<socketstate, remaining>>

------------------------------------------------------------------------------
(* socketRecv: the copy is refreshed when it does not hold as much as is   *)
(* wanted, ...                                                             *)
Available(len) == IF RX_RSR < len THEN Len(memory) - RX_inc ELSE RX_RSR

Received(len) == IF Available(len) < len THEN Available(len) ELSE len

(* Mutant of TellChip: the chip is told only of a lot.                     *)
TellChipOfALot(inc, rest) == inc >= Threshold

(* ... and the chip is told when a lot was read, or everything.            *)
TellChip(inc, rest) == inc >= Threshold \/ rest = 0

socketRecv(len) ==
  LET got  == Received(len)
      rest == Available(len) - got
      ptr  == (RX_RD + got) % Pointers
  IN  IF Available(len) = 0
      THEN RX_RSR' = 0 /\ UNCHANGED <<rd, memory, RX_RD, RX_inc>>
      ELSE /\ RX_RD' = ptr /\ RX_RSR' = rest
           /\ IF TellChip(RX_inc + got, rest)
              THEN RX_inc' = 0 /\ ChipFrees(ptr)
              ELSE RX_inc' = RX_inc + got /\ UNCHANGED <<rd, memory>>

(* Mutant of Take: as much as the buffer holds.                            *)
TakeAsAsked(len) ==
  /\ remaining > 0
  /\ socketRecv(len)
  /\ remaining' = IF remaining <= len THEN 0 ELSE remaining - len

(* EthernetUDP::read: no more than is left of the packet.                  *)
Take(len) ==
  LET most == IF remaining <= len THEN remaining ELSE len IN
  /\ remaining > 0
  /\ socketRecv(most)
  /\ remaining' = remaining - Received(most)

read(len) ==
  /\ udpOp = "idle"
  /\ Take(len)
  /\ UNCHANGED udpOp

(* parsePacket: first the rest of the last packet is read, in a loop, ...  *)
parsePacket ==
  /\ udpOp = "idle" /\ udpOp' = "parse"
  /\ UNCHANGED <<rd, memory, socketstate, remaining>>

Discards ==
  /\ udpOp = "parse"
  /\ Take(remaining)
  /\ UNCHANGED udpOp

(* ... then, if anything has arrived, the header of the next ...           *)
OpensPacket ==
  /\ udpOp = "parse" /\ remaining = 0
  /\ Available(1) > 0
  /\ socketRecv(1)
  /\ remaining' = Head(Unread)[1].size
  /\ udpOp' = "idle"

NoPacket ==
  /\ udpOp = "parse" /\ remaining = 0
  /\ Available(1) = 0
  /\ RX_RSR' = 0
  /\ udpOp' = "idle"
  /\ UNCHANGED <<rd, memory, RX_RD, RX_inc, remaining>>

ParseStep == Discards \/ OpensPacket \/ NoPacket

UdpNext ==
  \/ \E d \in Datagram : Arrives(d)
  \/ begin \/ stop
  \/ parsePacket \/ ParseStep
  \/ \E len \in 1..(MaxPayload + 1) : read(len)

UdpSpec == UdpInit /\ [][UdpNext]_udpVars

(* A call goes on.                                                         *)
FairUdpSpec == UdpSpec /\ WF_udpVars(ParseStep)

------------------------------------------------------------------------------
(* Properties                                                              *)

(* The library and the chip agree on what is free: it counts no byte as    *)
(* received that is not, it reads where it says it does, and once it has   *)
(* read everything the chip has all its memory back (otherwise the chip    *)
(* would, in the end, have no room for a datagram).                        *)
MemoryAgrees ==
  udpOp # "closed" =>
    /\ RX_RD = (rd + RX_inc) % Pointers
    /\ RX_RSR + RX_inc <= Len(memory)
    /\ RX_inc = Len(memory) => memory = <<>>

(* The rest of the open packet, and the packets after it.                  *)
IsHeader(c) == c[2] = 0
InHand == SubSeq(Unread, 1, remaining)
Heads(u) ==
  LET heads[n \in 0..Len(u)] ==
        IF n = 0 THEN <<>>
        ELSE LET before == heads[n - 1]
             IN  IF IsHeader(u[n]) THEN Append(before, u[n][1]) ELSE before
  IN  heads[Len(u)]
Queue == Heads(Unread)

(* Whatever is left unread of a packet, whenever others arrive, and        *)
(* wherever the memory wraps around, headers are taken for headers and     *)
(* payload for payload: the object delivers the datagrams of the network   *)
(* in their order (Datagrams), from a memory it counts in two places.      *)
Promised ==
  INSTANCE Datagrams WITH
    queue  <- IF udpOp = "closed" THEN <<>> ELSE Queue,
    inHand <- IF udpOp = "closed" THEN <<>>
              ELSE [i \in 1..Len(InHand) |-> <<InHand[i][1].id, InHand[i][2]>>]

RefinesDatagrams == Promised!Spec

(* parsePacket returns, which its own comment is not sure of: what it      *)
(* counts as left of a packet is always there to be read.                  *)
ParseReturns == udpOp = "parse" ~> udpOp # "parse"
==============================================================================
