------------------------------- MODULE RingBuf --------------------------------
(* RINGBUF of mqtt broker/lib/rMQTTBroker/src/ringbuf_mqtt.c: a byte buffer *)
(* with a read and a write pointer that roll back at its physical end, and  *)
(* a separate count of the filled slots.  Pointers are offsets from p_o.    *)
(* A call runs to completion: it is used from one thread only.              *)
EXTENDS Integers, Sequences

CONSTANTS Byte, Size

ASSUME RingConstantsOK ==
  /\ Byte \subseteq 0..255 /\ 0 \in Byte
  /\ Size \in Nat /\ Size >= 2      \* otherwise RINGBUF_Init refuses

VARIABLES mem,          \* the bytes from p_o on
          p_r, p_w,     \* read and write pointer
          fill_cnt,     \* number of filled slots
          rc, out       \* the result of the last call, the byte it got

vars == <<mem, p_r, p_w, fill_cnt, rc, out>>

Slot == 0 .. Size - 1

TypeOK ==
  /\ mem \in [Slot -> Byte]
  /\ p_r \in Slot /\ p_w \in Slot
  /\ fill_cnt \in 0..Size
  /\ rc \in {0, -1} /\ out \in Byte

(* RINGBUF_Init on the zeroed memory of QUEUE_Init.                         *)
Init ==
  /\ mem = [s \in Slot |-> 0]
  /\ p_r = 0 /\ p_w = 0 /\ fill_cnt = 0
  /\ rc = 0 /\ out = 0

(* Mutant of RollBack: the pointer is compared with the last slot.          *)
RollBackTooLate(s) == IF s + 1 > Size THEN 0 ELSE s + 1

(* "++", then back to the start at the physical boundary.                   *)
RollBack(s) == IF s + 1 >= Size THEN 0 ELSE s + 1

(* Mutant of RingPut: the count is not looked at before the byte is stored. *)
RingPutUnchecked(c) ==
  /\ fill_cnt' = IF fill_cnt = Size THEN Size ELSE fill_cnt + 1
  /\ mem' = [mem EXCEPT ![p_w] = c]
  /\ p_w' = RollBack(p_w)
  /\ rc' = 0
  /\ UNCHANGED <<p_r, out>>

(* RINGBUF_Put                                                              *)
RingPut(c) ==
  \/ /\ fill_cnt < Size
     /\ fill_cnt' = fill_cnt + 1
     /\ mem' = [mem EXCEPT ![p_w] = c]
     /\ p_w' = RollBack(p_w)
     /\ rc' = 0
     /\ UNCHANGED <<p_r, out>>
  \/ /\ fill_cnt >= Size
     /\ rc' = -1
     /\ UNCHANGED <<mem, p_r, p_w, fill_cnt, out>>

(* RINGBUF_Get                                                              *)
RingGet ==
  \/ /\ fill_cnt > 0
     /\ fill_cnt' = fill_cnt - 1
     /\ out' = mem[p_r]
     /\ p_r' = RollBack(p_r)
     /\ rc' = 0
     /\ UNCHANGED <<mem, p_w>>
  \/ /\ fill_cnt <= 0
     /\ rc' = -1
     /\ UNCHANGED <<mem, p_r, p_w, fill_cnt, out>>

Next == RingGet \/ \E c \in Byte : RingPut(c)

Spec == Init /\ [][Next]_vars

------------------------------------------------------------------------------
(* The slot of the n-th oldest byte.                                        *)
SlotOf(n) == IF p_r + n - 1 >= Size THEN p_r + n - 1 - Size ELSE p_r + n - 1

(* The count and the two pointers, which are stepped separately, agree: the *)
(* slot after the newest byte is the one that is written next.              *)
PointersAgree == p_w = SlotOf(fill_cnt + 1)

content == [n \in 1 .. fill_cnt |-> mem[SlotOf(n)]]

Fifo == INSTANCE ByteFifo WITH q <- content

(* Through every wrap of the two pointers the ring buffer behaves as a      *)
(* bounded FIFO: no byte is lost, repeated, reordered or overwritten.       *)
RefinesFifo == Fifo!FifoSpec
==============================================================================
