------------------------------- MODULE ByteFifo -------------------------------
(* A bounded first-in first-out buffer of bytes: what RINGBUF promises its  *)
(* users (mqtt broker/lib/rMQTTBroker/src/ringbuf_mqtt.c).                  *)
EXTENDS Integers, Sequences

CONSTANTS Byte,         \* the bytes that are put, 0 (os_zalloc) among them
          Size          \* bytes of the buffer

(* RINGBUF_Init refuses a buffer of less than two bytes.                    *)
ASSUME FifoConstantsOK ==
  /\ Byte \subseteq 0..255 /\ 0 \in Byte
  /\ Size \in Nat /\ Size >= 2

VARIABLES q,            \* the bytes put and not yet got, oldest first
          rc,           \* what the last call returned: 0, or -1 (failed)
          out           \* the byte the last successful Get handed out

fifoVars == <<q, rc, out>>

FifoTypeOK ==
  /\ q \in Seq(Byte) /\ Len(q) <= Size
  /\ rc \in {0, -1} /\ out \in Byte

FifoInit == q = <<>> /\ rc = 0 /\ out = 0

(* Mutant of Put: the boundary is off by one.                               *)
PutOneTooMany(c) ==
  \/ Len(q) <= Size /\ q' = Append(q, c) /\ rc' = 0 /\ UNCHANGED out
  \/ Len(q) > Size /\ rc' = -1 /\ UNCHANGED <<q, out>>

(* RINGBUF_Put                                                              *)
Put(c) ==
  \/ Len(q) < Size /\ q' = Append(q, c) /\ rc' = 0 /\ UNCHANGED out
  \/ Len(q) = Size /\ rc' = -1 /\ UNCHANGED <<q, out>>

(* RINGBUF_Get                                                              *)
Get ==
  \/ q # <<>> /\ out' = Head(q) /\ q' = Tail(q) /\ rc' = 0
  \/ q = <<>> /\ rc' = -1 /\ UNCHANGED <<q, out>>

FifoNext == Get \/ \E c \in Byte : Put(c)

FifoSpec == FifoInit /\ [][FifoNext]_fifoVars
==============================================================================
