------------------------------ MODULE ProtoQueue ------------------------------
(* The outgoing message queue of an MQTT client: QUEUE_Puts and QUEUE_Gets  *)
(* (queue.c) frame messages in a ring of bytes (proto.c), and the callers   *)
(* in mqtt.c decide what happens when the ring is full (all in mqtt         *)
(* broker/lib/rMQTTBroker/src).                                             *)
(*                                                                          *)
(* A call runs to completion on the only thread; its loop is modelled byte  *)
(* by byte, each step one RINGBUF call, because a call that fails half way  *)
(* leaves in the ring what it has put so far.                               *)
EXTENDS ByteFifo

CONSTANTS Messages,     \* messages that are queued
          NoMessage,
          BufSize       \* MQTT_BUF_SIZE, the buffer a message is got into

ASSUME QueueConstantsOK ==
  /\ Byte = 0..255
  /\ Messages \subseteq Seq(Byte) /\ NoMessage \notin Messages
  /\ BufSize \in Nat /\ BufSize >= Size   \* both are 2048

ESC   == 125            \* 0x7D
BEGIN == 126            \* 0x7E
END   == 127            \* 0x7F

(* Mutant of Special: the end mark is not escaped.                          *)
SpecialWithoutEnd == {ESC, BEGIN}

Special == {ESC, BEGIN, END}

Flip(b) == IF (b \div 32) % 2 = 1 THEN b - 32 ELSE b + 32    \* b ^ 0x20

VARIABLES
  op,                   \* who is calling: "publish" drops older messages for
                        \* room, "respond" does not, "task" takes a message
  phase,                \* where the call is
  msg, pos,             \* the message being put, its next byte
  parser,               \* the PROTO_PARSER of the Gets that is running
  taken, result         \* what the task took last, the answer to the call

callVars == <<op, phase, msg, pos, parser>>
vars == <<fifoVars, callVars, taken, result>>

(* isBegin is not initialised by PROTO_Init.                                *)
NewParser == [buf |-> <<>>, isEsc |-> FALSE, isBegin |-> "unset"]

Parser == [buf : Seq(Byte), isEsc : BOOLEAN, isBegin : {"unset", "yes", "no"}]

Ops     == {"none", "publish", "respond", "task"}
Phases  == {"idle", "begin", "body", "flip", "gets"}
Results == {"none", "queued", "refused", "failed", "taken", "nothing"}

TypeOK ==
  /\ FifoTypeOK
  /\ op \in Ops /\ phase \in Phases /\ result \in Results
  /\ msg \in Messages \cup {NoMessage} /\ pos \in Nat
  /\ parser \in Parser /\ Len(parser.buf) <= BufSize
  /\ op \in {"publish", "respond"} <=> msg # NoMessage
  /\ phase \in {"begin", "body", "flip"} => op \in {"publish", "respond"}
  /\ phase = "idle" => op = "none"
  /\ phase = "gets" => op \in {"publish", "task"}
  /\ phase = "begin" => pos = 1
  /\ phase = "body" => pos \in 1 .. Len(msg) + 1
  /\ phase = "flip" => pos \in 1 .. Len(msg)

Init ==
  /\ FifoInit
  /\ op = "none" /\ phase = "idle" /\ msg = NoMessage /\ pos = 0
  /\ parser = NewParser
  /\ taken = NoMessage /\ result = "none"

------------------------------------------------------------------------------
(* QUEUE_Puts: PROTO_AddRb.                                                 *)

StartPuts == phase' = "begin" /\ pos' = 1 /\ parser' = NewParser

StartGets == phase' = "gets" /\ parser' = NewParser /\ UNCHANGED pos

Return(r) ==
  /\ result' = r
  /\ op' = "none" /\ phase' = "idle" /\ msg' = NoMessage /\ pos' = 0
  /\ parser' = NewParser

(* What the callers do about a failed Puts: MQTT_Publish and its siblings   *)
(* get, and forget, the oldest message; a response is only logged.          *)
PutsFails ==
  /\ UNCHANGED taken
  /\ \/ op = "publish" /\ StartGets /\ UNCHANGED <<op, msg, result>>
     \/ op = "respond" /\ Return("refused")

(* The byte has been put and the call goes on, or the ring is full.         *)
Advance(next, n) ==
  \/ rc' = 0 /\ phase' = next /\ pos' = n /\ UNCHANGED <<op, msg, parser, taken, result>>
  \/ rc' = -1 /\ PutsFails

PutBegin == phase = "begin" /\ Put(BEGIN) /\ Advance("body", pos)

PutPlain ==
  /\ phase = "body" /\ pos <= Len(msg) /\ msg[pos] \notin Special
  /\ Put(msg[pos]) /\ Advance("body", pos + 1)

PutEscape ==
  /\ phase = "body" /\ pos <= Len(msg) /\ msg[pos] \in Special
  /\ Put(ESC) /\ Advance("flip", pos)

PutFlipped == phase = "flip" /\ Put(Flip(msg[pos])) /\ Advance("body", pos + 1)

PutEnd ==
  /\ phase = "body" /\ pos > Len(msg)
  /\ Put(END)
  /\ \/ rc' = 0 /\ Return("queued") /\ UNCHANGED taken
     \/ rc' = -1 /\ PutsFails

------------------------------------------------------------------------------
(* QUEUE_Gets: PROTO_ParseRb.                                               *)

Store(p, b) == IF Len(p.buf) < BufSize THEN [p EXCEPT !.buf = Append(@, b)] ELSE p

(* PROTO_ParseByte of a byte that is not the end mark.                      *)
ParseByte(p, b) ==
  CASE b = ESC                         -> [p EXCEPT !.isEsc = TRUE]
    [] b = BEGIN                       -> [buf |-> <<>>, isEsc |-> FALSE, isBegin |-> "yes"]
    [] b \notin Special /\ p.isBegin = "no" -> p
    [] b \notin Special /\ p.isBegin # "no" ->
         Store([p EXCEPT !.isEsc = FALSE], IF p.isEsc THEN Flip(b) ELSE b)

(* An uninitialised isBegin reads as either value.                          *)
Read(p) == IF p.isBegin = "unset" THEN {[p EXCEPT !.isBegin = v] : v \in {"yes", "no"}} ELSE {p}

GetsByte ==
  /\ phase = "gets"
  /\ Get /\ rc' = 0 /\ out' # END
  /\ \E p \in Read(parser) : parser' = ParseByte(p, out')
  /\ UNCHANGED <<op, phase, msg, pos, taken, result>>

(* Mutant of RetryPuts: the publisher goes on where it was refused.         *)
ResumePuts == phase' = "body" /\ UNCHANGED pos /\ parser' = NewParser

(* The publisher tries its own message again, from its first byte.          *)
RetryPuts == StartPuts

GetsDone ==
  /\ phase = "gets"
  /\ Get /\ rc' = 0 /\ out' = END
  /\ \/ op = "task" /\ taken' = parser.buf /\ Return("taken")
     \/ op = "publish" /\ RetryPuts /\ UNCHANGED <<op, msg, taken, result>>

(* Mutant of GetsFails: a publisher that found nothing to drop tries again. *)
GetsFailsAndRetries ==
  /\ phase = "gets"
  /\ Get /\ rc' = -1
  /\ UNCHANGED taken
  /\ \/ op = "task" /\ Return("nothing")
     \/ op = "publish" /\ StartPuts /\ UNCHANGED <<op, msg, result>>

(* There is no end mark in the ring, which is empty now.                    *)
GetsFails ==
  /\ phase = "gets"
  /\ Get /\ rc' = -1
  /\ Return(IF op = "task" THEN "nothing" ELSE "failed")
  /\ UNCHANGED taken

------------------------------------------------------------------------------
(* The callers.                                                             *)

(* MQTT_Publish, MQTT_Subscribe, MQTT_UnSubscribe and MQTT_Ping.            *)
Publish(m) ==
  /\ phase = "idle"
  /\ op' = "publish" /\ msg' = m /\ result' = "none" /\ StartPuts
  /\ UNCHANGED <<fifoVars, taken>>

(* mqtt_tcpclient_recv: PUBACK, PUBREC, PUBREL, PUBCOMP and PINGRESP.       *)
Respond(m) ==
  /\ phase = "idle"
  /\ op' = "respond" /\ msg' = m /\ result' = "none" /\ StartPuts
  /\ UNCHANGED <<fifoVars, taken>>

(* MQTT_Task, in MQTT_DATA, when the last message has been sent.            *)
TaskTakes ==
  /\ phase = "idle" /\ q # <<>>       \* QUEUE_IsEmpty
  /\ op' = "task" /\ result' = "none" /\ StartGets
  /\ UNCHANGED <<fifoVars, msg, taken>>

CallStep ==
  \/ PutBegin \/ PutPlain \/ PutEscape \/ PutFlipped \/ PutEnd
  \/ GetsByte \/ GetsDone \/ GetsFails

Next == CallStep \/ TaskTakes \/ \E m \in Messages : Publish(m) \/ Respond(m)

Spec == Init /\ [][Next]_vars

(* A call that has begun goes on: nothing else runs before it returns.      *)
FairSpec == Spec /\ WF_vars(CallStep)

------------------------------------------------------------------------------
(* Properties                                                               *)

(* The first byte a Gets reads is always a begin mark: the uninitialised    *)
(* isBegin of its parser is written before it is read, whatever partial     *)
(* frames the refused Puts have left in the ring.                           *)
ParserSynchronised ==
  parser.isBegin = "unset" /\ q # <<>> => Head(q) = BEGIN

(* Every call returns; in particular the loop "while QUEUE_Puts fails,      *)
(* QUEUE_Gets" of the publishers ends, also for a message that can never    *)
(* fit.                                                                     *)
CallsReturn == phase # "idle" ~> phase = "idle"

(* A byte is parsed; the end mark delivers a message to a Gets, which the   *)
(* next one follows.                                                        *)
Decoded(s, b) ==
  IF b = END THEN [p |-> NewParser, msgs |-> Append(s.msgs, s.p.buf)]
  ELSE [p |-> ParseByte(s.p, b), msgs |-> s.msgs]

(* What becomes of the first bytes of a sequence, for a Gets that has come  *)
(* as far as "p" and those that follow it.                                  *)
Decoding(p, bytes) ==
  LET decoding[n \in 0..Len(bytes)] ==
        IF n = 0 THEN [p |-> p, msgs |-> <<>>]
        ELSE Decoded(decoding[n - 1], bytes[n])
  IN  decoding

(* The messages a sequence of bytes will be got as.                         *)
Decode(p, bytes) == Decoding(p, bytes)[Len(bytes)].msgs

Queue == INSTANCE MessageQueue WITH msgs <- Decode(parser, q)

(* In spite of refused messages whose first bytes stay in the ring, the     *)
(* bytes in it are a queue of whole messages: what the task takes is what   *)
(* was accepted, in order, a refused response disturbs no other message,    *)
(* and a publisher gives up only after all others have been dropped.        *)
RefinesQueue == Queue!QueueSpec
==============================================================================
