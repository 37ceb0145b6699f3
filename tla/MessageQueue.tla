----------------------------- MODULE MessageQueue -----------------------------
(* What the outgoing queue of an MQTT client (queue.c) promises: messages   *)
(* leave whole, in the order they were accepted; one is given up only by a  *)
(* publisher that makes room for its own; and the answer to a caller tells  *)
(* what became of its message.                                              *)
EXTENDS Sequences

CONSTANTS Messages, NoMessage

VARIABLES msgs,         \* the messages accepted and not yet taken
          taken,        \* the message the task took last
          result        \* the answer to the last call, "none" while it runs

queueVars == <<msgs, taken, result>>

QueueInit == msgs = <<>> /\ taken = NoMessage /\ result = "none"

Call == result' = "none" /\ UNCHANGED <<msgs, taken>>

Accept(m) ==
  /\ result = "none"
  /\ msgs' = Append(msgs, m)
  /\ result' = "queued"
  /\ UNCHANGED taken

(* An acknowledgement finds no room: nothing that was accepted is affected. *)
Refuse == result = "none" /\ result' = "refused" /\ UNCHANGED <<msgs, taken>>

(* A publisher makes room ...                                               *)
DropOldest ==
  /\ result = "none" /\ msgs # <<>>
  /\ msgs' = Tail(msgs)
  /\ UNCHANGED <<taken, result>>

(* ... and gives up only when there is nothing left to drop.                *)
GiveUp == result = "none" /\ msgs = <<>> /\ result' = "failed" /\ UNCHANGED <<msgs, taken>>

Take ==
  /\ result = "none" /\ msgs # <<>>
  /\ taken' = Head(msgs) /\ msgs' = Tail(msgs)
  /\ result' = "taken"

FindNothing == result = "none" /\ msgs = <<>> /\ result' = "nothing" /\ UNCHANGED <<msgs, taken>>

QueueNext ==
  \/ Call \/ Refuse \/ DropOldest \/ GiveUp \/ Take \/ FindNothing
  \/ \E m \in Messages : Accept(m)

QueueSpec == QueueInit /\ [][QueueNext]_queueVars
==============================================================================
