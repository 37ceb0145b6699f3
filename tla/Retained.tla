------------------------------- MODULE Retained -------------------------------
(* What the list of retained messages promises the broker: at most          *)
(* Capacity entries, one for a topic, the one of its last accepted update;  *)
(* an update that is refused may cost the entry of its own topic, and no    *)
(* other.  A listener is told of every other change.                        *)
EXTENDS Naturals, FiniteSets

CONSTANTS Capacity, Nothing, Deletion

VARIABLES kept,             \* the entries
          listener,         \* whether somebody is to be told of changes
          told,             \* what he was told in this step
          answer,           \* the update of this step and what became of it
          given             \* the entries that its search found

retainedPromise == <<kept, listener, told, answer, given>>

Others(t) == {e \in kept : e.topic # t}

NoAnswer == answer' = Nothing /\ given' = {}

Tell(what) == told' = IF listener THEN what ELSE Nothing

RetainedStart ==
  /\ kept = {} /\ listener = FALSE /\ told = Nothing
  /\ answer = Nothing /\ given = {}

Restart ==
  /\ kept' = {} /\ listener' = FALSE /\ told' = Nothing
  /\ NoAnswer

Listen ==
  /\ listener' = TRUE /\ told' = Nothing /\ NoAnswer
  /\ UNCHANGED kept

Keep(e) ==
  /\ kept' = Others(e.topic) \cup {e} /\ Cardinality(kept') <= Capacity
  /\ answer' = [update |-> e, done |-> TRUE] /\ Tell(e)
  /\ given' = {} /\ UNCHANGED listener

Forget(e) ==
  /\ kept' = Others(e.topic)
  /\ answer' = [update |-> e, done |-> TRUE]
  /\ IF kept' = kept THEN told' = Nothing ELSE Tell(Deletion)
  /\ given' = {} /\ UNCHANGED listener

Refuse(e) ==
  /\ kept' \in {kept, Others(e.topic)}
  /\ answer' = [update |-> e, done |-> FALSE] /\ told' = Nothing
  /\ given' = {} /\ UNCHANGED listener

Clear ==
  /\ kept' = {}
  /\ IF kept = {} THEN told' = Nothing ELSE Tell(Deletion)
  /\ NoAnswer /\ UNCHANGED listener

Find ==
  /\ given' \in SUBSET kept
  /\ \A e, f \in kept : e.topic = f.topic => (e \in given' <=> f \in given')
  /\ answer' = Nothing /\ told' = Nothing
  /\ UNCHANGED <<kept, listener>>

Quiet == told' = Nothing /\ NoAnswer /\ UNCHANGED <<kept, listener>>

(* An update to any message whatever; one without data deletes.             *)
Answered(e) ==
  \/ e.data = <<>> /\ Forget(e)
  \/ e.data # <<>> /\ Keep(e)
  \/ Refuse(e)

RetainedNext ==
  \/ Restart \/ Listen \/ Clear \/ Find \/ Quiet
  \/ answer' # Nothing /\ Answered(answer'.update)

RetainedSpec == RetainedStart /\ [][RetainedNext]_retainedPromise
==============================================================================
