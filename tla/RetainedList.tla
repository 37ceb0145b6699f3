----------------------------- MODULE RetainedList -----------------------------
(***************************************************************************)
(* The list of retained messages of the broker (esp01-projects/mqtt        *)
(* broker, lib/rMQTTBroker/src/mqtt_broker_retained_list.cpp), with its    *)
(* saved copy in a buffer that survives a restart.                         *)
(*                                                                         *)
(* Topics and data are sequences of bytes.  The owner of the list, who is  *)
(* not in this program yet, creates it after a start, loads the saved copy *)
(* into an empty list, and stores a copy only if serialising succeeds; the *)
(* buffer it uses holds the last copy, which may be longer.                *)
(*                                                                         *)
(* Any allocation may fail.  The length of an entry in the copy is read as *)
(* buf[pos++] + (buf[pos++] << 8), whose operands the compiler may         *)
(* evaluate in either order.                                               *)
(***************************************************************************)
EXTENDS Naturals, Sequences

CONSTANTS RetainedMessages, \* those that are published: [topic, data, qos]
          Filters,          \* the topics that a subscription matches: Topics_matches
          MaxEntry,         \* max_entry
          BufferLength,     \* the buffer of the copy; positions have 16 bits
          Free, NoList      \* an entry without a topic, no list

Uint8 == 0..255
Entry == [topic : Seq(Uint8 \ {0}), data : Seq(Uint8), qos : Uint8]
Lists == [1..MaxEntry -> Entry \cup {Free}]

ASSUME RetainedConstantsOK ==
  /\ \A m \in RetainedMessages : m \in Entry /\ m.qos \in 0..2
  /\ MaxEntry \in Nat \ {0} /\ BufferLength \in Nat \ {0} /\ BufferLength < 65536

ASSUME NothingIsNoEntry == Free \notin Entry /\ NoList \notin Lists

VARIABLES retained_list,    \* the array, NoList when it is NULL
          retained_cb,      \* whether a callback is registered
          cbCalled,         \* what it was called with in this step
          updated,          \* the last update and its result
          found,            \* what the last find_retainedtopic called back with
          buf, saved,       \* the copy, and the entries it was made from
          loading,          \* deserialize_retainedtopics: its position and order
          loaded            \* its last result

retainedVars ==
  <<retained_list, retained_cb, cbCalled, updated, found, buf, saved, loading, loaded>>
copy == <<buf, saved>>
load == <<loading, loaded>>

Idle   == [pos |-> BufferLength, order |-> "none"]
Silent  == [entry |-> "none"]
Nobody  == [entry |-> "NULL"]

Held == IF retained_list = NoList THEN {}
        ELSE {i \in 1..MaxEntry : retained_list[i] # Free}
Kept == {retained_list[i] : i \in Held}

RetainedInit ==
  /\ retained_list = NoList /\ retained_cb = FALSE
  /\ cbCalled = Silent /\ updated = Silent /\ found = {}
  /\ buf = [i \in 1..BufferLength |-> 0] /\ saved = {}
  /\ loading = Idle /\ loaded = "no"

------------------------------------------------------------------------------
(* What a step lets its caller see, when it is neither an update nor a      *)
(* search.                                                                 *)
NoResult == updated' = Silent /\ found' = {}
Unseen   == NoResult /\ cbCalled' = Silent

Call(what) == cbCalled' = IF retained_cb THEN what ELSE Silent

create_retainedlist ==
  /\ loading = Idle /\ retained_list = NoList
  /\ retained_list' \in {[i \in 1..MaxEntry |-> Free], NoList}
  /\ retained_cb' = FALSE /\ Unseen
  /\ UNCHANGED <<copy, load>>

set_on_retainedtopic_cb ==
  /\ loading = Idle /\ retained_list # NoList
  /\ retained_cb' = TRUE /\ Unseen
  /\ UNCHANGED <<retained_list, copy, load>>

(* The chip restarts: what is in memory is lost.                           *)
Restarts ==
  /\ retained_list' = NoList /\ retained_cb' = FALSE /\ Unseen
  /\ loading' = Idle /\ loaded' = "no"
  /\ UNCHANGED copy

(* Mutant of Place: the search for the topic ends at the first free entry. *)
PlaceBeforeHole(t) ==
  {i \in Held : retained_list[i].topic = t /\ 1..i \subseteq Held}

(* The entry of the topic, if there is one; and the free entries.          *)
Place(t) == {i \in Held : retained_list[i].topic = t}
FreePlaces == 1..MaxEntry \ Held

(* The entry that an update of topic t uses.                               *)
Uses(t, i) ==
  IF Place(t) # {} THEN i \in Place(t) /\ \A j \in Place(t) : i <= j
  ELSE i \in FreePlaces /\ \A j \in FreePlaces : i <= j

Answers(e, result) == updated' = [update |-> e, done |-> result]

UpdateRefused(e) ==
  /\ UNCHANGED retained_list
  /\ Answers(e, FALSE) /\ cbCalled' = Silent

Deletes(e) ==
  /\ e.data = <<>>
  /\ \/ Place(e.topic) = {} /\ UNCHANGED retained_list /\ cbCalled' = Silent
     \/ \E i \in Place(e.topic) :
          /\ Uses(e.topic, i)
          /\ retained_list' = [retained_list EXCEPT ![i] = Free]
          /\ Call(Nobody)
  /\ Answers(e, TRUE)

Stores(e) ==
  /\ e.data # <<>>
  /\ \E i \in 1..MaxEntry :
       /\ Uses(e.topic, i)
       /\ retained_list' = [retained_list EXCEPT ![i] = e]
  /\ Answers(e, TRUE) /\ Call(e)

(* No memory for the topic: nothing has changed.  No memory for the data,  *)
(* after the old data has been freed: the entry is lost, without a call.   *)
OutOfMemory(e) ==
  /\ e.data # <<>>
  /\ \E i \in 1..MaxEntry :
       /\ Uses(e.topic, i)
       /\ IF retained_list[i] = Free THEN UNCHANGED retained_list
          ELSE /\ Len(e.data) # Len(retained_list[i].data)
               /\ retained_list' = [retained_list EXCEPT ![i] = Free]
  /\ Answers(e, FALSE) /\ cbCalled' = Silent

update_retainedtopic(e) ==
  \/ retained_list = NoList /\ UpdateRefused(e)
  \/ /\ retained_list # NoList
     /\ \/ Deletes(e) \/ Stores(e) \/ OutOfMemory(e)
        \/ /\ e.data # <<>> /\ Place(e.topic) = {} /\ FreePlaces = {}
           /\ UpdateRefused(e)

Update == \E e \in RetainedMessages :
  /\ loading = Idle
  /\ update_retainedtopic(e)
  /\ found' = {}
  /\ UNCHANGED <<retained_cb, copy, load>>

find_retainedtopic == \E F \in Filters :
  /\ loading = Idle
  /\ found' = {e \in Kept : e.topic \in F}
  /\ updated' = Silent /\ cbCalled' = Silent
  /\ UNCHANGED <<retained_list, retained_cb, copy, load>>

(* clear_cb deletes each entry in turn.                                    *)
clear_retainedtopics ==
  /\ loading = Idle /\ retained_list # NoList
  /\ retained_list' = [i \in 1..MaxEntry |-> Free]
  /\ IF Held = {} THEN cbCalled' = Silent ELSE Call(Nobody)
  /\ NoResult
  /\ UNCHANGED <<retained_cb, copy, load>>

------------------------------------------------------------------------------
(* The saved copy.                                                         *)

Written(e) ==
  e.topic \o <<0, Len(e.data) % 256, Len(e.data) \div 256>> \o e.data \o <<e.qos>>

(* Mutant of Terminated: a 0 is written only after an empty list.          *)
TerminatedIfEmpty(bytes) == IF bytes = <<>> THEN <<0>> ELSE bytes

(* The entries end with a 0, which an empty list consists of.              *)
Terminated(bytes) == bytes \o <<0>>

(* What is written after each entry: one without a topic is passed over.   *)
Copied(list) ==
  LET copied[i \in 0..MaxEntry] ==
        IF i = 0 THEN <<>>
        ELSE IF list[i] = Free THEN copied[i - 1]
        ELSE copied[i - 1] \o Written(list[i])
  IN  copied

(* The check before an entry is written at position pos.                   *)
NoRoom(pos, e) == pos + Len(e.topic) + 4 + Len(e.data) + 1 >= BufferLength - 1

Fits == \A i \in Held : ~NoRoom(Len(Copied(retained_list)[i - 1]), retained_list[i])

serialize_retainedtopics ==
  /\ loading = Idle /\ retained_list # NoList /\ Fits
  /\ LET bytes == Terminated(Copied(retained_list)[MaxEntry])
     IN buf' = bytes \o SubSeq(buf, Len(bytes) + 1, BufferLength)
  /\ saved' = Kept
  /\ Unseen
  /\ UNCHANGED <<retained_list, retained_cb, load>>

deserialize_retainedtopics ==
  /\ loading = Idle /\ retained_list # NoList /\ Held = {}
  /\ \E order \in {"left", "right"} : loading' = [pos |-> 0, order |-> order]
  /\ loaded' = "no" /\ Unseen
  /\ UNCHANGED <<retained_list, retained_cb, copy>>

(* The byte at a position.                                                 *)
Byte0(pos) == IF pos < BufferLength THEN buf[pos + 1] ELSE 0

EndOfString(pos) ==
  CHOOSE p \in pos..BufferLength : Byte0(p) = 0 /\ \A q \in pos..p - 1 : Byte0(q) # 0

ReadLength(pos) ==
  IF loading.order = "left" THEN Byte0(pos) + 256 * Byte0(pos + 1)
  ELSE Byte0(pos + 1) + 256 * Byte0(pos)

LoadReturns(result) == loading' = Idle /\ loaded' = result

(* One turn of the loop: the end, an entry that does not end in the buffer *)
(* (or whose end a 16-bit position passes), or an update.                  *)
LoadEnds ==
  /\ loading # Idle /\ Byte0(loading.pos) = 0
  /\ LoadReturns("yes") /\ Unseen
  /\ UNCHANGED <<retained_list, retained_cb, copy>>

DataAt == EndOfString(loading.pos) + 3
AfterData == (DataAt + ReadLength(DataAt - 2)) % 65536

LoadFails ==
  /\ loading # Idle /\ Byte0(loading.pos) # 0
  /\ DataAt - 2 >= BufferLength \/ AfterData >= BufferLength
  /\ LoadReturns("failed") /\ Unseen
  /\ UNCHANGED <<retained_list, retained_cb, copy>>

LoadsEntry ==
  /\ loading # Idle /\ Byte0(loading.pos) # 0
  /\ DataAt - 2 < BufferLength /\ AfterData < BufferLength
  /\ LET e == [topic |-> SubSeq(buf, loading.pos + 1, DataAt - 3),
               data  |-> SubSeq(buf, DataAt + 1, AfterData),
               qos   |-> Byte0(AfterData)]
     IN update_retainedtopic(e)
  /\ IF updated'.done THEN loading' = [loading EXCEPT !.pos = AfterData + 1] /\ UNCHANGED loaded
     ELSE LoadReturns("failed")
  /\ found' = {}
  /\ UNCHANGED <<retained_cb, copy>>

RetainedListNext ==
  \/ create_retainedlist \/ set_on_retainedtopic_cb \/ Restarts
  \/ Update \/ find_retainedtopic \/ clear_retainedtopics
  \/ serialize_retainedtopics
  \/ deserialize_retainedtopics \/ LoadEnds \/ LoadFails \/ LoadsEntry

------------------------------------------------------------------------------
(* Properties                                                              *)

(* The array with its holes is a map from topics to messages: no topic has *)
(* two entries, an update reaches the entry that a search finds, a refused *)
(* one harms no other topic, and what a load brings in is updates.         *)
Promise ==
  INSTANCE Retained WITH
    Capacity <- MaxEntry, Nothing <- Silent, Deletion <- Nobody,
    kept <- Kept, listener <- retained_cb, told <- cbCalled,
    answer <- updated, given <- found

RefinesRetained == Promise!RetainedSpec

(* A copy that loads without a complaint is the list that was saved, also  *)
(* when it was written over a longer one: provided that the compiler reads *)
(* the length from the left, and that no topic was empty (its 0 ends the   *)
(* copy).                                                                  *)
LoadRestores ==
  [][/\ loading # Idle /\ loaded' = "yes" /\ loading.order = "left"
     /\ \A e \in saved : e.topic # <<>>
     => Kept' = saved]_retainedVars
==============================================================================
