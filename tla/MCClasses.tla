------------------------------ MODULE MCClasses ------------------------------
(* The classes of the broker and of the MQTT server program that nothing   *)
(* connects yet: a behaviour follows the objects of one of them.           *)
EXTENDS RingBuf, RetainedList, MqttTopic, MqttMessage, MqttServer

VARIABLE class

classVars ==
  <<vars, retainedVars, topicVars, messageVars, serverVars, class>>

TwoBytes == {0, 1}

Message(t, data) == [topic |-> t, data |-> data, qos |-> 1]
SomeMessages ==
  {Message(<<97>>, d) : d \in {<<>>, <<1>>, <<0, 2, 0>>}}
    \cup {Message(t, d) : t \in {<<97, 98>>, <<>>}, d \in {<<>>, <<1>>}}
SomeFilters == {{<<>>, <<97>>, <<97, 98>>}, {<<97>>}}

Words(chars, n) == UNION {[1..k -> chars] : k \in 0..n}
TopicNames ==
  Words({"a", "/", "+", "#"}, 6) \cup Words({"a", "/", "+", "#", "$", " "}, 2)
    \cup {[i \in 1..7 |-> "a"]}

Letters(n) == [i \in 1..n |-> 97]
SomePublications ==
  [topic : {Letters(1), Letters(3)}, payload : {<<>>, Letters(1), Letters(126)}]
SomeLists ==
  {<<>>, <<Letters(1)>>, <<Letters(50), Letters(51), Letters(1)>>,
   [i \in 1..6 |-> Letters(i)], [i \in 1..5 |-> Letters(50)]}
SomeClientIds == {<<>>, Letters(1)}
SomeGrants == {<<>>, <<0, 128>>} \cup {[i \in 1..n |-> 0] : n \in {125, 126}}

ThreePeers == 1..3
OwnIds == [p \in ThreePeers |-> p]

ClassesInit ==
  /\ Init /\ RetainedInit /\ TopicInit /\ MessageInit /\ MqttServerInit
  /\ class \in {"RingBuf", "RetainedList", "MqttTopic", "MqttMessage", "MqttServer"}

ClassesNext ==
  /\ UNCHANGED class
  /\ \/ /\ class = "RingBuf" /\ Next
        /\ UNCHANGED <<retainedVars, topicVars, messageVars, serverVars>>
     \/ /\ class = "RetainedList" /\ RetainedListNext
        /\ UNCHANGED <<vars, topicVars, messageVars, serverVars>>
     \/ /\ class = "MqttTopic" /\ TopicNext
        /\ UNCHANGED <<vars, retainedVars, messageVars, serverVars>>
     \/ /\ class = "MqttMessage" /\ MessageNext
        /\ UNCHANGED <<vars, retainedVars, topicVars, serverVars>>
     \/ /\ class = "MqttServer" /\ MqttServerNext
        /\ UNCHANGED <<vars, retainedVars, topicVars, messageVars>>

ClassesSpec == ClassesInit /\ [][ClassesNext]_classVars
==============================================================================
