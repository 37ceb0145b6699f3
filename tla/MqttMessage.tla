----------------------------- MODULE MqttMessage -----------------------------
(***************************************************************************)
(* The MqttMessage class, which writes MQTT packets into its message_, and *)
(* the thirteen parser classes that read one packet each (esp01-projects/  *)
(* mqtt server, src/mqtt_message.cpp and src/mqtt_*_parser.cpp).           *)
(*                                                                         *)
(* Nothing empties message_: a second creation on the same object appends. *)
(* A parser is given the bytes as the other device receives them, for the  *)
(* kind of its first packet.                                               *)
(*                                                                         *)
(* A two-byte number is read as (m[i++] << 8) + m[i++], whose operands the *)
(* compiler may evaluate in either order: the order is chosen at each      *)
(* parse.  A read past the end of the bytes is undefined: what it yields,  *)
(* and all that follows it, is recorded as Overrun.                        *)
(***************************************************************************)
EXTENDS Naturals, SequencesExt

CONSTANTS Identifiers,     \* packet identifiers, unsigned short
          ClientIds,       \* strings: sequences of bytes
          Publications,    \* topic and payload
          TopicLists,      \* the topics of a SUBSCRIBE or an UNSUBSCRIBE
          GrantLists,      \* the granted QoS of a SUBACK
          MaxStringLength, \* MAX_TOPIC_LENGTH
          MaxTopicsInSubscribe,
          MaxPackets       \* bound: packets created on one object

VARIABLES message_, qos_, retain_,
          made,            \* the creations so far: their kinds and arguments
          begins,          \* the index of the first byte of each
          read             \* what the last parser found

messageVars == <<message_, qos_, retain_, made, begins, read>>

Octet == 0..255

ASSUME MessageInputsOK ==
  /\ \A id \in Identifiers : id \in Nat /\ id < 65536
  /\ \A id \in ClientIds : id \in Seq(Octet)
  /\ \A p \in Publications : p.topic \in Seq(Octet) /\ p.payload \in Seq(Octet)
  /\ \A l \in TopicLists : l \in Seq(Seq(Octet))
  /\ \A g \in GrantLists : g \in Seq(Octet)
  /\ MaxTopicsInSubscribe \in Nat /\ MaxPackets \in Nat
  /\ MaxStringLength \in 0..255    \* the high byte of a topic's length is written as 0

Unset   == "unset"     \* a member no constructor initialises
Nothing == [kind |-> "nothing"]
Overrun == 65536      \* no two bytes read as this

MessageInit ==
  /\ message_ = <<>> /\ qos_ = Unset /\ retain_ = Unset
  /\ made = <<>> /\ begins = <<>> /\ read = Nothing

------------------------------------------------------------------------------
(* MqttMessage: the creations.                                             *)

MqttMessageType ==
  [CONNECT |-> 16, CONNACK |-> 32, PUBLISH |-> 48, PUBACK |-> 64,
   PUBREC |-> 80, PUBREL |-> 96, PUBCOMP |-> 112, SUBSCRIBE |-> 128,
   SUBACK |-> 144, UNSUBSCRIBE |-> 160, UNSUBACK |-> 176, PINGREQ |-> 192,
   PINGRESP |-> 208, DISCONNECT |-> 224]

Word(n) == <<n \div 256, n % 256>>

(* Mutant of RemainingLength: no continuation bit.                         *)
RemainingLengthOneDigit(n) == <<n % 128>>

(* The remaining length, seven bits to a byte, the lowest first.           *)
RemainingLength(n) ==
  LET digits[k \in 0..n] ==
        IF k < 128 THEN <<k>> ELSE <<(k % 128) + 128>> \o digits[k \div 128]
  IN digits[n]

Create(kind, bytes, arguments) ==
  /\ Len(made) < MaxPackets
  /\ message_' = message_ \o bytes
  /\ made' = Append(made, [kind |-> kind, arguments |-> arguments])
  /\ begins' = Append(begins, Len(message_) + 1)
  /\ read' = Nothing

CreatePlain(kind, bytes, arguments) ==
  Create(kind, bytes, arguments) /\ UNCHANGED <<qos_, retain_>>

createConnect == \E id \in ClientIds :
  CreatePlain("CONNECT",
    <<MqttMessageType.CONNECT, 12, 0, 4, 77, 81, 84, 84, 4, 0, 0, 30>>
      \o <<0, Len(id) % 256>> \o id, id)

createMqttConnackMessage == \E present \in BOOLEAN, code \in 0..5 :
  CreatePlain("CONNACK",
    <<MqttMessageType.CONNACK, 2, IF present THEN 1 ELSE 0, code>>,
    <<present, code>>)

createMqttPublishMessage ==
  \E p \in Publications, retain \in BOOLEAN, qos \in 0..2 :
    LET fixed == MqttMessageType.PUBLISH + (IF retain THEN 1 ELSE 0) + 2 * qos
        id    == IF qos > 0 THEN <<0, 1>> ELSE <<>>
    IN /\ Create("PUBLISH",
            <<fixed>> \o RemainingLength(Len(p.topic) + Len(p.payload) + Len(id))
              \o (p.topic \o id \o p.payload), p)
       /\ qos_' = qos /\ retain_' = retain

Acknowledge(kind, fixed) == \E id \in Identifiers :
  CreatePlain(kind, <<fixed, 2>> \o Word(id), id)

createMqttPubackMessage  == Acknowledge("PUBACK", MqttMessageType.PUBACK)
createMqttPubrecMessage  == Acknowledge("PUBREC", MqttMessageType.PUBREC)
createMqttPubcompMessage == Acknowledge("PUBCOMP", MqttMessageType.PUBCOMP)
createMqttUnsubackMessage == Acknowledge("UNSUBACK", MqttMessageType.UNSUBACK)

(* PUBREL also carries a reason code and a property length.                *)
createMqttPubrelMessage == \E id \in Identifiers :
  CreatePlain("PUBREL",
    <<MqttMessageType.PUBREL + 2, 4>> \o Word(id) \o <<0, 0>>, id)

(* The topics that are sent: of the first MAX_TOPICS_IN_SUBSCRIBE, those   *)
(* that are not too long.                                                  *)
TopicsToAdd(topics) == Min({Len(topics), MaxTopicsInSubscribe})

Skipped(t) == Len(t) > MaxStringLength

(* The bytes that the first topics add to the payload: two of length, the  *)
(* characters, and "extra".                                                *)
Adding(topics, extra) ==
  LET adding[n \in 0..TopicsToAdd(topics)] ==
        IF n = 0 THEN <<>>
        ELSE IF Skipped(topics[n]) THEN adding[n - 1]
        ELSE adding[n - 1] \o (<<0, Len(topics[n]) % 256>> \o topics[n] \o extra)
  IN adding

(* What they add to the remaining length, which the code counts apart.     *)
Counting(topics, extra) ==
  LET counting[n \in 0..TopicsToAdd(topics)] ==
        IF n = 0 THEN 2
        ELSE IF Skipped(topics[n]) THEN counting[n - 1]
        ELSE counting[n - 1] + 2 + Len(topics[n]) + Len(extra)
  IN counting

ListPacket(fixed, topics, extra) ==
  LET n == TopicsToAdd(topics)
  IN <<fixed>> \o RemainingLength(Counting(topics, extra)[n])
       \o (<<0, 1>> \o Adding(topics, extra)[n])

createMqttSubscribeMessage == \E topics \in TopicLists :
  CreatePlain("SUBSCRIBE", ListPacket(MqttMessageType.SUBSCRIBE + 2, topics, <<0>>), topics)

createMqttUnsubscribeMessage == \E topics \in TopicLists :
  CreatePlain("UNSUBSCRIBE", ListPacket(MqttMessageType.UNSUBSCRIBE + 2, topics, <<>>), topics)

(* reateMqttSubackMessage: the remaining length is cut to one byte.        *)
createMqttSubackMessage == \E id \in Identifiers, granted \in GrantLists :
  CreatePlain("SUBACK",
    <<MqttMessageType.SUBACK, (2 + Len(granted)) % 256>> \o Word(id) \o granted,
    <<id, granted>>)

createMqttPingreqMessage ==
  CreatePlain("PINGREQ", <<MqttMessageType.PINGREQ, 0>>, <<>>)
createMqttPingrespMessage ==
  CreatePlain("PINGRESP", <<MqttMessageType.PINGRESP, 0>>, <<>>)
createMqttDisconnectMessage ==
  CreatePlain("DISCONNECT", <<MqttMessageType.DISCONNECT, 0>>, <<>>)

------------------------------------------------------------------------------
(* The parsers.                                                            *)

Orders == {"left", "right"}

(* The index after the remaining length that starts at i.                  *)
AfterLength(m, i) ==
  1 + CHOOSE j \in i..Len(m) : m[j] < 128 /\ \A k \in i..j - 1 : m[k] >= 128

(* parseRemainingLength: the value of the digits from the last one on.     *)
LengthFrom(m, i) ==
  LET last == AfterLength(m, i) - 1
      value[k \in 0..last - i] ==
        (m[last - k] % 128) + (IF k = 0 THEN 0 ELSE 128 * value[k - 1])
  IN value[last - i]

Body == AfterLength(message_, 2)     \* the index of the variable header

At(i) == IF i <= Len(message_) THEN message_[i] ELSE Overrun

Pair(i, order) ==
  IF i + 1 > Len(message_) THEN Overrun
  ELSE IF order = "left" THEN 256 * message_[i] + message_[i + 1]
  ELSE 256 * message_[i + 1] + message_[i]

Parse(kind, order, found) ==
  /\ read = Nothing /\ made # <<>> /\ made[1].kind = kind
  /\ read' = [kind |-> kind, order |-> order, fixedHeader |-> message_[1],
              found |-> found]
  /\ UNCHANGED <<message_, qos_, retain_, made, begins>>

ParseIdentifier(kind) ==
  \E order \in Orders : Parse(kind, order, Pair(Body, order))

ParsePuback   == ParseIdentifier("PUBACK")
ParsePubrec   == ParseIdentifier("PUBREC")
ParsePubrel   == ParseIdentifier("PUBREL")
ParsePubcomp  == ParseIdentifier("PUBCOMP")
ParseUnsuback == ParseIdentifier("UNSUBACK")

ParseConnack ==
  Parse("CONNACK", "left", <<At(Body) % 2 = 1, At(Body + 1)>>)

ParseSuback == \E order \in Orders :
  Parse("SUBACK", order,
        <<Pair(Body, order), SubSeq(message_, Body + 2, Len(message_))>>)

(* parseString: two bytes of length, and as many characters.               *)
StringEnd(i, order) == i + 1 + Pair(i, order)

(* The strings in the last n bytes, each followed by "extra" bytes.        *)
Reading(order, extra) ==
  LET end == Len(message_)
      reading[n \in 0..end] ==
        LET i    == end + 1 - n
            next == StringEnd(i, order) + extra + 1
        IN IF n = 0 THEN <<>>
           ELSE IF Pair(i, order) = Overrun \/ next > end + 1 THEN << <<Overrun>> >>
           ELSE <<SubSeq(message_, i + 2, StringEnd(i, order))>> \o reading[end + 1 - next]
  IN reading

(* Mutant of Strings: the requested QoS is taken for the next topic's.     *)
StringsOnly(order, extra) == Reading(order, 0)[Len(message_) - Body - 1]

(* The strings behind the packet identifier.                               *)
Strings(order, extra) == Reading(order, extra)[Len(message_) - Body - 1]

ParseSubscribe == \E order \in Orders :
  Parse("SUBSCRIBE", order, <<Pair(Body, order), Strings(order, 1)>>)

ParseUnsubscribe == \E order \in Orders :
  Parse("UNSUBSCRIBE", order, <<Pair(Body, order), Strings(order, 0)>>)

(* The protocol name is expected right after the remaining length; a wrong *)
(* one is only logged.                                                     *)
ParseConnect == \E order \in Orders :
  Parse("CONNECT", order,
        [named |-> SubSeq(message_, Body, Body + 3) = <<77, 81, 84, 84>>,
         protocolLevel |-> At(Body + 4), connectFlags |-> At(Body + 5),
         keepAlive |-> Pair(Body + 6, order)])

ParsePublish == \E order \in Orders :
  LET length == Pair(Body, order)
      next   == StringEnd(Body, order) + 1
  IN Parse("PUBLISH", order,
       IF length = Overrun THEN Overrun
       ELSE IF next - 1 > Len(message_) THEN Overrun
       ELSE [topicName |-> SubSeq(message_, Body + 2, next - 1),
             packetIdentifier |->
               IF message_[1] % 8 >= 2 THEN Pair(next, order) ELSE Unset])

ParsePingreq    == Parse("PINGREQ", "left", <<>>)
ParsePingresp   == Parse("PINGRESP", "left", <<>>)
ParseDisconnect == Parse("DISCONNECT", "left", <<>>)

MessageNext ==
  \/ createConnect \/ createMqttConnackMessage \/ createMqttPublishMessage
  \/ createMqttPubackMessage \/ createMqttPubrecMessage
  \/ createMqttPubrelMessage \/ createMqttPubcompMessage
  \/ createMqttSubscribeMessage \/ createMqttSubackMessage
  \/ createMqttUnsubscribeMessage \/ createMqttUnsubackMessage
  \/ createMqttPingreqMessage \/ createMqttPingrespMessage
  \/ createMqttDisconnectMessage
  \/ ParseConnect \/ ParseConnack \/ ParsePublish \/ ParsePuback
  \/ ParsePubrec \/ ParsePubrel \/ ParsePubcomp \/ ParseSubscribe
  \/ ParseSuback \/ ParseUnsubscribe \/ ParseUnsuback \/ ParsePingreq
  \/ ParsePingresp \/ ParseDisconnect

------------------------------------------------------------------------------
(* Where the packet after the one at i begins for a receiver who trusts    *)
(* the remaining length.                                                   *)
LedTo(i) == AfterLength(message_, i + 1) + LengthFrom(message_, i + 1)

(* Where the packet after the i-th one begins, or the bytes end.           *)
NextBegin(i) == IF i < Len(made) THEN begins[i + 1] ELSE Len(message_) + 1

(* A SUBACK of 126 grants or more has a remaining length that does not fit *)
(* into the one byte it is written to.                                     *)
Counted(packet) == packet.kind = "SUBACK" => Len(packet.arguments[2]) < 126

(* The bytes that a remaining length leaves out: that of CONNECT is the    *)
(* constant 12, which counts no character of the client id.                *)
Uncounted(packet) == IF packet.kind = "CONNECT" THEN Len(packet.arguments) ELSE 0

(* Whatever was created on one object, in whatever order, a packet of any  *)
(* kind but the SUBACK of 126 grants or more begins with its type, and its *)
(* remaining length leads from there to where the next one begins, or the  *)
(* bytes end; only that of a CONNECT falls short, by its client id.  So    *)
(* the lengths that the creations of mqtt_message.cpp write agree with the *)
(* bytes that follow, also with skipped topics, topics beyond the limit    *)
(* and lengths of two bytes.                                               *)
PacketsAreFramed ==
  \A i \in DOMAIN made : Counted(made[i]) =>
    LET at == begins[i]
    IN /\ message_[at] - (message_[at] % 16) = MqttMessageType[made[i].kind]
       /\ LedTo(at) + Uncounted(made[i]) = NextBegin(i)

(* The topics of a list that are not skipped.                              *)
Sending(topics) ==
  LET sending[n \in 0..TopicsToAdd(topics)] ==
        IF n = 0 THEN <<>>
        ELSE IF Skipped(topics[n]) THEN sending[n - 1] ELSE Append(sending[n - 1], topics[n])
  IN sending

Sent(topics) == Sending(topics)[TopicsToAdd(topics)]

(* A packet number as a compiler that evaluates from the right reads it.   *)
Swapped(n, order) == IF order = "left" THEN n ELSE 256 * (n % 256) + n \div 256

(* A packet that is alone in its message is read back as it was given to   *)
(* the creation: the identifier, the flags of a CONNACK, the granted QoS,  *)
(* and the topics that are not skipped, in their order.  A compiler that   *)
(* evaluates from the right swaps the bytes of the identifier.  Left out   *)
(* are the packets of which this is false: the topics under that order of  *)
(* evaluation, where the reading of the strings is not defined; a SUBACK   *)
(* of 126 grants or more, whose length is cut; and every CONNECT and       *)
(* PUBLISH: the parsers expect no length before the protocol name, and one *)
(* before the topic; the creations do the opposite.                        *)
PacketsReadBack ==
  read # Nothing /\ Len(made) = 1 =>
    LET given == made[1].arguments
        order == read.order
    IN CASE read.kind \in {"CONNECT", "PUBLISH"} -> TRUE
         [] read.kind = "SUBACK" ->
              Counted(made[1]) => read.found = <<Swapped(given[1], order), given[2]>>
         [] read.kind \in {"SUBSCRIBE", "UNSUBSCRIBE"} ->
              order = "left" => read.found = <<1, Sent(given)>>
         [] read.kind \in {"CONNACK", "PINGREQ", "PINGRESP", "DISCONNECT"} ->
              read.found = given
         [] OTHER -> read.found = Swapped(given, order)
=============================================================================
