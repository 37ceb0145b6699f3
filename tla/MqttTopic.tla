------------------------------ MODULE MqttTopic ------------------------------
(***************************************************************************)
(* The MqttTopic class (esp01-projects/mqtt server, src/mqtt_topic.cpp):   *)
(* the validation of a topic name and the comparison of two topics.        *)
(*                                                                         *)
(* A name is a sequence of characters of which only the letters are        *)
(* abstracted: two names differ in a level when they have different        *)
(* numbers of the same letter there.  topic_ and length_ change together:  *)
(* the length of an object is the length of its name.                      *)
(***************************************************************************)
EXTENDS Naturals, FiniteSets, SequencesExt

CONSTANTS Objects,         \* the MqttTopic objects
          Names,           \* the strings they are given
          MaxTopicLength   \* MAX_TOPIC_LENGTH

VARIABLE topic             \* topic_ of each object, Unborn before its constructor

topicVars == <<topic>>

Unborn == <<"unborn">>

ASSUME NamesAreNames ==
  /\ MaxTopicLength \in 1..128    \* numberOfOccurences looks at 127 characters
  /\ Unborn \notin Names /\ \A t \in Names : t \in Seq(STRING)

TopicInit == topic = [o \in Objects |-> Unborn]

------------------------------------------------------------------------------
numberOfOccurences(t, c) == Cardinality({i \in DOMAIN t : t[i] = c})

First(t) == IF t = <<>> THEN "end" ELSE t[1]

(* Mutant of HashIsLast: the character before a trailing # is not looked at. *)
HashIsLastAnywhere(t) ==
  Contains(t, "#") => (Len(t) = 1 \/ (Last(t) = "#" /\ t[1] # "#"))

(* A name starts with # only if it is "#", and ends with # only after "/". *)
HashIsLast(t) ==
  Contains(t, "#") =>
    IF t[1] = "#" THEN Len(t) = 1 ELSE Last(t) = "#" /\ t[Len(t) - 1] = "/"

(* A + stands between two slashes.  The byte in front of the first         *)
(* character lies outside the array: "before" is whatever is there.        *)
PlusIsBetween(t, before) ==
  \A i \in DOMAIN t : t[i] = "+" =>
    /\ IF i = 1 THEN before = "/" ELSE t[i - 1] = "/"
    /\ i < Len(t) /\ t[i + 1] = "/"

isValidName(t, before) ==
  /\ t # <<>>
  /\ t[1] # "/"
  /\ \/ t[1] = "$"
     \/ /\ ~Contains(t, " ")
        /\ \A i \in 1..Len(t) - 1 : ~(t[i] = "/" /\ t[i + 1] = "/")
        /\ ~(Contains(t, "#") /\ Contains(t, "+"))
        /\ numberOfOccurences(t, "#") <= 1 /\ numberOfOccurences(t, "+") <= 1
        /\ HashIsLast(t)
        /\ PlusIsBetween(t, before)

hasWildcards(t) == Contains(t, "+") \/ Contains(t, "#")

(* The name an object holds after it was given "t": none if t is empty,    *)
(* not shorter than the array, or invalid.                                 *)
Taken(t, before) ==
  IF Len(t) < MaxTopicLength /\ isValidName(t, before) THEN t ELSE <<>>

(* The byte in front of the array: only whether it is a slash matters.     *)
Before == {"/", "end"}

(* MqttTopic() and MqttTopic(topic) *)
Construct(o) ==
  /\ topic[o] = Unborn
  /\ \/ topic' = [topic EXCEPT ![o] = <<>>]
     \/ \E t \in Names, before \in Before :
          topic' = [topic EXCEPT ![o] = Taken(t, before)]

(* Bound: an object that holds a name is reset before it is given another. *)
setTopic(o) ==
  /\ topic[o] = <<>>
  /\ \E t \in Names, before \in Before :
       topic' = [topic EXCEPT ![o] = Taken(t, before)]

resetTopic(o) ==
  /\ topic[o] # Unborn
  /\ topic' = [topic EXCEPT ![o] = <<>>]

TopicNext == \E o \in Objects : Construct(o) \/ setTopic(o) \/ resetTopic(o)

------------------------------------------------------------------------------
(* The comparison, operator==.                                             *)

(* A slash begins a level, any other character belongs to the last one.    *)
Extended(levels, c) ==
  IF c = "/" THEN Append(levels, <<>>)
  ELSE [levels EXCEPT ![Len(levels)] = Append(@, c)]

(* The levels of the first characters of a name.                           *)
Cutting(t) ==
  LET cutting[n \in 0..Len(t)] ==
        IF n = 0 THEN << <<>> >> ELSE Extended(cutting[n - 1], t[n])
  IN  cutting

Cut(t) == Cutting(t)[Len(t)]

(* The levels that are not empty, of the first ones.                       *)
Finding(levels) ==
  LET finding[n \in 0..Len(levels)] ==
        IF n = 0 THEN <<>>
        ELSE IF levels[n] = <<>> THEN finding[n - 1]
        ELSE Append(finding[n - 1], levels[n])
  IN  finding

(* What strtok_r finds: the levels of the name, without the empty ones.    *)
Tokens(t) == Finding(Cut(t))[Len(Cut(t))]

(* Mutant of Agree: a + token agrees only when it is this topic's.         *)
AgreeOneWay(v, w) == v = w \/ First(v) = "+"

Agree(v, w) == v = w \/ First(v) = "+" \/ First(w) = "+"

(* The loop over the tokens: it ends with a match when either name runs    *)
(* out of tokens or has a # for its next token.                            *)
TokensAgree(u, v) ==
  \A i \in DOMAIN u \cap DOMAIN v :
    (\A j \in 1..i : First(u[j]) # "#" /\ First(v[j]) # "#") => Agree(u[i], v[i])

Equals(a, b) ==
  /\ ~(hasWildcards(a) /\ hasWildcards(b))
  /\ IF ~hasWildcards(a) /\ ~hasWildcards(b) THEN a = b
     ELSE IF First(a) = "#" \/ First(b) = "#"
          THEN First(a) # "$" /\ First(b) # "$"
     ELSE TokensAgree(Tokens(a), Tokens(b))

------------------------------------------------------------------------------
(* The rules of the comments: mqtt_topic.cpp 105-122 for the names, 228-249 *)
(* for the wildcards.                                                      *)

Levels(t) == Len(Tokens(t))

Matches(filter, t) ==
  LET F == Tokens(filter)
      T == Tokens(t)
      matched(n) == Len(T) >= n /\ \A i \in 1..n : F[i] = T[i] \/ F[i] = <<"+">>
  IN IF filter = <<"#">> THEN First(t) # "$"
     ELSE IF Last(F) = <<"#">> THEN matched(Len(F) - 1)
     ELSE Len(T) = Len(F) /\ matched(Len(F))

Filter(t) == hasWildcards(t) /\ First(t) # "$"
Plain(t)  == t \notin {<<>>, Unborn} /\ ~hasWildcards(t)

Wildcards(t) == {i \in DOMAIN t : t[i] \in {"#", "+"}}

(* A name that an object holds obeys the rules of the comment in           *)
(* isValidName: no space, not more than one wildcard, no empty level (a    *)
(* "/" may end the name); a # is the whole last level, a + a whole level   *)
(* that another "/" ends.  Names that start with $ are free text.  One     *)
(* rule is left out because the code breaks it: a + "must be preceded by a *)
(* '/'" also where it begins the name, but there the code looks at the     *)
(* byte in front of the array, and takes "+/a" when that is a slash.       *)
NamesAreWellFormed ==
  \A o \in Objects :
    LET t == topic[o]
        levels == Cut(t)
    IN t \notin {<<>>, Unborn} /\ t[1] # "$" =>
         /\ Len(t) < MaxTopicLength
         /\ ~Contains(t, " ")
         /\ \A i, j \in Wildcards(t) : i = j
         /\ \A i \in 1..Len(levels) :
              /\ levels[i] # <<>> \/ (i > 1 /\ i = Len(levels))
              /\ Contains(levels[i], "#") => levels[i] = <<"#">> /\ i = Len(levels)
              /\ Contains(levels[i], "+") => levels[i] = <<"+">> /\ i < Len(levels)

(* A filter equals, from either side, every topic it matches under the     *)
(* rules of the comment above operator==; and it equals no other topic of  *)
(* as many levels.  (It does equal shorter and longer topics that the      *)
(* rules exclude: the loop stops at the end of the shorter name.)          *)
FiltersFindTopics ==
  \A o, p \in Objects :
    LET f == topic[o]
        t == topic[p]
    IN Filter(f) /\ Plain(t) =>
         /\ Matches(f, t) => Equals(f, t) /\ Equals(t, f)
         /\ Equals(f, t) \/ Equals(t, f) => Matches(f, t) \/ Levels(f) # Levels(t)
=============================================================================
