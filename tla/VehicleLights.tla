---------------------------- MODULE VehicleLights ----------------------------
(***************************************************************************)
(* From a switch on the dashboard to a lamp at the front or the back of    *)
(* the vehicle: the switch publisher (dashboard/switch-publisher.py), the  *)
(* MQTT broker, and the relay boards' subscribers (front/ and              *)
(* back/relay-subscriber.py).                                              *)
(*                                                                         *)
(* The publisher looks at one switch after the other for ever, in a timer  *)
(* thread.  Each subscriber has one thread that handles messages, and one  *)
(* for every threading.Timer that is running; they share "state" and       *)
(* "duty" without a lock, so the order of their accesses is kept here, but *)
(* for what an expired timer does once it has read the state: one step.    *)
(* The length of the timers is not kept, except that the handler gets to   *)
(* its next statements before the timer it has just started expires.       *)
(*                                                                         *)
(* The broker is external: it passes messages of QoS 0 on, in their order, *)
(* to whoever is connected.  Nothing is retained, so a connection that is  *)
(* down, of the dashboard or of a board, shows in that a message does not  *)
(* reach a board, and one that breaks in that those under way are lost.    *)
(***************************************************************************)
EXTENDS LightMaps, Sequences, FiniteSets

CONSTANTS Channels,   \* the switches that are used: events, in their order
          Relays,     \* the boards of the vehicle
          MaxWire,    \* bound: messages under way to a board
          MaxTimers,  \* bound: timers of an indicator when a switch is closed
          Lossy       \* connections break

ASSUME LightConstantsOK ==
  /\ Channels \in Seq({events[i] : i \in DOMAIN events}) /\ Channels # <<>>
  /\ Relays \subseteq Boards
  /\ MaxWire \in Nat \ {0} /\ MaxTimers \in Nat \ {0} /\ Lossy \in BOOLEAN

Used   == {Channels[i] : i \in DOMAIN Channels}
Lamps  == {p \in Relays \X (front_lights \cup back_lights) : p[2] \in lights(p[1])}
Blinkers == Relays \X Indicators

VARIABLES
  switch,          \* the switches: 0 or 1
  published,       \* the publisher's state: what it last read of each
  channel,         \* the switch it looks at next
  wire,            \* messages under way to each board
  running,         \* a board's program runs
  payload,         \* the message a board is handling: its payload, or NoPayload
  todo, armed,     \* the indicators it has still to deal with, and the one
                   \* of which the lamp is dealt with and the state is not, yet
  state,           \* a board's state: TRUE is ON
  lit,             \* the lamps (a pin at GPIO.LOW lights its lamp)
  duty,            \* lind_duty, rind_duty: TRUE is ON
  timers,          \* timers running
  blinking, ending,\* expired timers that have found state ON, or OFF, and not
                   \* yet acted on it
  missed           \* history: switches of Sole whose last message has not
                   \* reached a board

dashboard == <<switch, published, channel>>
network   == <<wire, missed>>
handler   == <<running, payload, todo, armed>>
threads   == <<timers, blinking, ending>>
vars == <<dashboard, network, handler, state, lit, duty, threads>>

NoPayload == 2
NoLight   == "none"

TypeOK ==
  /\ switch \in [Used -> 0..1] /\ published \in [Used -> 0..1]
  /\ channel \in DOMAIN Channels
  /\ wire \in [Relays -> Seq(Used \X (0..1))]
  /\ missed \in [Relays -> SUBSET Used]
  /\ running \in [Relays -> BOOLEAN]
  /\ payload \in [Relays -> 0..2] /\ todo \in [Relays -> SUBSET Indicators]
  /\ armed \in [Relays -> Indicators \cup {NoLight}]
  /\ state \in [Lamps -> BOOLEAN] /\ lit \in [Lamps -> BOOLEAN]
  /\ duty \in [Blinkers -> BOOLEAN]
  /\ timers \in [Blinkers -> Nat] /\ blinking \in [Blinkers -> Nat] /\ ending \in [Blinkers -> Nat]

Init ==
  /\ switch = [c \in Used |-> 0] /\ published = [c \in Used |-> 0]
  /\ channel = 1
  /\ wire = [b \in Relays |-> <<>>]
  /\ missed = [b \in Relays |-> {}]
  /\ running \in [Relays -> BOOLEAN]
  /\ payload = [b \in Relays |-> NoPayload] /\ todo = [b \in Relays |-> {}]
  /\ armed = [b \in Relays |-> NoLight]
  /\ state = [p \in Lamps |-> FALSE] /\ lit = [p \in Lamps |-> FALSE]
  /\ duty = [p \in Blinkers |-> FALSE]
  /\ timers = [p \in Blinkers |-> 0] /\ blinking = [p \in Blinkers |-> 0]
  /\ ending = [p \in Blinkers |-> 0]

------------------------------------------------------------------------------
(* The driver opens or closes a switch.                                    *)
Flip(c) ==
  /\ switch[c] = 0 => \A p \in Blinkers : timers[p] + blinking[p] + ending[p] < MaxTimers
  /\ switch' = [switch EXCEPT ![c] = 1 - @]
  /\ UNCHANGED <<published, channel, network, handler, state, lit, duty, threads>>

(* The lights that only one switch commands, and only by "ON", and these   *)
(* switches.                                                               *)
Commands(b, c, l) ==
  /\ light_map(b, c, l) = "ON"
  /\ \A d \in rows(b) \ {c} : light_map(b, d, l) # "ON"

Sole == [b \in Relays |-> {c \in Used : \E l \in lights(b) : Commands(b, c, l)}]

(* publish_event: the message reaches the boards that have subscribed to   *)
(* its topic and are connected, provided that the dashboard is.            *)
Subscribed(b, c) == c \in topic_map(b)

On == {b \in Relays : running[b]}

publish_event(c, value) ==
  \E reached \in IF Lossy THEN SUBSET On ELSE {On} :
    /\ wire' = [b \in Relays |->
                  IF b \in reached /\ Subscribed(b, c) THEN Append(wire[b], <<c, value>>)
                  ELSE wire[b]]
    /\ missed' = [b \in Relays |->
                    IF b \in reached THEN missed[b] \ {c} ELSE missed[b] \cup ({c} \cap Sole[b])]

NextChannel == channel' = IF channel = Len(Channels) THEN 1 ELSE channel + 1

(* on_switch_check_expire: one turn of its loop.                           *)
SwitchIsTheSame ==
  /\ switch[Channels[channel]] = published[Channels[channel]]
  /\ NextChannel
  /\ UNCHANGED <<switch, published, network, handler, state, lit, duty, threads>>

SwitchHasChanged ==
  LET c == Channels[channel] IN
  /\ switch[c] # published[c]
  /\ \A b \in Relays : Len(wire[b]) < MaxWire
  /\ publish_event(c, switch[c])
  /\ published' = [published EXCEPT ![c] = switch[c]]
  /\ NextChannel
  /\ UNCHANGED <<switch, handler, state, lit, duty, threads>>

CheckSwitch == SwitchIsTheSame \/ SwitchHasChanged

------------------------------------------------------------------------------
(* A board's connection breaks: the last of the messages under way are     *)
(* lost.  (It connects and subscribes again: on_connect.)                  *)
LinkBreaks(b) ==
  /\ Lossy
  /\ \E k \in 1..Len(wire[b]) :
       /\ wire' = [wire EXCEPT ![b] = SubSeq(@, 1, k - 1)]
       /\ missed' = [missed EXCEPT ![b] = @ \cup (Sole[b] \cap {wire[b][i][1] : i \in k..Len(wire[b])})]
  /\ UNCHANGED <<dashboard, handler, state, lit, duty, threads>>

------------------------------------------------------------------------------
(* on_message: every light of the board has its turn.  Those that no timer *)
(* switches are dealt with here at once.                                   *)
StateAfter(b, l, topic, value) ==
  IF light_map(b, topic, l) = "ON" THEN value = 1 ELSE state[<<b, l>>]

(* Mutant of LitAfter: a light is left alone only if ASC says so.          *)
LitAfterAnyTopic(b, l, topic, value) ==
  CASE light_map(b, topic, l) = "ON" -> value = 1
    [] light_map(b, topic, l) = "OFF" -> FALSE
    [] light_map(b, topic, l) = "ASC" -> IF value = 1 THEN TRUE ELSE state[<<b, l>>] /\ lit[<<b, l>>]
    [] light_map(b, topic, l) = "TMR" -> lit[<<b, l>>]

LitAfter(b, l, topic, value) ==
  CASE light_map(b, topic, l) = "ON" -> value = 1
    [] light_map(b, topic, l) = "OFF" -> state[<<b, l>>] /\ lit[<<b, l>>]
    [] light_map(b, topic, l) = "ASC" -> value = 1 \/ (state[<<b, l>>] /\ lit[<<b, l>>])
    [] light_map(b, topic, l) = "TMR" -> lit[<<b, l>>]

on_message(b) ==
  /\ running[b] /\ payload[b] = NoPayload /\ wire[b] # <<>>
  /\ Head(wire[b])[1] \in rows(b)
  /\ LET topic == Head(wire[b])[1]
         value == Head(wire[b])[2]
         blink == {l \in Indicators : light_map(b, topic, l) = "TMR"}
     IN  /\ state' = [p \in Lamps |-> IF p[1] = b THEN StateAfter(b, p[2], topic, value) ELSE state[p]]
         /\ lit' = [p \in Lamps |-> IF p[1] = b THEN LitAfter(b, p[2], topic, value) ELSE lit[p]]
         /\ todo' = [todo EXCEPT ![b] = blink]
         /\ payload' = [payload EXCEPT ![b] = IF blink = {} THEN NoPayload ELSE value]
  /\ wire' = [wire EXCEPT ![b] = Tail(@)]
  /\ UNCHANGED <<dashboard, missed, running, armed, duty, threads>>

(* light_map has no row for a topic that the board has subscribed to: the  *)
(* IndexError ends loop_forever, and GPIO.cleanup lets go of all pins.     *)
HandlerFails(b) ==
  /\ running[b] /\ payload[b] = NoPayload /\ wire[b] # <<>>
  /\ Head(wire[b])[1] \in topic_map(b) \ rows(b)
  /\ running' = [running EXCEPT ![b] = FALSE]
  /\ lit' = [p \in Lamps |-> p[1] # b /\ lit[p]]
  /\ wire' = [wire EXCEPT ![b] = <<>>]
  /\ UNCHANGED <<dashboard, missed, payload, todo, armed, state, duty, threads>>

(* The left indicator comes before the right one.                          *)
InTurn(b, l) == l \in todo[b] /\ (l = "rightind" => "leftind" \notin todo[b])

(* An indicator: its lamp is switched, and for payload 1 a timer started.  *)
(* (lind_duty = ON assigns a local variable, here.)                        *)
SwitchIndicator(b, l) ==
  /\ armed[b] = NoLight /\ InTurn(b, l)
  /\ armed' = [armed EXCEPT ![b] = l]
  /\ lit' = [lit EXCEPT ![<<b, l>>] = (payload[b] = 1)]
  /\ timers' = [timers EXCEPT ![<<b, l>>] = @ + payload[b]]
  /\ UNCHANGED <<dashboard, network, running, payload, todo, state, duty, blinking, ending>>

(* ... then its state is set.                                              *)
SetIndicator(b, l) ==
  /\ armed[b] = l
  /\ armed' = [armed EXCEPT ![b] = NoLight]
  /\ state' = [state EXCEPT ![<<b, l>>] = (payload[b] = 1)]
  /\ todo' = [todo EXCEPT ![b] = @ \ {l}]
  /\ payload' = [payload EXCEPT ![b] = IF todo'[b] = {} THEN NoPayload ELSE @]
  /\ UNCHANGED <<dashboard, network, running, lit, duty, threads>>

------------------------------------------------------------------------------
(* on_lind_expire, on_rind_expire: a timer that is not the one just        *)
(* started expires, and its thread reads the state ...                     *)
JustStarted(b, l) == IF armed[b] = l /\ payload[b] = 1 THEN 1 ELSE 0

Expire(b, l) ==
  LET p == <<b, l>> IN
  /\ timers[p] > JustStarted(b, l)
  /\ timers' = [timers EXCEPT ![p] = @ - 1]
  /\ IF state[p]
     THEN blinking' = [blinking EXCEPT ![p] = @ + 1] /\ UNCHANGED ending
     ELSE ending' = [ending EXCEPT ![p] = @ + 1] /\ UNCHANGED blinking
  /\ UNCHANGED <<dashboard, network, handler, state, lit, duty>>

(* Mutant of Restart: only one timer for on and off.                       *)
RestartWhenLit(p) ==
  IF duty[p] THEN timers' = [timers EXCEPT ![p] = @ + 1] ELSE UNCHANGED timers

Restart(p) == timers' = [timers EXCEPT ![p] = @ + 1]

(* Mutant of Toggle: without its "global", the assignment is to a local.   *)
ToggleLocal(p) == UNCHANGED duty

Toggle(p) == duty' = [duty EXCEPT ![p] = ~@]

(* ... the lamp goes on or off, and another timer is started, ...          *)
Blink(b, l) ==
  LET p == <<b, l>> IN
  /\ running[b] /\ blinking[p] > 0
  /\ blinking' = [blinking EXCEPT ![p] = @ - 1]
  /\ lit' = [lit EXCEPT ![p] = duty[p]]
  /\ Toggle(p) /\ Restart(p)
  /\ UNCHANGED <<dashboard, network, handler, state, ending>>

(* Mutant of Darken: on_message has switched the lamp off, has it not?     *)
DarkenNot(p) == UNCHANGED lit

Darken(p) == lit' = [lit EXCEPT ![p] = FALSE]

(* ... or none is.                                                         *)
EndBlinking(b, l) ==
  LET p == <<b, l>> IN
  /\ running[b] /\ ending[p] > 0
  /\ ending' = [ending EXCEPT ![p] = @ - 1]
  /\ Darken(p)
  /\ state' = [state EXCEPT ![p] = FALSE]
  /\ duty' = [duty EXCEPT ![p] = FALSE]
  /\ UNCHANGED <<dashboard, network, handler, timers, blinking>>

(* The timers outlive loop_forever, but after GPIO.cleanup their first     *)
(* statement raises an exception, which ends the thread.                   *)
TimerFails(b, l) ==
  LET p == <<b, l>> IN
  /\ ~running[b]
  /\ \/ blinking[p] > 0 /\ blinking' = [blinking EXCEPT ![p] = @ - 1] /\ UNCHANGED ending
     \/ ending[p] > 0 /\ ending' = [ending EXCEPT ![p] = @ - 1] /\ UNCHANGED blinking
  /\ UNCHANGED <<dashboard, network, handler, state, lit, duty, timers>>

------------------------------------------------------------------------------
Handle(b) ==
  \/ on_message(b) \/ HandlerFails(b)
  \/ \E l \in Indicators : SwitchIndicator(b, l) \/ SetIndicator(b, l)

Next ==
  \/ \E c \in Used : Flip(c)
  \/ CheckSwitch
  \/ \E b \in Relays :
       \/ Handle(b) \/ LinkBreaks(b)
       \/ \E l \in Indicators :
            Expire(b, l) \/ Blink(b, l) \/ EndBlinking(b, l) \/ TimerFails(b, l)

Spec == Init /\ [][Next]_vars

(* Threads run and timers expire.                                          *)
Fairness ==
  /\ WF_vars(CheckSwitch)
  /\ \A b \in Relays : WF_vars(Handle(b))
  /\ \A p \in Blinkers :
       WF_vars(Expire(p[1], p[2])) /\ WF_vars(Blink(p[1], p[2])) /\ WF_vars(EndBlinking(p[1], p[2]))

------------------------------------------------------------------------------
(* Properties                                                              *)

Coming(b, c) == \E i \in DOMAIN wire[b] : wire[b][i][1] = c

(* While a board's program runs, and once it has handled what was sent,   *)
(* the state of a light is what the publisher last read of its switch, and *)
(* a light with state ON is lit, whatever the messages about other lights  *)
(* do to it; a lost message misleads a light only until the next one of    *)
(* its switch.                                                             *)
InStep ==
  \A b \in On : \A c \in Sole[b] \ missed[b], l \in lights(b) :
    Subscribed(b, c) /\ ~Coming(b, c) /\ Commands(b, c, l) =>
      /\ state[<<b, l>>] = (published[c] = 1)
      /\ state[<<b, l>>] => lit[<<b, l>>]

(* However handler and timers interleave, an indicator with state ON has a *)
(* timer that keeps it blinking, while its board's program runs.           *)
TimerRuns ==
  \A p \in Blinkers : running[p[1]] /\ state[p] => timers[p] + blinking[p] > 0

(* An indicator that is off does not stay lit: a timer that switches its   *)
(* lamp on too late is followed by one that switches it off.  Nor does one *)
(* stay lit whose board's program has ended.                               *)
GoesDark ==
  \A p \in Blinkers :
    LET blinks == running[p[1]] /\ state[p] IN ~blinks ~> (~lit[p] \/ blinks)

(* An indicator with state ON goes on and off while the program runs.      *)
Blinks ==
  \A p \in Blinkers :
    LET blinks == running[p[1]] /\ state[p] IN
    /\ blinks ~> (~blinks \/ lit[p])
    /\ blinks ~> (~blinks \/ ~lit[p])
==============================================================================
