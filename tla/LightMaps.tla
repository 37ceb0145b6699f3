------------------------------ MODULE LightMaps ------------------------------
(***************************************************************************)
(* The tables of the vehicle's lights: the events of the dashboard, and    *)
(* for each of the two relay boards the topics it subscribes to and what   *)
(* each of them does to each of its lights (dashboard/switch-publisher.py, *)
(* front/relay-subscriber.py, back/relay-subscriber.py).  Topics go by     *)
(* their last part: "side" is 'topic/lights/side'.                         *)
(***************************************************************************)
EXTENDS Naturals

CONSTANT Indicators        \* the indicators that are looked at: the two of a
                           \* board share nothing but the thread that handles them

ASSUME IndicatorsOK == Indicators \subseteq {"leftind", "rightind"}

(* What a topic does to a light: switch it, leave it, switch it also, make *)
(* it blink.                                                               *)
Codes == {"ON", "OFF", "ASC", "TMR"}

(* The events, in the order of the channels of the multiplexer.            *)
events ==
  <<"side", "head-dipped", "head-full", "left-indicator", "right-indicator", "hazards",
    "brakes", "front-fog", "rear-fog", "spot", "reversing", "flasher",
    "washer", "wiper", "blower", "spare">>

Boards == {"front", "back"}

front_topics ==
  {"side", "head-dipped", "head-full", "left-indicator", "right-indicator", "hazards",
   "front-fog", "spot", "flasher"}

front_lights == {"side", "headdip", "headfull", "fog", "spot"} \cup Indicators

front_light_map(topic, light) ==
  CASE <<topic, light>> \in
         {<<"side", "side">>, <<"head-dipped", "headdip">>, <<"head-full", "headfull">>,
          <<"front-fog", "fog">>, <<"spot", "spot">>,
          <<"flasher", "headfull">>, <<"flasher", "spot">>} -> "ON"
    [] <<topic, light>> \in
         {<<"head-dipped", "side">>, <<"head-full", "side">>, <<"front-fog", "side">>,
          <<"front-fog", "headdip">>, <<"spot", "headfull">>} -> "ASC"
    [] <<topic, light>> \in
         {<<"left-indicator", "leftind">>, <<"right-indicator", "rightind">>,
          <<"hazards", "leftind">>, <<"hazards", "rightind">>} -> "TMR"
    [] OTHER -> "OFF"

back_topics ==
  {"brake", "side", "left-indicator", "right-indicator", "hazards", "rear-fog", "reversing",
   "flasher"}

back_rows == back_topics \ {"flasher"}

back_lights == {"brake", "side", "reverse", "fog"} \cup Indicators

back_light_map(topic, light) ==
  CASE <<topic, light>> \in
         {<<"brake", "brake">>, <<"side", "side">>, <<"rear-fog", "fog">>,
          <<"reversing", "reverse">>} -> "ON"
    [] <<topic, light>> \in
         {<<"left-indicator", "leftind">>, <<"right-indicator", "rightind">>,
          <<"hazards", "leftind">>, <<"hazards", "rightind">>} -> "TMR"
    [] OTHER -> "OFF"

topic_map(b) == IF b = "front" THEN front_topics ELSE back_topics

(* The topics that light_map has a row for.                                *)
rows(b) == IF b = "front" THEN front_topics ELSE back_rows

lights(b) == IF b = "front" THEN front_lights ELSE back_lights
light_map(b, topic, light) ==
  IF b = "front" THEN front_light_map(topic, light) ELSE back_light_map(topic, light)
==============================================================================
