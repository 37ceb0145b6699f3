------------------------ MODULE VehicleLights_proofs -------------------------
(***************************************************************************)
(* Theorems about VehicleLights, for any boards, switches and bounds: type *)
(* correctness, and that no interleaving of the handler of messages with   *)
(* the threads of the timers leaves an indicator that is on without one.   *)
(***************************************************************************)
EXTENDS VehicleLights, SequenceTheorems, TLAPS

(* The strengthening: the handler has a payload while it has indicators to *)
(* deal with, and the timer it has just started for one is still running.  *)
HandlerBusy ==
  \A b \in Relays :
    /\ armed[b] # NoLight \/ todo[b] # {} => payload[b] # NoPayload
    /\ armed[b] # NoLight /\ payload[b] = 1 => timers[<<b, armed[b]>>] >= 1

IInv == TypeOK /\ HandlerBusy /\ TimerRuns

------------------------------------------------------------------------------
(* The tables.                                                             *)

(* Every indicator is a light of every board.                              *)
LEMMA BlinkersAreLamps ==
  /\ Blinkers \subseteq Lamps
  /\ \A b \in Relays, l \in Indicators : <<b, l>> \in Blinkers /\ <<b, l>> \in Lamps
  /\ NoLight \notin Indicators
BY IndicatorsOK DEF Blinkers, Lamps, lights, front_lights, back_lights, NoLight

(* A lamp is a pair of a board and one of its lights.                      *)
LEMMA LampsArePairs ==
  /\ \A p \in Lamps : p[1] \in Relays /\ p = <<p[1], p[2]>>
  /\ \A p \in Blinkers : p[1] \in Relays /\ p[2] \in Indicators /\ p = <<p[1], p[2]>>
BY DEF Lamps, Blinkers

(* The tables hold nothing but codes.                                      *)
LEMMA MapsToCodes ==
  \A b, t, l : light_map(b, t, l) \in Codes
BY DEF light_map, front_light_map, back_light_map, Codes

(* No topic switches an indicator on: only a timer's code stands for it.   *)
LEMMA IndicatorsAreTimed ==
  \A b, t : \A l \in Indicators : light_map(b, t, l) # "ON"
<1>1. SUFFICES ASSUME NEW b, NEW t, NEW l \in {"leftind", "rightind"}
               PROVE  light_map(b, t, l) # "ON"
  BY IndicatorsOK
<1>2. front_light_map(t, l) # "ON" BY DEF front_light_map
<1>3. back_light_map(t, l) # "ON" BY DEF back_light_map
<1>4. QED BY <1>2, <1>3 DEF light_map

(* The publisher always looks at one of the switches.                      *)
LEMMA ChannelIsUsed ==
  ASSUME TypeOK
  PROVE  Channels[channel] \in Used /\ (NextChannel => channel' \in DOMAIN Channels)
<1>1. Channels \in Seq({events[i] : i \in DOMAIN events}) /\ Channels # <<>>
  BY LightConstantsOK
<1>2. Len(Channels) \in Nat /\ DOMAIN Channels = 1..Len(Channels) /\ Len(Channels) # 0
  BY <1>1
<1>3. channel \in 1..Len(Channels) BY <1>2 DEF TypeOK
<1>4. Channels[channel] \in Used BY <1>2, <1>3 DEF Used
<1>5. ASSUME NextChannel PROVE channel' \in 1..Len(Channels)
  <2> DEFINE n == Len(Channels)
  <2>1. n \in Nat /\ n # 0 /\ channel \in 1..n BY <1>2, <1>3
  <2>2. channel' = IF channel = n THEN 1 ELSE channel + 1 BY <1>5 DEF NextChannel
  <2> HIDE DEF n
  <2>3. channel' \in 1..n BY <2>1, <2>2
  <2>4. QED BY <2>3 DEF n
<1>6. QED BY <1>2, <1>4, <1>5

(* What a topic does to a light leaves it lit or not.                      *)
LEMMA LitOrNot ==
  ASSUME TypeOK, NEW b \in Relays, NEW l, <<b, l>> \in Lamps, NEW t, NEW v
  PROVE  LitAfter(b, l, t, v) \in BOOLEAN /\ StateAfter(b, l, t, v) \in BOOLEAN
<1>1. state[<<b, l>>] \in BOOLEAN /\ lit[<<b, l>>] \in BOOLEAN BY DEF TypeOK
<1>2. light_map(b, t, l) \in {"ON", "OFF", "ASC", "TMR"} BY MapsToCodes DEF Codes
<1>3. LitAfter(b, l, t, v) \in BOOLEAN
  <2>1. CASE light_map(b, t, l) = "ON" BY <2>1 DEF LitAfter
  <2>2. CASE light_map(b, t, l) = "OFF" BY <2>2, <1>1 DEF LitAfter
  <2>3. CASE light_map(b, t, l) = "ASC" BY <2>3, <1>1 DEF LitAfter
  <2>4. CASE light_map(b, t, l) = "TMR" BY <2>4, <1>1 DEF LitAfter
  <2>5. QED BY <1>2, <2>1, <2>2, <2>3, <2>4
<1>4. StateAfter(b, l, t, v) \in BOOLEAN BY <1>1 DEF StateAfter
<1>5. QED BY <1>3, <1>4

------------------------------------------------------------------------------
LEMMA InitIInv == Init => IInv
<1>1. SUFFICES ASSUME Init PROVE IInv OBVIOUS
<1>2. 1 \in DOMAIN Channels BY LightConstantsOK
<1>3. TypeOK BY <1>1, <1>2 DEF Init, TypeOK, NoPayload, NoLight
<1>4. HandlerBusy BY <1>1 DEF Init, HandlerBusy
<1>5. TimerRuns BY <1>1, BlinkersAreLamps DEF Init, TimerRuns
<1>6. QED BY <1>3, <1>4, <1>5 DEF IInv

(* The dashboard and the network leave the handler and the threads alone.  *)
LEMMA PublisherKeepsIInv ==
  ASSUME IInv, (\E c \in Used : Flip(c)) \/ CheckSwitch
  PROVE  IInv'
<1>1. UNCHANGED <<handler, state, lit, duty, threads>>
  BY DEF Flip, CheckSwitch, SwitchIsTheSame, SwitchHasChanged
<1>2. UNCHANGED <<running, payload, todo, armed, state, lit, duty, timers, blinking, ending>>
  BY <1>1 DEF handler, threads
<1>3. TypeOK BY DEF IInv
<1>4. /\ switch' \in [Used -> 0..1] /\ published' \in [Used -> 0..1]
      /\ channel' \in DOMAIN Channels
      /\ wire' \in [Relays -> Seq(Used \X (0..1))] /\ missed' \in [Relays -> SUBSET Used]
  <2>1. CASE \E c \in Used : Flip(c)
    <3>1. PICK c \in Used : Flip(c) BY <2>1
    <3>2. /\ switch' = [switch EXCEPT ![c] = 1 - @]
          /\ UNCHANGED <<published, channel, wire, missed>>
      BY <3>1 DEF Flip, network
    <3>3. switch \in [Used -> 0..1] BY <1>3 DEF TypeOK
    <3>4. switch' \in [Used -> 0..1] BY <3>2, <3>3
    <3>5. QED BY <1>3, <3>2, <3>4 DEF TypeOK
  <2>2. CASE SwitchIsTheSame
    BY <1>3, <2>2, ChannelIsUsed DEF TypeOK, SwitchIsTheSame, network
  <2>3. CASE SwitchHasChanged
    <3> DEFINE c == Channels[channel]
    <3>1. c \in Used /\ channel' \in DOMAIN Channels
      BY <1>3, <2>3, ChannelIsUsed DEF SwitchHasChanged
    <3>2. switch[c] \in 0..1 BY <1>3, <3>1 DEF TypeOK
    <3>3. switch' = switch /\ published' = [published EXCEPT ![c] = switch[c]]
      BY <2>3 DEF SwitchHasChanged
    <3>4. switch' \in [Used -> 0..1] /\ published' \in [Used -> 0..1]
      BY <1>3, <3>2, <3>3 DEF TypeOK
    <3>5. PICK reached \in SUBSET On :
            /\ wire' = [b \in Relays |->
                          IF b \in reached /\ Subscribed(b, c)
                          THEN Append(wire[b], <<c, switch[c]>>) ELSE wire[b]]
            /\ missed' = [b \in Relays |->
                            IF b \in reached THEN missed[b] \ {c}
                            ELSE missed[b] \cup ({c} \cap Sole[b])]
      BY <2>3 DEF SwitchHasChanged, publish_event
    <3>6. <<c, switch[c]>> \in Used \X (0..1) BY <3>1, <3>2
    <3> HIDE DEF c
    <3>7. \A b \in Relays : wire[b] \in Seq(Used \X (0..1)) /\ missed[b] \subseteq Used
      BY <1>3 DEF TypeOK
    <3>8. \A b \in Relays : Append(wire[b], <<c, switch[c]>>) \in Seq(Used \X (0..1))
      BY <3>6, <3>7
    <3>9. wire' \in [Relays -> Seq(Used \X (0..1))] BY <3>5, <3>7, <3>8
    <3>10. missed' \in [Relays -> SUBSET Used] BY <3>1, <3>5, <3>7
    <3>11. QED BY <3>1, <3>4, <3>9, <3>10
  <2>4. QED BY <2>1, <2>2, <2>3 DEF CheckSwitch
<1>5. TypeOK' BY <1>2, <1>3, <1>4 DEF TypeOK
<1>6. HandlerBusy' /\ TimerRuns' BY <1>2 DEF IInv, HandlerBusy, TimerRuns
<1>7. QED BY <1>5, <1>6 DEF IInv

LEMMA LinkKeepsIInv ==
  ASSUME IInv, NEW b \in Relays, LinkBreaks(b)
  PROVE  IInv'
<1>1. UNCHANGED <<switch, published, channel, running, payload, todo, armed, state, lit, duty,
                  timers, blinking, ending>>
  BY DEF LinkBreaks, dashboard, handler, threads
<1>2. TypeOK BY DEF IInv
<1>3. PICK k \in 1..Len(wire[b]) :
        /\ wire' = [wire EXCEPT ![b] = SubSeq(@, 1, k - 1)]
        /\ missed' = [missed EXCEPT
             ![b] = @ \cup (Sole[b] \cap {wire[b][i][1] : i \in k..Len(wire[b])})]
  BY DEF LinkBreaks
<1>4. wire[b] \in Seq(Used \X (0..1)) BY <1>2 DEF TypeOK
<1>5. Len(wire[b]) \in Nat BY <1>4
<1>6. SubSeq(wire[b], 1, k - 1) \in Seq(Used \X (0..1)) BY <1>4, <1>5
<1>7. wire' \in [Relays -> Seq(Used \X (0..1))] BY <1>2, <1>3, <1>6 DEF TypeOK
<1>8. Sole[b] \subseteq Used BY DEF Sole
<1>9. missed' \in [Relays -> SUBSET Used] BY <1>2, <1>3, <1>8 DEF TypeOK
<1>10. TypeOK' BY <1>1, <1>2, <1>7, <1>9 DEF TypeOK
<1>11. HandlerBusy' /\ TimerRuns' BY <1>1 DEF IInv, HandlerBusy, TimerRuns
<1>12. QED BY <1>10, <1>11 DEF IInv

------------------------------------------------------------------------------
(* A message changes the state of no indicator before its turn.            *)
LEMMA MessageKeepsIInv ==
  ASSUME IInv, NEW b \in Relays, on_message(b)
  PROVE  IInv'
<1> DEFINE topic == Head(wire[b])[1]
           value == Head(wire[b])[2]
           blink == {l \in Indicators : light_map(b, topic, l) = "TMR"}
<1>1. TypeOK BY DEF IInv
<1>2. /\ payload[b] = NoPayload /\ wire[b] # <<>>
      /\ state' = [p \in Lamps |->
                     IF p[1] = b THEN StateAfter(b, p[2], topic, value) ELSE state[p]]
      /\ lit' = [p \in Lamps |->
                   IF p[1] = b THEN LitAfter(b, p[2], topic, value) ELSE lit[p]]
      /\ todo' = [todo EXCEPT ![b] = blink]
      /\ payload' = [payload EXCEPT ![b] = IF blink = {} THEN NoPayload ELSE value]
      /\ wire' = [wire EXCEPT ![b] = Tail(@)]
  BY DEF on_message
<1>3. UNCHANGED <<switch, published, channel, missed, running, armed, duty, timers, blinking, ending>>
  BY DEF on_message, dashboard, threads
<1>4. wire[b] \in Seq(Used \X (0..1)) BY <1>1 DEF TypeOK
<1>5. Head(wire[b]) \in Used \X (0..1) /\ Tail(wire[b]) \in Seq(Used \X (0..1))
  BY <1>2, <1>4
<1>6. value \in 0..1 BY <1>5
<1>7. blink \subseteq Indicators OBVIOUS
<1>8. \A p \in Lamps : p[1] = b =>
        /\ StateAfter(b, p[2], topic, value) \in BOOLEAN
        /\ LitAfter(b, p[2], topic, value) \in BOOLEAN
  BY <1>1, LampsArePairs, LitOrNot
<1>9. \A p \in Blinkers : state'[p] = state[p]
  <2>1. SUFFICES ASSUME NEW p \in Blinkers, p[1] = b
                 PROVE  StateAfter(b, p[2], topic, value) = state[p]
    BY <1>2, BlinkersAreLamps
  <2>2. p = <<b, p[2]>> /\ p[2] \in Indicators BY <2>1, LampsArePairs
  <2>3. light_map(b, topic, p[2]) # "ON" BY <2>2, IndicatorsAreTimed
  <2>4. QED BY <2>2, <2>3 DEF StateAfter
<1> HIDE DEF topic, value, blink
<1>10. TypeOK'
  <2>1. state' \in [Lamps -> BOOLEAN] /\ lit' \in [Lamps -> BOOLEAN]
    BY <1>1, <1>2, <1>8 DEF TypeOK
  <2>2. payload' \in [Relays -> 0..2] BY <1>1, <1>2, <1>6 DEF TypeOK, NoPayload
  <2>3. todo' \in [Relays -> SUBSET Indicators] BY <1>1, <1>2, <1>7 DEF TypeOK
  <2>4. wire' \in [Relays -> Seq(Used \X (0..1))] BY <1>1, <1>2, <1>5 DEF TypeOK
  <2>5. QED BY <1>1, <1>3, <2>1, <2>2, <2>3, <2>4 DEF TypeOK
<1>11. HandlerBusy'
  <2>1. armed[b] = NoLight BY <1>2 DEF IInv, HandlerBusy
  <2>2. SUFFICES ASSUME NEW r \in Relays
                 PROVE  /\ armed[r] # NoLight \/ todo'[r] # {} => payload'[r] # NoPayload
                        /\ armed[r] # NoLight /\ payload'[r] = 1 => timers[<<r, armed[r]>>] >= 1
    BY <1>3 DEF HandlerBusy
  <2>3. CASE r = b
    BY <1>1, <1>2, <1>6, <2>1, <2>3 DEF TypeOK, NoPayload
  <2>4. CASE r # b
    BY <1>1, <1>2, <2>4 DEF TypeOK, IInv, HandlerBusy
  <2>5. QED BY <2>3, <2>4
<1>12. TimerRuns' BY <1>3, <1>9 DEF IInv, TimerRuns
<1>13. QED BY <1>10, <1>11, <1>12 DEF IInv

(* The lamp first, and the timer with it: the state is not ON, yet.        *)
LEMMA SwitchKeepsIInv ==
  ASSUME IInv, NEW b \in Relays, NEW l \in Indicators, SwitchIndicator(b, l)
  PROVE  IInv'
<1> DEFINE p == <<b, l>>
<1>1. TypeOK BY DEF IInv
<1>2. /\ armed[b] = NoLight /\ l \in todo[b]
      /\ armed' = [armed EXCEPT ![b] = l]
      /\ lit' = [lit EXCEPT ![p] = (payload[b] = 1)]
      /\ timers' = [timers EXCEPT ![p] = @ + payload[b]]
      /\ UNCHANGED <<switch, published, channel, wire, missed, running, payload, todo, state, duty,
                     blinking, ending>>
  BY DEF SwitchIndicator, InTurn, dashboard, network
<1>3. p \in Blinkers /\ p \in Lamps BY BlinkersAreLamps
<1>4. payload[b] \in 0..2 /\ timers[p] \in Nat BY <1>1, <1>3 DEF TypeOK
<1>5. timers[p] + payload[b] \in Nat /\ timers[p] + payload[b] >= timers[p] BY <1>4
<1>6. payload[b] # NoPayload BY <1>2 DEF IInv, HandlerBusy
<1> HIDE DEF p
<1>7. TypeOK'
  <2>1. armed' \in [Relays -> Indicators \cup {NoLight}] BY <1>1, <1>2 DEF TypeOK
  <2>2. lit' \in [Lamps -> BOOLEAN] BY <1>1, <1>2 DEF TypeOK
  <2>3. timers' \in [Blinkers -> Nat] BY <1>1, <1>2, <1>5 DEF TypeOK
  <2>4. QED BY <1>1, <1>2, <2>1, <2>2, <2>3 DEF TypeOK
<1>8. \A q \in Blinkers : timers'[q] \in Nat /\ timers[q] \in Nat /\ timers'[q] >= timers[q]
  BY <1>1, <1>2, <1>5 DEF TypeOK
<1>9. HandlerBusy'
  <2>1. SUFFICES ASSUME NEW r \in Relays
                 PROVE  /\ armed'[r] # NoLight \/ todo[r] # {} => payload[r] # NoPayload
                        /\ armed'[r] # NoLight /\ payload[r] = 1 => timers'[<<r, armed'[r]>>] >= 1
    BY <1>2 DEF HandlerBusy
  <2>2. CASE r = b
    <3>1. armed'[r] = l BY <1>1, <1>2, <2>2 DEF TypeOK
    <3>2. payload[r] = 1 => timers'[p] >= 1
      BY <1>1, <1>2, <1>3, <1>4, <2>2 DEF TypeOK
    <3>3. QED BY <1>6, <2>2, <3>1, <3>2 DEF p
  <2>3. CASE r # b
    <3>1. armed'[r] = armed[r] BY <1>1, <1>2, <2>3 DEF TypeOK
    <3>2. armed[r] # NoLight => <<r, armed[r]>> \in Blinkers
      BY <1>1, BlinkersAreLamps DEF TypeOK
    <3>3. QED BY <1>8, <3>1, <3>2 DEF IInv, HandlerBusy
  <2>4. QED BY <2>2, <2>3
<1>10. TimerRuns'
  BY <1>1, <1>2, <1>8 DEF IInv, TypeOK, TimerRuns
<1>11. QED BY <1>7, <1>9, <1>10 DEF IInv

(* ... then the state, which the timer just started answers for.           *)
LEMMA SetKeepsIInv ==
  ASSUME IInv, NEW b \in Relays, NEW l \in Indicators, SetIndicator(b, l)
  PROVE  IInv'
<1> DEFINE p == <<b, l>>
<1>1. TypeOK BY DEF IInv
<1>2. /\ armed[b] = l
      /\ armed' = [armed EXCEPT ![b] = NoLight]
      /\ state' = [state EXCEPT ![p] = (payload[b] = 1)]
      /\ todo' = [todo EXCEPT ![b] = @ \ {l}]
      /\ payload' = [payload EXCEPT ![b] = IF todo'[b] = {} THEN NoPayload ELSE @]
      /\ UNCHANGED <<switch, published, channel, wire, missed, running, lit, duty, timers,
                     blinking, ending>>
  BY DEF SetIndicator, dashboard, network, threads
<1>3. p \in Blinkers /\ p \in Lamps /\ l # NoLight BY BlinkersAreLamps
<1>4. payload[b] # NoPayload /\ (payload[b] = 1 => timers[p] >= 1)
  BY <1>2, <1>3 DEF IInv, HandlerBusy
<1> HIDE DEF p
<1>5. TypeOK'
  <2>1. armed' \in [Relays -> Indicators \cup {NoLight}] BY <1>1, <1>2 DEF TypeOK
  <2>2. state' \in [Lamps -> BOOLEAN] BY <1>1, <1>2 DEF TypeOK
  <2>3. todo' \in [Relays -> SUBSET Indicators] BY <1>1, <1>2 DEF TypeOK
  <2>4. payload' \in [Relays -> 0..2] BY <1>1, <1>2 DEF TypeOK, NoPayload
  <2>5. QED BY <1>1, <1>2, <2>1, <2>2, <2>3, <2>4 DEF TypeOK
<1>6. HandlerBusy'
  <2>1. SUFFICES ASSUME NEW r \in Relays
                 PROVE  /\ armed'[r] # NoLight \/ todo'[r] # {} => payload'[r] # NoPayload
                        /\ armed'[r] # NoLight /\ payload'[r] = 1 => timers[<<r, armed'[r]>>] >= 1
    BY <1>2 DEF HandlerBusy
  <2>2. CASE r = b
    <3>1. armed'[r] = NoLight BY <1>1, <1>2, <2>2 DEF TypeOK
    <3>2. todo'[r] # {} => payload'[r] = payload[b]
      BY <1>1, <1>2, <2>2 DEF TypeOK
    <3>3. QED BY <1>4, <3>1, <3>2
  <2>3. CASE r # b
    <3>1. armed'[r] = armed[r] /\ todo'[r] = todo[r] /\ payload'[r] = payload[r]
      BY <1>1, <1>2, <2>3 DEF TypeOK
    <3>2. QED BY <3>1 DEF IInv, HandlerBusy
  <2>4. QED BY <2>2, <2>3
<1>7. TimerRuns'
  <2>1. SUFFICES ASSUME NEW q \in Blinkers, running[q[1]], state'[q]
                 PROVE  timers[q] + blinking[q] > 0
    BY <1>2 DEF TimerRuns
  <2>2. timers[q] \in Nat /\ blinking[q] \in Nat BY <1>1 DEF TypeOK
  <2>3. q \in Lamps BY BlinkersAreLamps
  <2>4. CASE q = p
    <3>1. payload[b] = 1 BY <1>1, <1>2, <1>3, <2>1, <2>4 DEF TypeOK
    <3>2. QED BY <1>4, <2>2, <2>4, <3>1
  <2>5. CASE q # p
    <3>1. state[q] BY <1>1, <1>2, <2>1, <2>3, <2>5 DEF TypeOK
    <3>2. QED BY <2>1, <3>1 DEF IInv, TimerRuns
  <2>6. QED BY <2>4, <2>5
<1>8. QED BY <1>5, <1>6, <1>7 DEF IInv

------------------------------------------------------------------------------
(* A timer expires: its thread is the one that the state, if ON, relies on.*)
(* (The timer just started, which the handler relies on, does not.)        *)
LEMMA ExpireKeepsIInv ==
  ASSUME IInv, NEW b \in Relays, NEW l \in Indicators, Expire(b, l)
  PROVE  IInv'
<1> DEFINE p == <<b, l>>
<1>1. TypeOK BY DEF IInv
<1>2. /\ timers[p] > JustStarted(b, l)
      /\ timers' = [timers EXCEPT ![p] = @ - 1]
      /\ IF state[p]
         THEN blinking' = [blinking EXCEPT ![p] = @ + 1] /\ UNCHANGED ending
         ELSE ending' = [ending EXCEPT ![p] = @ + 1] /\ UNCHANGED blinking
      /\ UNCHANGED <<switch, published, channel, wire, missed, running, payload, todo, armed, state,
                     lit, duty>>
  BY DEF Expire, dashboard, network, handler
<1>3. p \in Blinkers /\ p \in Lamps BY BlinkersAreLamps
<1>4. timers[p] \in Nat /\ blinking[p] \in Nat /\ ending[p] \in Nat
  BY <1>1, <1>3 DEF TypeOK
<1>5. JustStarted(b, l) \in 0..1 BY DEF JustStarted
<1>6. timers[p] - 1 \in Nat /\ timers[p] - 1 >= JustStarted(b, l) BY <1>2, <1>4, <1>5
<1>7. armed[b] = l /\ payload[b] = 1 => timers[p] - 1 >= 1 BY <1>6 DEF JustStarted
<1> HIDE DEF p
<1>8. TypeOK'
  <2>1. timers' \in [Blinkers -> Nat] BY <1>1, <1>2, <1>6 DEF TypeOK
  <2>2. blinking[p] + 1 \in Nat /\ ending[p] + 1 \in Nat BY <1>4
  <2>3. CASE state[p] BY <1>1, <1>2, <2>1, <2>2, <2>3 DEF TypeOK
  <2>4. CASE ~state[p] BY <1>1, <1>2, <2>1, <2>2, <2>4 DEF TypeOK
  <2>5. QED BY <2>3, <2>4
<1>9. HandlerBusy'
  <2>1. SUFFICES ASSUME NEW r \in Relays, armed[r] # NoLight, payload[r] = 1
                 PROVE  timers'[<<r, armed[r]>>] >= 1
    BY <1>2 DEF IInv, HandlerBusy
  <2>2. timers[<<r, armed[r]>>] >= 1 BY <2>1 DEF IInv, HandlerBusy
  <2>3. <<r, armed[r]>> \in Blinkers BY <1>1, <2>1, BlinkersAreLamps DEF TypeOK
  <2>4. CASE <<r, armed[r]>> = p
    <3>1. r = b /\ armed[r] = l BY <2>4 DEF p
    <3>2. timers'[p] = timers[p] - 1 BY <1>1, <1>2, <1>3 DEF TypeOK
    <3>3. QED BY <1>7, <2>1, <2>4, <3>1, <3>2
  <2>5. CASE <<r, armed[r]>> # p
    BY <1>1, <1>2, <2>2, <2>3, <2>5 DEF TypeOK
  <2>6. QED BY <2>4, <2>5
<1>10. TimerRuns'
  <2>1. SUFFICES ASSUME NEW q \in Blinkers, running[q[1]], state[q]
                 PROVE  timers'[q] + blinking'[q] > 0
    BY <1>2 DEF TimerRuns
  <2>2. CASE q = p
    <3>1. blinking'[p] = blinking[p] + 1 BY <1>1, <1>2, <1>3, <2>1, <2>2 DEF TypeOK
    <3>2. timers'[p] \in Nat BY <1>3, <1>8 DEF TypeOK
    <3>3. QED BY <1>4, <2>2, <3>1, <3>2
  <2>3. CASE q # p
    <3>1. timers'[q] = timers[q] /\ blinking'[q] = blinking[q]
      BY <1>1, <1>2, <2>3 DEF TypeOK
    <3>2. QED BY <2>1, <3>1 DEF IInv, TimerRuns
  <2>4. QED BY <2>2, <2>3
<1>11. QED BY <1>8, <1>9, <1>10 DEF IInv

(* ... and starts another timer, ...                                       *)
LEMMA BlinkKeepsIInv ==
  ASSUME IInv, NEW b \in Relays, NEW l \in Indicators, Blink(b, l)
  PROVE  IInv'
<1> DEFINE p == <<b, l>>
<1>1. TypeOK BY DEF IInv
<1>2. /\ blinking[p] > 0
      /\ blinking' = [blinking EXCEPT ![p] = @ - 1]
      /\ lit' = [lit EXCEPT ![p] = duty[p]]
      /\ duty' = [duty EXCEPT ![p] = ~@]
      /\ timers' = [timers EXCEPT ![p] = @ + 1]
      /\ UNCHANGED <<switch, published, channel, wire, missed, running, payload, todo, armed, state,
                     ending>>
  BY DEF Blink, Toggle, Restart, dashboard, network, handler
<1>3. p \in Blinkers /\ p \in Lamps BY BlinkersAreLamps
<1>4. timers[p] \in Nat /\ blinking[p] \in Nat /\ duty[p] \in BOOLEAN
  BY <1>1, <1>3 DEF TypeOK
<1> HIDE DEF p
<1>5. TypeOK'
  <2>1. timers' \in [Blinkers -> Nat] /\ blinking' \in [Blinkers -> Nat]
    <3>1. timers[p] + 1 \in Nat /\ blinking[p] - 1 \in Nat BY <1>2, <1>4
    <3>2. QED BY <1>1, <1>2, <3>1 DEF TypeOK
  <2>2. lit' \in [Lamps -> BOOLEAN] BY <1>1, <1>2, <1>4 DEF TypeOK
  <2>3. duty' \in [Blinkers -> BOOLEAN] BY <1>1, <1>2, <1>4 DEF TypeOK
  <2>4. QED BY <1>1, <1>2, <2>1, <2>2, <2>3 DEF TypeOK
<1>6. \A q \in Blinkers :
        /\ timers[q] \in Nat /\ timers'[q] \in Nat /\ timers'[q] >= timers[q]
        /\ blinking'[q] \in Nat
        /\ q = p => timers'[q] = timers[q] + 1
        /\ q # p => blinking'[q] = blinking[q]
  BY <1>1, <1>2, <1>5 DEF TypeOK
<1>7. HandlerBusy'
  <2>1. SUFFICES ASSUME NEW r \in Relays, armed[r] # NoLight, payload[r] = 1
                 PROVE  timers'[<<r, armed[r]>>] >= 1
    BY <1>2 DEF IInv, HandlerBusy
  <2>2. timers[<<r, armed[r]>>] >= 1 BY <2>1 DEF IInv, HandlerBusy
  <2>3. <<r, armed[r]>> \in Blinkers BY <1>1, <2>1, BlinkersAreLamps DEF TypeOK
  <2>4. QED BY <1>6, <2>2, <2>3
<1>8. TimerRuns'
  <2>1. SUFFICES ASSUME NEW q \in Blinkers, running[q[1]], state[q]
                 PROVE  timers'[q] + blinking'[q] > 0
    BY <1>2 DEF TimerRuns
  <2>2. CASE q = p BY <1>6, <2>2
  <2>3. CASE q # p
    <3>1. timers[q] + blinking[q] > 0 /\ blinking[q] \in Nat
      BY <1>1, <2>1 DEF IInv, TimerRuns, TypeOK
    <3>2. QED BY <1>6, <2>3, <3>1
  <2>4. QED BY <2>2, <2>3
<1>9. QED BY <1>5, <1>7, <1>8 DEF IInv

(* ... or makes sure that the state is OFF.                                *)
LEMMA EndKeepsIInv ==
  ASSUME IInv, NEW b \in Relays, NEW l \in Indicators, EndBlinking(b, l)
  PROVE  IInv'
<1> DEFINE p == <<b, l>>
<1>1. TypeOK BY DEF IInv
<1>2. /\ ending[p] > 0
      /\ ending' = [ending EXCEPT ![p] = @ - 1]
      /\ lit' = [lit EXCEPT ![p] = FALSE]
      /\ state' = [state EXCEPT ![p] = FALSE]
      /\ duty' = [duty EXCEPT ![p] = FALSE]
      /\ UNCHANGED <<switch, published, channel, wire, missed, running, payload, todo, armed, timers,
                     blinking>>
  BY DEF EndBlinking, Darken, dashboard, network, handler
<1>3. p \in Blinkers /\ p \in Lamps BY BlinkersAreLamps
<1>4. ending[p] \in Nat BY <1>1, <1>3 DEF TypeOK
<1> HIDE DEF p
<1>5. TypeOK'
  <2>1. ending' \in [Blinkers -> Nat]
    <3>1. ending[p] - 1 \in Nat BY <1>2, <1>4
    <3>2. QED BY <1>1, <1>2, <3>1 DEF TypeOK
  <2>2. lit' \in [Lamps -> BOOLEAN] /\ state' \in [Lamps -> BOOLEAN]
    BY <1>1, <1>2 DEF TypeOK
  <2>3. duty' \in [Blinkers -> BOOLEAN] BY <1>1, <1>2 DEF TypeOK
  <2>4. QED BY <1>1, <1>2, <2>1, <2>2, <2>3 DEF TypeOK
<1>6. HandlerBusy' BY <1>2 DEF IInv, HandlerBusy
<1>7. TimerRuns'
  <2>1. SUFFICES ASSUME NEW q \in Blinkers, running[q[1]], state'[q]
                 PROVE  timers[q] + blinking[q] > 0
    BY <1>2 DEF TimerRuns
  <2>2. q \in Lamps BY BlinkersAreLamps
  <2>3. state[q] BY <1>1, <1>2, <2>1, <2>2 DEF TypeOK
  <2>4. QED BY <2>1, <2>3 DEF IInv, TimerRuns
<1>8. QED BY <1>5, <1>6, <1>7 DEF IInv

(* Once the program has ended, its timers do nothing but end.              *)
LEMMA FailKeepsIInv ==
  ASSUME IInv, NEW b \in Relays, NEW l \in Indicators, TimerFails(b, l)
  PROVE  IInv'
<1> DEFINE p == <<b, l>>
<1>1. TypeOK BY DEF IInv
<1>2. /\ ~running[b]
      /\ \/ blinking[p] > 0 /\ blinking' = [blinking EXCEPT ![p] = @ - 1] /\ UNCHANGED ending
         \/ ending[p] > 0 /\ ending' = [ending EXCEPT ![p] = @ - 1] /\ UNCHANGED blinking
      /\ UNCHANGED <<switch, published, channel, wire, missed, running, payload, todo, armed,
                     state, lit, duty, timers>>
  BY DEF TimerFails, dashboard, network, handler
<1>3. p \in Blinkers /\ p[1] = b BY BlinkersAreLamps
<1>4. blinking[p] \in Nat /\ ending[p] \in Nat BY <1>1, <1>3 DEF TypeOK
<1> HIDE DEF p
<1>5. blinking' \in [Blinkers -> Nat] /\ ending' \in [Blinkers -> Nat]
  <2>1. blinking[p] > 0 => blinking[p] - 1 \in Nat BY <1>4
  <2>2. ending[p] > 0 => ending[p] - 1 \in Nat BY <1>4
  <2>3. QED BY <1>1, <1>2, <2>1, <2>2 DEF TypeOK
<1>6. TypeOK' BY <1>1, <1>2, <1>5 DEF TypeOK
<1>7. HandlerBusy' BY <1>2 DEF IInv, HandlerBusy
<1>8. TimerRuns'
  <2>1. SUFFICES ASSUME NEW q \in Blinkers, running[q[1]], state[q]
                 PROVE  timers[q] + blinking'[q] > 0
    BY <1>2 DEF TimerRuns
  <2>2. q # p BY <1>2, <1>3, <2>1
  <2>3. blinking'[q] = blinking[q] BY <1>1, <1>2, <2>2 DEF TypeOK
  <2>4. QED BY <2>1, <2>3 DEF IInv, TimerRuns
<1>9. QED BY <1>6, <1>7, <1>8 DEF IInv

(* The program ends between two messages, when the handler has nothing to  *)
(* do with the indicators.                                                 *)
LEMMA CrashKeepsIInv ==
  ASSUME IInv, NEW b \in Relays, HandlerFails(b)
  PROVE  IInv'
<1>1. TypeOK BY DEF IInv
<1>2. /\ running' = [running EXCEPT ![b] = FALSE]
      /\ lit' = [p \in Lamps |-> p[1] # b /\ lit[p]]
      /\ wire' = [wire EXCEPT ![b] = <<>>]
      /\ UNCHANGED <<switch, published, channel, missed, payload, todo, armed, state, duty,
                     timers, blinking, ending>>
  BY DEF HandlerFails, dashboard, threads
<1>3. <<>> \in Seq(Used \X (0..1)) OBVIOUS
<1>4. /\ running' \in [Relays -> BOOLEAN] /\ lit' \in [Lamps -> BOOLEAN]
      /\ wire' \in [Relays -> Seq(Used \X (0..1))]
  BY <1>1, <1>2, <1>3 DEF TypeOK
<1>5. TypeOK' BY <1>1, <1>2, <1>4 DEF TypeOK
<1>6. HandlerBusy' BY <1>2 DEF IInv, HandlerBusy
<1>7. \A r \in Relays : running'[r] => running[r] BY <1>1, <1>2 DEF TypeOK
<1>8. TimerRuns' BY <1>2, <1>7, LampsArePairs DEF IInv, TimerRuns
<1>9. QED BY <1>5, <1>6, <1>8 DEF IInv

------------------------------------------------------------------------------
LEMMA StutterKeepsIInv ==
  ASSUME IInv, UNCHANGED vars
  PROVE  IInv'
<1>1. UNCHANGED <<switch, published, channel, wire, missed, running, payload, todo, armed, state,
                  lit, duty, timers, blinking, ending>>
  BY DEF vars, dashboard, network, handler, threads
<1>2. QED BY <1>1 DEF IInv, TypeOK, HandlerBusy, TimerRuns

LEMMA NextKeepsIInv == IInv /\ [Next]_vars => IInv'
<1>1. SUFFICES ASSUME IInv, [Next]_vars PROVE IInv' OBVIOUS
<1>2. CASE (\E c \in Used : Flip(c)) \/ CheckSwitch BY <1>1, <1>2, PublisherKeepsIInv
<1>3. ASSUME NEW b \in Relays, Handle(b) PROVE IInv'
  BY <1>1, <1>3, MessageKeepsIInv, CrashKeepsIInv, SwitchKeepsIInv, SetKeepsIInv DEF Handle
<1>4. ASSUME NEW b \in Relays, LinkBreaks(b) PROVE IInv' BY <1>1, <1>4, LinkKeepsIInv
<1>5. ASSUME NEW b \in Relays, NEW l \in Indicators,
             Expire(b, l) \/ Blink(b, l) \/ EndBlinking(b, l) \/ TimerFails(b, l)
      PROVE  IInv'
  BY <1>1, <1>5, ExpireKeepsIInv, BlinkKeepsIInv, EndKeepsIInv, FailKeepsIInv
<1>6. CASE UNCHANGED vars BY <1>1, <1>6, StutterKeepsIInv
<1>7. QED BY <1>1, <1>2, <1>3, <1>4, <1>5, <1>6 DEF Next

(* The strengthening is an invariant.                                      *)
THEOREM Invariance == Spec => []IInv
<1>1. Init => IInv BY InitIInv
<1>2. IInv /\ [Next]_vars => IInv' BY NextKeepsIInv
<1>3. QED BY <1>1, <1>2, PTL DEF Spec

(* Every variable keeps its type: a message under way is about one of the  *)
(* switches, and the handler has none but the board's own lights to switch *)
(* (publish_event, on_message).                                            *)
THEOREM TypeCorrect == Spec => []TypeOK
<1>1. IInv => TypeOK BY DEF IInv
<1>2. QED BY <1>1, Invariance, PTL

(* While a board's program runs, an indicator with state ON always has a   *)
(* timer that keeps it blinking,                                           *)
(* whatever the order of the handler, which sets the state after it has    *)
(* started a timer, and of the threads of the timers, which read it before *)
(* they act (on_message, on_lind_expire, on_rind_expire).                  *)
THEOREM TimersRun == Spec => []TimerRuns
<1>1. IInv => TimerRuns BY DEF IInv
<1>2. QED BY <1>1, Invariance, PTL

------------------------------------------------------------------------------
(* The lamps that no timer switches, of the boards whose program runs: the *)
(* last message under way about a switch says what was last read of it,    *)
(* unless that message was lost; and an ON light is lit.                   *)
LastAbout(b, c, i) ==
  /\ i \in DOMAIN wire[b] /\ wire[b][i][1] = c
  /\ \A j \in DOMAIN wire[b] : wire[b][j][1] = c => j <= i

InStepFor(b, c, l) ==
  /\ \A i \in DOMAIN wire[b] : LastAbout(b, c, i) => wire[b][i][2] = published[c]
  /\ ~Coming(b, c) => state[<<b, l>>] = (published[c] = 1)

Told ==
  \A b \in On, c \in Used : \A l \in lights(b) :
    Subscribed(b, c) /\ Commands(b, c, l) /\ c \notin missed[b] => InStepFor(b, c, l)

Glows == \A b \in On : \A l \in lights(b) \ Indicators : state[<<b, l>>] => lit[<<b, l>>]

SInv == IInv /\ Told /\ Glows

(* The lamps of lights that a switch commands alone are no indicators.     *)
LEMMA CommandedLamps ==
  /\ \A b \in Relays : \A l \in lights(b) : <<b, l>> \in Lamps
  /\ \A b, c : \A l : Commands(b, c, l) => l \notin Indicators
<1>1. \A b \in Relays : \A l \in lights(b) : <<b, l>> \in Lamps BY DEF Lamps, lights
<1>2. \A b, c : \A l : Commands(b, c, l) => l \notin Indicators
  BY IndicatorsAreTimed DEF Commands
<1>3. QED BY <1>1, <1>2

LEMMA SoleAreUsed == On \subseteq Relays /\ \A b \in Relays : Sole[b] \subseteq Used
BY DEF On, Sole

(* What is under way to a board, as a sequence.                            *)
LEMMA WireIsSeq ==
  ASSUME TypeOK, NEW b \in Relays
  PROVE  /\ wire[b] \in Seq(Used \X (0..1)) /\ Len(wire[b]) \in Nat
         /\ DOMAIN wire[b] = 1..Len(wire[b])
BY DEF TypeOK

LEMMA InitSInv == Init => SInv
<1>1. SUFFICES ASSUME Init PROVE SInv OBVIOUS
<1>2. \A b \in Relays : wire[b] = <<>> BY <1>1 DEF Init
<1>3. \A b \in Relays : DOMAIN wire[b] = {} BY <1>2
<1>5. \A b \in Relays : \A l \in lights(b) : state[<<b, l>>] = FALSE
  BY <1>1, CommandedLamps DEF Init
<1>6. \A c \in Used : published[c] = 0 BY <1>1 DEF Init
<1>7. Told
  <2>1. SUFFICES ASSUME NEW b \in Relays, NEW c \in Used, NEW l \in lights(b)
                 PROVE  InStepFor(b, c, l)
    BY DEF Told, On
  <2>2. state[<<b, l>>] = FALSE /\ ~(published[c] = 1) BY <1>5, <1>6
  <2>3. QED BY <1>3, <2>2 DEF InStepFor
<1>8. Glows BY <1>5 DEF Glows, On
<1>9. QED BY <1>1, <1>7, <1>8, InitIInv DEF SInv

(* Whatever leaves the network and the other lamps alone.                  *)
LEMMA TimersKeepSInv ==
  ASSUME SInv, IInv', UNCHANGED <<published, wire, missed, running>>,
         \A b \in Relays : \A l \in lights(b) \ Indicators :
           state'[<<b, l>>] = state[<<b, l>>] /\ lit'[<<b, l>>] = lit[<<b, l>>]
  PROVE  SInv'
<1>1. On' = On /\ On \subseteq Relays BY DEF On
<1>2. Glows' BY <1>1 DEF SInv, Glows
<1>3. Told'
  <2>1. SUFFICES ASSUME NEW b \in On, NEW c \in Used, NEW l \in lights(b),
                        Subscribed(b, c), Commands(b, c, l), c \notin missed[b]
                 PROVE  InStepFor(b, c, l)'
    BY <1>1 DEF Told, Subscribed, Commands
  <2>2. InStepFor(b, c, l) BY <2>1 DEF SInv, Told
  <2>3. l \in lights(b) \ Indicators BY <2>1, CommandedLamps
  <2>4. QED BY <1>1, <2>2, <2>3 DEF InStepFor, LastAbout, Coming
<1>4. QED BY <1>1, <1>2, <1>3 DEF SInv

(* A timer and the second half of the handler switch one indicator.        *)
LEMMA IndicatorKeepsSInv ==
  ASSUME SInv, IInv', NEW b \in Relays, NEW l \in Indicators,
         SwitchIndicator(b, l) \/ SetIndicator(b, l)
           \/ Expire(b, l) \/ Blink(b, l) \/ EndBlinking(b, l) \/ TimerFails(b, l)
  PROVE  SInv'
<1>1. UNCHANGED <<published, wire, missed, running>>
  BY DEF SwitchIndicator, SetIndicator, Expire, Blink, EndBlinking, TimerFails,
         dashboard, network, handler
<1>2. state \in [Lamps -> BOOLEAN] /\ lit \in [Lamps -> BOOLEAN]
  BY DEF SInv, IInv, TypeOK
<1>3. /\ state' = state \/ \E v : state' = [state EXCEPT ![<<b, l>>] = v]
      /\ lit' = lit \/ \E v : lit' = [lit EXCEPT ![<<b, l>>] = v]
  BY DEF SwitchIndicator, SetIndicator, Expire, Blink, EndBlinking, TimerFails, Darken
<1>4. \A r \in Relays : \A k \in lights(r) \ Indicators :
        state'[<<r, k>>] = state[<<r, k>>] /\ lit'[<<r, k>>] = lit[<<r, k>>]
  <2>1. SUFFICES ASSUME NEW r \in Relays, NEW k \in lights(r) \ Indicators
                 PROVE  /\ state'[<<r, k>>] = state[<<r, k>>]
                        /\ lit'[<<r, k>>] = lit[<<r, k>>]
    OBVIOUS
  <2>2. <<r, k>> \in Lamps /\ <<r, k>> # <<b, l>> BY <2>1, CommandedLamps
  <2>3. QED BY <1>2, <1>3, <2>2
<1>5. QED BY <1>1, <1>4, TimersKeepSInv

------------------------------------------------------------------------------
(* What is published is the last message about its switch, or is missed.   *)
LEMMA PublishKeepsSInv ==
  ASSUME SInv, IInv', SwitchHasChanged
  PROVE  SInv'
<1> DEFINE d == Channels[channel]
<1>1. TypeOK BY DEF SInv, IInv
<1>2. PICK reached \in SUBSET On :
        /\ wire' = [b \in Relays |->
                      IF b \in reached /\ Subscribed(b, d)
                      THEN Append(wire[b], <<d, switch[d]>>) ELSE wire[b]]
        /\ missed' = [b \in Relays |->
                        IF b \in reached THEN missed[b] \ {d}
                        ELSE missed[b] \cup ({d} \cap Sole[b])]
  BY DEF SwitchHasChanged, publish_event
<1>3. /\ published' = [published EXCEPT ![d] = switch[d]]
      /\ state' = state /\ lit' = lit /\ running' = running
  BY DEF SwitchHasChanged, handler
<1>0. On' = On /\ On \subseteq Relays BY <1>3 DEF On
<1>4. d \in Used /\ switch[d] \in 0..1 BY <1>1, ChannelIsUsed DEF TypeOK
<1>5. published'[d] = switch[d] /\ \A c \in Used : c # d => published'[c] = published[c]
  BY <1>1, <1>3, <1>4 DEF TypeOK
<1> HIDE DEF d
<1>6. ASSUME NEW b \in Relays, b \in reached, Subscribed(b, d)
      PROVE  /\ Len(wire'[b]) = Len(wire[b]) + 1 /\ DOMAIN wire'[b] = 1..(Len(wire[b]) + 1)
             /\ \A i \in 1..Len(wire[b]) : wire'[b][i] = wire[b][i]
             /\ wire'[b][Len(wire[b]) + 1] = <<d, switch[d]>>
  <2>1. wire'[b] = Append(wire[b], <<d, switch[d]>>) BY <1>2, <1>6
  <2>2. <<d, switch[d]>> \in Used \X (0..1) BY <1>4
  <2>3. wire[b] \in Seq(Used \X (0..1)) BY <1>1, WireIsSeq
  <2>4. QED BY <2>1, <2>2, <2>3, AppendProperties
<1>7. ASSUME NEW b \in Relays, ~(b \in reached /\ Subscribed(b, d))
      PROVE  wire'[b] = wire[b]
  BY <1>2, <1>7
<1>9. Told'
  <2>1. SUFFICES ASSUME NEW b \in Relays, b \in On, NEW c \in Used,
                        NEW l \in lights(b), Subscribed(b, c), Commands(b, c, l), c \notin missed'[b]
                 PROVE  InStepFor(b, c, l)'
    BY <1>0 DEF Told, Subscribed, Commands
  <2>2. Len(wire[b]) \in Nat /\ DOMAIN wire[b] = 1..Len(wire[b]) BY <1>0, <1>1, <2>1, WireIsSeq
  <2>3. CASE c = d
    <3>1. b \in Relays /\ c \in Sole[b] BY <1>0, <2>1 DEF Sole
    <3>2. b \in reached BY <1>2, <2>1, <2>3, <3>1
    <3>3. Len(wire[b]) + 1 \in DOMAIN wire'[b] BY <1>6, <2>1, <2>2, <2>3, <3>2
    <3>4. wire'[b][Len(wire[b]) + 1] = <<d, switch[d]>> BY <1>6, <2>1, <2>3, <3>2
    <3>5. wire'[b][Len(wire[b]) + 1][1] = c BY <2>3, <3>4
    <3>6. Coming(b, c)' BY <3>3, <3>5 DEF Coming
    <3>7. ASSUME NEW i \in DOMAIN wire'[b], LastAbout(b, c, i)'
          PROVE  wire'[b][i][2] = published'[c]
      <4>1. Len(wire[b]) + 1 <= i BY <3>3, <3>5, <3>7 DEF LastAbout
      <4>2. i \in 1..(Len(wire[b]) + 1) BY <1>6, <2>1, <2>3, <3>2, <3>7
      <4>3. i = Len(wire[b]) + 1 BY <2>2, <4>1, <4>2
      <4>4. QED BY <1>5, <2>3, <3>4, <4>3
    <3>8. QED BY <3>6, <3>7 DEF InStepFor
  <2>4. CASE c # d
    <3>1. c \notin missed[b] BY <1>2, <2>1, <2>4
    <3>2. InStepFor(b, c, l) BY <2>1, <3>1 DEF SInv, Told
    <3>3. /\ DOMAIN wire[b] \subseteq DOMAIN wire'[b]
          /\ \A i \in DOMAIN wire[b] : wire'[b][i] = wire[b][i]
          /\ \A i \in DOMAIN wire'[b] : wire'[b][i][1] = c => i \in DOMAIN wire[b]
      <4>1. CASE b \in reached /\ Subscribed(b, d)
        <5>1. wire'[b][Len(wire[b]) + 1][1] = d BY <1>6, <4>1
        <5>2. /\ DOMAIN wire'[b] = 1..(Len(wire[b]) + 1)
              /\ \A i \in 1..Len(wire[b]) : wire'[b][i] = wire[b][i]
          BY <1>6, <4>1
        <5>3. DOMAIN wire[b] \subseteq DOMAIN wire'[b] BY <2>2, <5>2
        <5>4. \A i \in DOMAIN wire'[b] : i = Len(wire[b]) + 1 \/ i \in DOMAIN wire[b]
          BY <2>2, <5>2
        <5>5. QED BY <2>2, <2>4, <5>1, <5>2, <5>3, <5>4
      <4>2. CASE ~(b \in reached /\ Subscribed(b, d)) BY <1>7, <4>2
      <4>3. QED BY <4>1, <4>2
    <3>4. ~Coming(b, c)' => ~Coming(b, c) BY <3>3 DEF Coming
    <3>5. ASSUME NEW i \in DOMAIN wire'[b], LastAbout(b, c, i)'
          PROVE  wire'[b][i][2] = published'[c]
      <4>1. i \in DOMAIN wire[b] /\ wire'[b][i] = wire[b][i] BY <3>3, <3>5 DEF LastAbout
      <4>2. LastAbout(b, c, i) BY <3>3, <3>5, <4>1 DEF LastAbout
      <4>3. QED BY <1>5, <2>4, <3>2, <4>1, <4>2 DEF InStepFor
    <3>6. QED BY <1>3, <1>5, <2>4, <3>2, <3>4, <3>5 DEF InStepFor
  <2>5. QED BY <2>3, <2>4
<1>10. Glows' BY <1>0, <1>3 DEF SInv, Glows
<1>11. QED BY <1>9, <1>10 DEF SInv

(* The last messages under way are lost, and with them go the lights they  *)
(* would have set.                                                         *)
LEMMA LinkKeepsSInv ==
  ASSUME SInv, IInv', NEW r \in Relays, LinkBreaks(r)
  PROVE  SInv'
<1>1. TypeOK BY DEF SInv, IInv
<1>2. PICK k \in 1..Len(wire[r]) :
        /\ wire' = [wire EXCEPT ![r] = SubSeq(@, 1, k - 1)]
        /\ missed' = [missed EXCEPT
             ![r] = @ \cup (Sole[r] \cap {wire[r][i][1] : i \in k..Len(wire[r])})]
  BY DEF LinkBreaks
<1>3. published' = published /\ state' = state /\ lit' = lit /\ running' = running
  BY DEF LinkBreaks, dashboard, handler
<1>0. On' = On /\ On \subseteq Relays BY <1>3 DEF On
<1>4. /\ wire[r] \in Seq(Used \X (0..1)) /\ Len(wire[r]) \in Nat
      /\ DOMAIN wire[r] = 1..Len(wire[r])
  BY <1>1, WireIsSeq
<1>5. /\ wire'[r] = SubSeq(wire[r], 1, k - 1)
      /\ missed'[r] = missed[r] \cup (Sole[r] \cap {wire[r][i][1] : i \in k..Len(wire[r])})
      /\ \A b \in Relays : b # r => wire'[b] = wire[b] /\ missed'[b] = missed[b]
  BY <1>1, <1>2 DEF TypeOK
<1>6. /\ Len(wire'[r]) = k - 1
      /\ DOMAIN wire'[r] = 1..(k - 1)
      /\ \A i \in 1..(k - 1) : wire'[r][i] = wire[r][i]
  <2>1. k - 1 \in Nat /\ k - 1 <= Len(wire[r]) BY <1>4
  <2>2. \A i \in 1..(k - 1) : wire[r][i] \in Used \X (0..1) BY <1>4, <2>1, ElementOfSeq
  <2>3. /\ SubSeq(wire[r], 1, k - 1) \in Seq(Used \X (0..1))
        /\ Len(SubSeq(wire[r], 1, k - 1)) = IF 1 <= k - 1 THEN (k - 1) - 1 + 1 ELSE 0
        /\ \A i \in 1..((k - 1) - 1 + 1) : SubSeq(wire[r], 1, k - 1)[i] = wire[r][1 + i - 1]
    BY <2>1, <2>2, SubSeqProperties
  <2>4. Len(wire'[r]) = k - 1 BY <1>5, <2>1, <2>3
  <2>5. DOMAIN wire'[r] = 1..(k - 1) BY <1>5, <2>3, <2>4
  <2>6. ASSUME NEW i \in 1..(k - 1) PROVE wire'[r][i] = wire[r][i]
    <3>1. i \in 1..((k - 1) - 1 + 1) /\ 1 + i - 1 = i BY <2>1
    <3>2. QED BY <1>5, <2>3, <3>1
  <2>7. QED BY <2>4, <2>5, <2>6
<1>8. Told'
  <2>1. SUFFICES ASSUME NEW b \in Relays, b \in On, NEW c \in Used,
                        NEW l \in lights(b), Subscribed(b, c), Commands(b, c, l), c \notin missed'[b]
                 PROVE  InStepFor(b, c, l)'
    BY <1>0 DEF Told, Subscribed, Commands
  <2>2. b \in Relays /\ c \notin missed[b] BY <1>0, <1>5, <2>1
  <2>3. InStepFor(b, c, l) BY <2>1, <2>2 DEF SInv, Told
  <2>4. CASE b = r
    <3>1. c \in Sole[b] BY <2>1, <2>2 DEF Sole
    <3>2. \A i \in k..Len(wire[r]) : wire[r][i][1] # c BY <1>5, <2>1, <2>4, <3>1
    <3>3. /\ DOMAIN wire'[r] \subseteq DOMAIN wire[r]
          /\ \A i \in DOMAIN wire[r] : wire[r][i][1] = c => i \in DOMAIN wire'[r]
          /\ \A i \in DOMAIN wire'[r] : wire'[r][i] = wire[r][i]
      <4>1. DOMAIN wire'[r] \subseteq DOMAIN wire[r] BY <1>4, <1>6
      <4>2. \A i \in DOMAIN wire[r] : i \in k..Len(wire[r]) \/ i \in DOMAIN wire'[r]
        BY <1>4, <1>6
      <4>3. QED BY <1>6, <3>2, <4>1, <4>2
    <3>4. ~Coming(b, c)' => ~Coming(b, c) BY <2>4, <3>3 DEF Coming
    <3>5. ASSUME NEW i \in DOMAIN wire'[b], LastAbout(b, c, i)'
          PROVE  wire'[b][i][2] = published[c]
      <4>1. LastAbout(b, c, i) BY <2>4, <3>3, <3>5 DEF LastAbout
      <4>2. QED BY <2>3, <2>4, <3>3, <3>5, <4>1 DEF InStepFor
    <3>6. QED BY <1>3, <2>3, <3>4, <3>5 DEF InStepFor
  <2>5. CASE b # r
    BY <1>3, <1>5, <2>2, <2>3, <2>5 DEF InStepFor, LastAbout, Coming
  <2>6. QED BY <2>4, <2>5
<1>9. Glows' BY <1>0, <1>3 DEF SInv, Glows
<1>10. QED BY <1>8, <1>9 DEF SInv

(* A message that is handled sets the lights its topic commands; no other  *)
(* light loses its state, nor, if it is ON, goes dark.                     *)
LEMMA MessageKeepsSInv ==
  ASSUME SInv, IInv', NEW r \in Relays, on_message(r)
  PROVE  SInv'
<1> DEFINE d == Head(wire[r])[1]
           v == Head(wire[r])[2]
<1>1. TypeOK BY DEF SInv, IInv
<1>2. /\ wire[r] # <<>>
      /\ state' = [p \in Lamps |-> IF p[1] = r THEN StateAfter(r, p[2], d, v) ELSE state[p]]
      /\ lit' = [p \in Lamps |-> IF p[1] = r THEN LitAfter(r, p[2], d, v) ELSE lit[p]]
      /\ wire' = [wire EXCEPT ![r] = Tail(@)]
      /\ published' = published /\ missed' = missed /\ running' = running
      /\ d \in rows(r)
  BY DEF on_message, dashboard
<1>0. On' = On /\ On \subseteq Relays BY <1>2 DEF On
<1>3. /\ wire[r] \in Seq(Used \X (0..1)) /\ Len(wire[r]) \in Nat
      /\ DOMAIN wire[r] = 1..Len(wire[r])
  BY <1>1, WireIsSeq
<1>4. /\ wire'[r] = Tail(wire[r])
      /\ \A b \in Relays : b # r => wire'[b] = wire[b]
  BY <1>1, <1>2 DEF TypeOK
<1>5. /\ Tail(wire[r]) \in Seq(Used \X (0..1)) /\ Len(Tail(wire[r])) = Len(wire[r]) - 1
      /\ \A i \in 1..Len(Tail(wire[r])) : Tail(wire[r])[i] = wire[r][i + 1]
      /\ Head(wire[r]) \in Used \X (0..1)
  BY <1>2, <1>3, HeadTailProperties
<1>6. 1 \in DOMAIN wire[r] /\ wire[r][1] = Head(wire[r]) BY <1>2, <1>3
<1>7. /\ DOMAIN wire'[r] = 1..(Len(wire[r]) - 1)
      /\ \A i \in DOMAIN wire'[r] : i + 1 \in DOMAIN wire[r] /\ wire'[r][i] = wire[r][i + 1]
      /\ \A j \in DOMAIN wire[r] : j = 1 \/ (j - 1 \in DOMAIN wire'[r] /\ (j - 1) + 1 = j)
  BY <1>3, <1>4, <1>5
<1>8. d \in Used /\ v \in 0..1 BY <1>5
<1>9. d \in rows(r) BY <1>2
<1>10. ASSUME NEW b \in Relays, NEW l \in lights(b)
       PROVE  /\ b # r => state'[<<b, l>>] = state[<<b, l>>] /\ lit'[<<b, l>>] = lit[<<b, l>>]
              /\ b = r => /\ state'[<<b, l>>] = StateAfter(r, l, d, v)
                          /\ lit'[<<b, l>>] = LitAfter(r, l, d, v)
  BY <1>2, CommandedLamps
<1> HIDE DEF d, v
<1>12. Glows'
  <2>0. SUFFICES ASSUME NEW b \in On, NEW l \in lights(b) \ Indicators, state'[<<b, l>>]
                 PROVE  lit'[<<b, l>>]
    BY <1>0 DEF Glows
  <2>1. b \in Relays /\ l \in lights(b) \ Indicators /\ state'[<<b, l>>] BY <1>0, <2>0
  <2>2. state[<<b, l>>] => lit[<<b, l>>] BY <2>0 DEF SInv, Glows
  <2>3. CASE b # r BY <1>10, <2>1, <2>2, <2>3
  <2>4. CASE b = r
    <3>1. StateAfter(r, l, d, v) BY <1>10, <2>1, <2>4
    <3>2. light_map(r, d, l) \in {"ON", "OFF", "ASC", "TMR"} BY MapsToCodes DEF Codes
    <3>3. LitAfter(r, l, d, v)
      <4>1. CASE light_map(r, d, l) = "ON" BY <3>1, <4>1 DEF StateAfter, LitAfter
      <4>2. CASE light_map(r, d, l) = "OFF"
        BY <2>2, <2>4, <3>1, <4>2 DEF StateAfter, LitAfter
      <4>3. CASE light_map(r, d, l) = "ASC"
        BY <2>2, <2>4, <3>1, <4>3 DEF StateAfter, LitAfter
      <4>4. CASE light_map(r, d, l) = "TMR"
        BY <2>2, <2>4, <3>1, <4>4 DEF StateAfter, LitAfter
      <4>5. QED BY <3>2, <4>1, <4>2, <4>3, <4>4
    <3>4. QED BY <1>10, <2>1, <2>4, <3>3
  <2>5. QED BY <2>3, <2>4
<1>13. Told'
  <2>1. SUFFICES ASSUME NEW b \in Relays, b \in On, NEW c \in Used,
                        NEW l \in lights(b), Subscribed(b, c), Commands(b, c, l), c \notin missed[b]
                 PROVE  InStepFor(b, c, l)'
    BY <1>0, <1>2 DEF Told, Subscribed, Commands
  <2>2. b \in Relays /\ InStepFor(b, c, l) BY <1>0, <2>1 DEF SInv, Told
  <2>3. CASE b # r
    <3>1. wire'[b] = wire[b] BY <1>4, <2>2, <2>3
    <3>2. published' = published BY <1>2
    <3>3. state'[<<b, l>>] = state[<<b, l>>] BY <1>10, <2>1, <2>3
    <3>4. QED BY <2>2, <3>1, <3>2, <3>3 DEF InStepFor, LastAbout, Coming
  <2>4. CASE b = r
    <3>1. ASSUME NEW i \in DOMAIN wire'[b], LastAbout(b, c, i)'
          PROVE  wire'[b][i][2] = published'[c]
      <4>1. i + 1 \in DOMAIN wire[b] /\ wire'[b][i] = wire[b][i + 1]
        BY <1>7, <2>4, <3>1
      <4>2. wire[b][i + 1][1] = c BY <3>1, <4>1 DEF LastAbout
      <4>3. ASSUME NEW j \in DOMAIN wire[b], wire[b][j][1] = c PROVE j <= i + 1
        <5>1. i \in Nat /\ j \in Nat BY <1>3, <1>7, <2>4, <3>1, <4>3
        <5>2. CASE j = 1 BY <5>1, <5>2
        <5>3. CASE j # 1
          <6>1. j - 1 \in DOMAIN wire'[b] /\ (j - 1) + 1 = j BY <1>7, <2>4, <4>3, <5>3
          <6>2. wire'[b][j - 1][1] = c BY <1>7, <2>4, <4>3, <6>1
          <6>3. j - 1 <= i BY <3>1, <6>1, <6>2 DEF LastAbout
          <6>4. QED BY <5>1, <6>3
        <5>4. QED BY <5>2, <5>3
      <4>4. LastAbout(b, c, i + 1) BY <4>1, <4>2, <4>3 DEF LastAbout
      <4>5. QED BY <1>2, <2>2, <4>1, <4>4 DEF InStepFor
    <3>2. ASSUME ~Coming(b, c)' PROVE state'[<<b, l>>] = (published'[c] = 1)
      <4>1. state'[<<b, l>>] = StateAfter(r, l, d, v) BY <1>10, <2>1, <2>2, <2>4
      <4>2. \A j \in DOMAIN wire[b] : wire[b][j][1] = c => j = 1
        BY <1>7, <2>4, <3>2 DEF Coming
      <4>3. CASE d = c
        <5>1. LastAbout(b, c, 1) BY <1>6, <2>4, <4>2, <4>3 DEF LastAbout, d
        <5>2. wire[b][1][2] = published[c] BY <2>2, <5>1 DEF InStepFor, LastAbout
        <5>3. v = published[c] BY <1>6, <2>4, <5>2 DEF v
        <5>4. light_map(r, d, l) = "ON" BY <2>1, <2>4, <4>3 DEF Commands
        <5>5. QED BY <1>2, <4>1, <5>3, <5>4 DEF StateAfter
      <4>4. CASE d # c
        <5>1. \A j \in DOMAIN wire[b] : wire[b][j][1] # c
          BY <1>6, <2>4, <4>2, <4>4 DEF d
        <5>2. state[<<b, l>>] = (published[c] = 1) BY <2>2, <5>1 DEF InStepFor, Coming
        <5>3. light_map(r, d, l) # "ON"
          BY <1>9, <2>1, <2>4, <4>4 DEF Commands
        <5>4. QED BY <1>2, <2>4, <4>1, <5>2, <5>3 DEF StateAfter
      <4>5. QED BY <4>3, <4>4
    <3>3. QED BY <3>1, <3>2 DEF InStepFor
  <2>5. QED BY <2>3, <2>4
<1>14. QED BY <1>12, <1>13 DEF SInv

(* The program of a board that fails leaves the other boards alone.        *)
LEMMA CrashKeepsSInv ==
  ASSUME SInv, IInv', NEW r \in Relays, HandlerFails(r)
  PROVE  SInv'
<1>1. TypeOK BY DEF SInv, IInv
<1>2. /\ running' = [running EXCEPT ![r] = FALSE]
      /\ lit' = [p \in Lamps |-> p[1] # r /\ lit[p]]
      /\ wire' = [wire EXCEPT ![r] = <<>>]
      /\ UNCHANGED <<published, missed, state>>
  BY DEF HandlerFails, dashboard
<1>3. \A b \in On' : b \in On /\ b \in Relays /\ b # r BY <1>1, <1>2 DEF On, TypeOK
<1>4. \A b \in On' : wire'[b] = wire[b] BY <1>1, <1>2, <1>3 DEF TypeOK
<1>5. \A b \in On' : \A l \in lights(b) : lit'[<<b, l>>] = lit[<<b, l>>]
  <2>1. SUFFICES ASSUME NEW b \in On', NEW l \in lights(b)
                 PROVE  lit'[<<b, l>>] = lit[<<b, l>>]
    OBVIOUS
  <2>2. <<b, l>> \in Lamps /\ b # r BY <1>3, CommandedLamps
  <2>3. lit[<<b, l>>] \in BOOLEAN BY <1>1, <2>2 DEF TypeOK
  <2>4. QED BY <1>2, <2>2, <2>3
<1>6. Glows' BY <1>2, <1>3, <1>5 DEF SInv, Glows
<1>7. Told'
  <2>1. SUFFICES ASSUME NEW b \in On', NEW c \in Used, NEW l \in lights(b),
                        Subscribed(b, c), Commands(b, c, l), c \notin missed[b]
                 PROVE  InStepFor(b, c, l)'
    BY <1>2 DEF Told, Subscribed, Commands
  <2>2. InStepFor(b, c, l) BY <1>3, <2>1 DEF SInv, Told
  <2>3. QED BY <1>2, <1>4, <2>2 DEF InStepFor, LastAbout, Coming
<1>8. QED BY <1>6, <1>7 DEF SInv

LEMMA NextKeepsSInv == SInv /\ [Next]_vars => SInv'
<1>1. SUFFICES ASSUME SInv, [Next]_vars PROVE SInv' OBVIOUS
<1>2. IInv' BY <1>1, NextKeepsIInv DEF SInv
<1>3. CASE UNCHANGED vars \/ SwitchIsTheSame \/ \E c \in Used : Flip(c)
  <2>1. UNCHANGED <<published, wire, missed, running, state, lit>>
    BY <1>3 DEF vars, SwitchIsTheSame, Flip, dashboard, network, handler
  <2>2. QED BY <1>1, <1>2, <2>1, TimersKeepSInv
<1>4. CASE SwitchHasChanged BY <1>1, <1>2, <1>4, PublishKeepsSInv
<1>5. ASSUME NEW b \in Relays, LinkBreaks(b) \/ on_message(b) \/ HandlerFails(b)
      PROVE  SInv'
  BY <1>1, <1>2, <1>5, LinkKeepsSInv, MessageKeepsSInv, CrashKeepsSInv
<1>6. ASSUME NEW b \in Relays, NEW l \in Indicators,
             SwitchIndicator(b, l) \/ SetIndicator(b, l)
               \/ Expire(b, l) \/ Blink(b, l) \/ EndBlinking(b, l) \/ TimerFails(b, l)
      PROVE  SInv'
  BY <1>1, <1>2, <1>6, IndicatorKeepsSInv
<1>7. QED BY <1>1, <1>3, <1>4, <1>5, <1>6 DEF Next, CheckSwitch, Handle

(* Whatever switches and boards there are: while a board's program runs,   *)
(* and once it has handled what was sent, a light that one switch commands *)
(* is as that switch was last read, and lit if it is ON.  Neither the      *)
(* messages about other lights nor those that were lost before a later one *)
(* arrived mislead it (publish_event, on_message).  A topic without a row  *)
(* in light_map ends the program, and the theorem says no more of it.      *)
THEOREM LightsInStep == Spec => []InStep
<1>1. Init => SInv BY InitSInv
<1>2. SInv /\ [Next]_vars => SInv' BY NextKeepsSInv
<1>3. SInv => InStep
  <2>1. SUFFICES ASSUME SInv, NEW b \in On, NEW c \in Used, NEW l \in lights(b),
                        Subscribed(b, c), Commands(b, c, l), ~Coming(b, c), c \notin missed[b]
                 PROVE  /\ state[<<b, l>>] = (published[c] = 1)
                        /\ state[<<b, l>>] => lit[<<b, l>>]
    BY SoleAreUsed DEF InStep
  <2>2. InStepFor(b, c, l) BY <2>1 DEF SInv, Told
  <2>3. l \in lights(b) \ Indicators BY <2>1, CommandedLamps
  <2>4. QED BY <2>1, <2>2, <2>3 DEF SInv, Glows, InStepFor
<1>4. QED BY <1>1, <1>2, <1>3, PTL DEF Spec
=============================================================================
