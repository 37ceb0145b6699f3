--------------------------- MODULE MCVehicleLights ---------------------------
(* Instances of VehicleLights for TLC: the switches that are used, and one *)
(* of the boards switched on.  The flasher is used with the back board,    *)
(* whose program it ends.                                                  *)
EXTENDS VehicleLights

SideHazardsAndFlasher == <<"side", "hazards", "flasher">>

OneBoard == Init /\ \E b \in Relays : On = {b}
FlashesAtTheBack == running["front"] => switch'["flasher"] = 0

OneBoardSpec == OneBoard /\ [][Next /\ FlashesAtTheBack]_vars /\ Fairness
==============================================================================
