\* Either board: a lamp, an indicator, and a topic that ends the back board's program.
SPECIFICATION OneBoardSpec
CONSTANTS
  Channels <- SideHazardsAndFlasher
  Relays = {"front", "back"}
  Indicators = {"leftind"}
  MaxWire = 1
  MaxTimers = 1
  Lossy = TRUE
INVARIANTS InStep
PROPERTIES GoesDark Blinks
