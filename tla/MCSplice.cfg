SPECIFICATION SignalSpec
CONSTANTS
  Payloads <- SomePayloads
  MaxFade = 18
  MaxHits = 4
  Stations = {"A", "B"}
  Nobody = "-"
  Ext = 2
  Missed = TRUE
  MaxFrames = 3
  Symbol = 4
  WordLen = 16
  Words = 3
  Mute = 0
  Ambient = 3000
  Signal = 4200
  Margin = 600
  MaxBlocks = 14
INVARIANT IdentityIsPrefix
CHECK_DEADLOCK FALSE
