SPECIFICATION SignalSpec
CONSTANTS
  Payloads <- SomePayloads
  MaxFade = 18
  MaxHits = 4
  Stations = {"A", "B"}
  Nobody = "-"
  Ext = 2
  Missed = FALSE
  MaxFrames = 3
  Symbol = 4
  WordLen = 16
  Words = 3
  Mute = 0
  Ambient = 3000
  Signal = 4200
  Margin = 600
  MaxBlocks = 14
INVARIANTS IdentityIsPrefix TextsFromSender CreditedToSpeaker WordOnce OccupancyRight WordSurvives
CHECK_DEADLOCK FALSE
