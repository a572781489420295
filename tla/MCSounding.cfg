SPECIFICATION LiveAudioSpec
CONSTANTS
  Self = "s"
  AllCall = "@"
  Chunks = {"s", "@", "b", "x"}
  MaxAddr = 1
  LeadWords = 1
  MsgWords = 1
  ConcWords = 2
  FrameWords = 2
  OwWords = 1
  NumChannels = 2
  MaxSweep = 2
  MaxErrors = 1
  MaxAttempts = 2
  RareTimers = {}
  HasLead = TRUE
  HasTail = TRUE
  RxOnly = FALSE
  ScanWidths = {1}
  MaxQueue = 7
  Targets <- OneTarget
  Commands = {"SCAN", "SOUND", "SWEEP"}
PROPERTIES
  SoundingEnds
