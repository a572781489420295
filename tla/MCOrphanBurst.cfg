SPECIFICATION Spec
CONSTANTS
  Self = "s"
  AllCall = "@"
  Chunks = {"s", "@", "b"}
  MaxAddr = 1
  LeadWords = 1
  MsgWords = 1
  ConcWords = 1
  FrameWords = 1
  OwWords = 1
  NumChannels = 2
  MaxSweep = 2
  MaxErrors = 1
  MaxAttempts = 2
  RareTimers = {}
  HasLead = TRUE
  HasTail = TRUE
  RxOnly = FALSE
  ScanWidths = {1}
  MaxQueue = 5
  Targets <- OneTarget
  Commands = {"TERMINATE", "EFS"}
INVARIANTS
  BurstHasWords
