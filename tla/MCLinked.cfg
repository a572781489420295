SPECIFICATION Spec
CONSTANTS
  Self = "s"
  AllCall = "@"
  Chunks = {"s", "@", "b"}
  MaxAddr = 1
  LeadWords = 1
  MsgWords = 1
  ConcWords = 1
  FrameWords = 2
  OwWords = 1
  NumChannels = 1
  MaxSweep = 2
  MaxErrors = 1
  MaxAttempts = 2
  RareTimers = {"STALL", "TWA"}
  HasLead = TRUE
  HasTail = TRUE
  RxOnly = FALSE
  ScanWidths = {1}
  MaxQueue = 6
  Targets <- OneTarget
  Commands = {"CALL", "LINKED_AMD", "EFS", "TERMINATE", "EMERGENCY", "PTT"}
INVARIANTS
  WaitIsBounded
  HalfDuplex
  PttJustified
