SPECIFICATION Spec
CONSTANTS
  Self = "s"
  AllCall = "@"
  Chunks = {"s", "@", "b", "x"}
  MaxAddr = 2
  LeadWords = 2
  MsgWords = 1
  ConcWords = 2
  FrameWords = 2
  OwWords = 1
  NumChannels = 2
  MaxSweep = 2
  MaxErrors = 1
  MaxAttempts = 2
  RareTimers = {}
  HasLead = TRUE
  HasTail = TRUE
  RxOnly = FALSE
  ScanWidths = {1}
  MaxQueue = 8
  Targets <- OneTarget
  Commands = {"SCAN", "CALL", "SINGLE_CALL", "GROUP_CALL", "AMD"}
INVARIANTS
  TypeOK
  WordsAccounted
  ReceivesOnlyWhenSilent
  KeyedWhileSending
  CallPhaseInStep
PROPERTIES
  LinkedByThreeFrames
  LinkedWithCaller
