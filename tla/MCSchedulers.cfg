SPECIFICATION SchedSpec
CONSTANTS
  Peers = {"peer"}
  TestChannels = 2
  Interval = 2
  Lead = 1
  Gap = 1
  Hold = 1
  Backstop = 3
  ReportEvery = 1
  ReportTo = "ALLCALL"
  RelinkEnabled = TRUE
  MaxAttempts = 2
  Budget = 3
INVARIANTS AmdWithinBudget
PROPERTIES SoundingKeepsInterval TestEnds
