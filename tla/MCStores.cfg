SPECIFICATION MemorySpec
CONSTANTS
  MaxId = 3
  Freqs = {1, 2, 3}
  NetNames = {"n", "m"}
  Calls = {"w", "v"}
  Addrs = {"aaa", "bbb", "x"}
  ValidAddrs = {"aaa", "bbb"}
  NoName = ""
  Presets <- Files
  FirstDisks <- Disks
  MaxEdits = 3
  Peers = {"A"}
  Channels = {1, 2}
  Best = 1
  Capacity = 3
  MaxAge = 2
  Penalty = 1
  Retention = 2
  Wrap = 8
  Boot = 5
  MaxOff = 3
  MaxTime = 10
  MaxOps = 3
  SeqNumbers = 4
  MaxMessage = 3
  Window = 2
  MaxRetransmits = 1
  MaxAir = 2
  LateAcks = FALSE
  BothWays = FALSE
INVARIANTS RestartRestores NothingStale HistoryKept
PROPERTIES RenamesFollow ImplementsTransfer
CHECK_DEADLOCK FALSE
