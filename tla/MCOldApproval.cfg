SPECIFICATION ServicesSpec
CONSTANTS
  Stations = {"a", "b"}
  NoCall = "-"
  Contexts = {"ALLCALL", "NET"}
  Shared = {"ALLCALL"}
  Urls <- Endpoints
  QueueSize = 2
  DedupMax = 1
  MaxRetries = 1
  MaxReports = 2
  MaxRestarts = 1
  MaxKeys = 3
  Positions = {1, 2}
  StationPos = 3
  FluxValues = {7}
  MaxSwitches = 1
  Devices = {1, 2}
  None = 0
  ReuseAddress = FALSE
  MaxCommands = 2
  Drivers = {"alsa", "wasapi"}
  Frame = 2
  Ring = 3
  Made = 2
  LeaveWords = FALSE
INVARIANT ApprovedIsThisKey
CHECK_DEADLOCK FALSE
