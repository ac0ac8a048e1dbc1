SPECIFICATION AllFairSpec
CONSTANTS
  None = None
  Parts = {"volume", "sensors", "siren", "outputs", "playback", "console", "lid"}
  Callers = {1}
  MaxRuns = 3
  Chains <- TheChains
  Faults = {"raise"}
  Own = {"low", "high"}
  SensorRuns = 3
  Kinds = {{}, {"reports"}, {"panics"}, {"reports", "panics"}}
  Devices = {speaker, phones}
  Steps <- FourSteps
  Medium = 50
  MaxOwner = 1
  MaxFaults = 1
  Frames = 3
  Buffers = 3
  Recoveries = 3
  MaxChunks = 5
  Keystrokes <- Keyboard
  Backlog = 2
  MaxTyped = 4
  MaxFailures = 1
  Room = 2
  MaxMoves = 5
INVARIANT TypesOK
INVARIANT SoleWatcher
INVARIANT CoverageIsEarned
INVARIANT SirenObeys
INVARIANT VolumeIsTheOwners
PROPERTY NothingIsMisheard
PROPERTY ConsoleKeeps
PROPERTY LoopsGoOn
CHECK_DEADLOCK FALSE
