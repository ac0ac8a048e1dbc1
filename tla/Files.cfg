SPECIFICATION AllSpec
CONSTANTS
  Parts = {"replace", "history", "restart", "updates", "push", "sink", "config"}
  None = None
  Savers = {s1, s2}
  Values = {"old", "new"}
  Writers = {"config", "state", "ledger", "endpoint", "subscriptions"}
  PowerFails = {"config", "state"}
  Names = {1, 2, 3}
  MaxFaults = 1
  MaxBytes = 2
  MaxFiles = 3
  Lengths = {1, 3}
  MaxRecords = 4
  LogFaults = 1
  MayTear = TRUE
  Wanted = 3
  Phones = {a, b}
  Budget = 1
  MaxNumber = 2
  MaxKeys = 2
  MaxRounds = 1
  PushFaults = 1
  Depth = 2
  MaxLines = 6
  Ports = {1, 2}
  MaxRuns = 3
  MaxArms = 1
  RestartFaults = 1
  TopRelease = 2
  Interval = 2
  Floor = 1
  Retry = 1
  Jitter = {0}
  MaxClock = 3
  MaxStarts = 2
  MaxAsked = 1
  MaxTrouble = 1
  Edits <- Edited
  Changes <- Changed
  MaxMessages = 1
SYMMETRY Alike
INVARIANT TypesOK
INVARIANT PhonesAreTold
INVARIANT LogIsHonest
PROPERTY HistoryIsKept
PROPERTY RestartRemembers
PROPERTY ReleasesAreSaid
PROPERTY ConfigIsKept
PROPERTY FilesAreWhole
CHECK_DEADLOCK FALSE
