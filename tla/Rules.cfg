SPECIFICATION AllSpec
CONSTANTS
  Parts = {"lockout", "tracker", "screen", "detectors", "motion", "pairing", "window"}
  Hosts = {h1, h2, h3}
  MaxAttempts = 2
  Period = 2
  TableSize = 2
  MaxTime = 5
  Users = {u}
  Accuracy <- Radius
  Places = {1, 2}
  Home = 1
  MaxClock = 2
  MaxAge = 0
  MaxArms = 2
  MaxAnchors = 1
  MaxPanics = 1
  Spots = {0, 1, 3}
  Near = 1
  Far = 3
  MaxAt = 4
  MaxWatches = 2
  MaxRuns = 3
  Things = {a, b}
  Thresholds = {1, 2, 3}
  Left = 5
  MaxSeen = 4
  MaxSeconds = 9
  Windows <- SomeWindows
  ScreenCodes <- SomeCodes
  GridHeight = 11
  ScreenEvents = 3
  Widths <- SomeWidths
  Heights <- SomeHeights
  WindowCodes <- NoneOrOne
  Grids = {11, 12}
  Networks <- Connected
  Ports = {1, 65535}
  Keys <- SomeKeys
  PairingEvents = 3
INVARIANT TypesOK
INVARIANT GuessBudget
INVARIANT LocationIsTrue
INVARIANT AlertsAreEvents
PROPERTY LockoutHolds
PROPERTY ScreenIsWhole
PROPERTY CodesPair
CHECK_DEADLOCK FALSE
