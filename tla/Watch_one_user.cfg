SPECIFICATION FairSpec
CONSTANTS
  u1 = u1
  u2 = u2
  t1 = t1
  input = input
  screen = screen
  None = None
  Dispatcher = dispatcher
  Users <- OneUser
  Timers <- OneTimer
  Sensors <- OneSensor
  Available <- OneSensor
  Screen <- screen
  Input <- input
  Operations <- Guarding
  AutoArm = FALSE
  Located = TRUE
  Cap = 1

INVARIANT WatchIsCovered
INVARIANT RecordAgrees
PROPERTY DismissalSilences
PROPERTY PauseEnds
CHECK_DEADLOCK FALSE
