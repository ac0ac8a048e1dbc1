SPECIFICATION Spec
CONSTANTS
  u1 = u1
  u2 = u2
  t1 = t1
  input = input
  screen = screen
  None = None
  Dispatcher = dispatcher
  Users <- OneUser
  Timers <- OneTimer
  Sensors <- BothSensors
  Available <- BothSensors
  Screen <- screen
  Input <- input
  Operations <- Switching
  AutoArm = FALSE
  Located = TRUE
  Cap = 1
INVARIANT DisarmedIsSilent
CHECK_DEADLOCK FALSE
