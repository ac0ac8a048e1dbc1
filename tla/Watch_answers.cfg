SPECIFICATION Spec
CONSTANTS
  u1 = u1
  u2 = u2
  t1 = t1
  input = input
  screen = screen
  None = None
  Dispatcher = dispatcher
  Users <- TwoUsers
  Timers <- OneTimer
  Sensors <- BothSensors
  Available <- BothSensors
  Screen <- screen
  Input <- input
  Operations <- Answering
  AutoArm = TRUE
  Located = TRUE
  Cap = 1
SYMMETRY UserSymmetry
INVARIANT TypeOK
PROPERTY AlarmIsOneEvent
PROPERTY SwitchOffIsAnAnswer
CHECK_DEADLOCK FALSE
