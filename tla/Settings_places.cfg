SPECIFICATION Spec
CONSTANTS
  p1 = p1
  p2 = p2
  pinA = pinA
  pinB = pinB
  None = None
  Phones <- TwoPhones
  Pins <- TwoPins
  Initial <- SensorOn
  Wishes <- SensorOff
SYMMETRY Interchangeable
PROPERTY SettingsHold
CHECK_DEADLOCK FALSE
