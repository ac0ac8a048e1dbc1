SPECIFICATION Spec
CONSTANTS
  p1 = p1
  p2 = p2
  pinA = pinA
  pinB = pinB
  None = None
  Phones <- TwoPhones
  Pins <- TwoPins
  Initial <- Config
  Wishes <- Wish
SYMMETRY Interchangeable
PROPERTY UpgradeKeepsThePin
CHECK_DEADLOCK FALSE
