SPECIFICATION Spec
CONSTANTS
  MaxConns = 2
  MaxAuths = 2
  MaxSaid = 2
  MaxTrouble = 1
INVARIANT RotationIsRefusal
CHECK_DEADLOCK FALSE
