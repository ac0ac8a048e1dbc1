SPECIFICATION Spec
CONSTANTS
  MaxBytes = 3
  MaxFiles = 2
  Lengths = {1, 2, 4}
  MaxRecords = 4
  MaxFaults = 1
  MayTear = FALSE
INVARIANT LogStaysOpen
CHECK_DEADLOCK FALSE
