SPECIFICATION Spec
CONSTANTS
  s1 = s1
  Sites <- Waypoints
  MaxPayloads = 3
  MaxAdded = 1
  MaxBackups = 2
  MaxRestores = 2
CHECK_DEADLOCK FALSE
INVARIANTS TypeOK RowsReachOdometer CountedOnce FilesRestorable
