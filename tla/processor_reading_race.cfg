SPECIFICATION Spec
CONSTANTS
  m1 = m1  m2 = m2  m3 = m3
  Messages <- MCMessages
  CapturedAt <- TwoDays
  MilesBetween <- Road
  Transition <- Ends
  Readings = {7}
  DayLength = 4
  Retention = 9
  LateRows = FALSE
  SavesMayRace = TRUE
  MaxTime = 3
  MaxRows = 3
  MaxSaves = 1
  MaxFailures = 0
PROPERTY CommitKeepsReadings
