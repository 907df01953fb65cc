SPECIFICATION FairSpec
CONSTANTS
  m1 = m1  m2 = m2  m3 = m3
  Messages <- MCMessages
  CapturedAt <- TwoDays
  MilesBetween <- Road
  Transition <- Ends
  Readings = {7}
  DayLength = 2
  Retention = 0
  LateRows = TRUE
  SavesMayRace = TRUE
  MaxTime = 3
  MaxRows = 3
  MaxSaves = 1
  MaxFailures = 1
INVARIANTS TypeOK FoldedExactlyOnce PurgedRowsWereFolded StampsFollowTime
           OdometerIsPathLength RegeneratedUnlessFailed
PROPERTIES StoredRowsAreFolded ImplementsLedger
