SPECIFICATION Spec
CONSTANTS
  Sites <- MCSites
  Home <- MCHome
  Place <- MCPlace
  Events <- NightDrive
  Dwell = 1
  AwayMiles = 2
  DayLength = 2
  MinMiles = 1
  SameMinMiles = 1
  Entries = {12}
  Late <- Nothing
  MaxTime = 5
  MaxOps = 0
INVARIANT TripsDisjoint
