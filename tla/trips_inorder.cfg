SPECIFICATION Spec
CONSTANTS
  Sites <- MCSites
  Home <- MCHome
  Place <- MCPlace
  Events <- TwoDayDrive
  Dwell = 2
  AwayMiles = 2
  DayLength = 13
  MinMiles = 1
  SameMinMiles = 1
  Entries = {12}
  Late <- Nothing
  MaxTime = 21
  MaxOps = 0
INVARIANT DayTripsDisjoint
PROPERTY GenerationConverges
