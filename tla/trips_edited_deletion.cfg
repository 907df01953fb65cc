SPECIFICATION Spec
CONSTANTS
  Sites <- MCSites
  Home <- MCHome
  Place <- MCPlace
  Events <- Drive
  Dwell = 1
  AwayMiles = 2
  DayLength = 3
  MinMiles = 1
  SameMinMiles = 1
  Entries = {12}
  Late <- Locations
  MaxTime = 6
  MaxOps = 2
PROPERTY DeletedPairsStay
