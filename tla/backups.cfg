SPECIFICATION FairSpec
CONSTANTS
  Recent = 2
  PriorDays = 2
  Interval = 2
  DayLength = 2
  MaxTime = 6
  MaxEmergencies = 1
  MaxCrashes = 1
  MaxOutages = 1
INVARIANTS TypeOK NewestKept DailyKept
PROPERTY StartupBackupMade
