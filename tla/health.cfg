SPECIFICATION FairSpec
CONSTANTS
  Healths <- MCHealths
  Interval = 2
  Sustained = 3
  MaxAccidents = 2
INVARIANTS HealthTypeOK RecordedIsTold
PROPERTIES NoRepeat LatencyNotToldEarly ToldWhatHolds
