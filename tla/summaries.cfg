SPECIFICATION Spec
CONSTANTS
  Payloads <- MCPayloads
  MonthLength = 3
  Retention = 3
  LateRows = FALSE
  MaxTime = 9
INVARIANTS TypeOK ShownCountsEveryRow ShownHoldsMonthMiles
