SPECIFICATION Spec
CONSTANTS
  c1 = c1
  w1 = w1  w2 = w2  c2 = c2
  Clients <- Addresses
  Workers <- Threads
  Allowlist <- Allowed
  MaxAttempts = 2
  BlockAfter = 3
  MaxFailures = 3
  MaxRules = 2
SYMMETRY ThreadsAlike
INVARIANTS TypeOK FewJudgedUnderLock LocksAgainAtOnce AutoBlockEarned RulesAreKnown RowsHaveRules
