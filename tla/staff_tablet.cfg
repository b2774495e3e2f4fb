SPECIFICATION LiveSpec
CONSTANTS
  MaxChains = 2
  MaxRenewals = 1
  Idle = 2
  Life = 1
  MaxAway = 2
  MaxTroubles = 1
INVARIANTS TypeOK SpentOnce Settled WillLock LockedIsOverUnlessLate
PROPERTIES RevokedEnds
CHECK_DEADLOCK FALSE
