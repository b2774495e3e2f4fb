SPECIFICATION Spec
CONSTANTS
  MaxChains = 2
  MaxRenewals = 1
  Idle = 2
  Life = 1
  MaxAway = 2
  MaxTroubles = 0
INVARIANT LockedIsOver
CHECK_DEADLOCK FALSE
