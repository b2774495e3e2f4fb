CONSTANTS
  MaxEvents = 3
  PageSize = 1
  MaxPages = 2
  MaxTroubles = 2
SPECIFICATION LiveSpec
INVARIANTS TypeOK NothingReadIsLost
PROPERTIES KeepsThePromise CatchesUp
CHECK_DEADLOCK FALSE
