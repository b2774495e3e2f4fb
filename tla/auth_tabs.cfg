SPECIFICATION Spec
CONSTANTS
  Pages = {a, b}
  MaxChains = 2
  MaxRenewals = 1
  MaxTroubles = 1
  Locks = TRUE
  Apart = TRUE
INVARIANTS TypeOK SpentOnce LeftForGood
PROPERTIES LiveTokenKept
CHECK_DEADLOCK FALSE
SYMMETRY AnyPage
