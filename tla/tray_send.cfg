CONSTANTS
  Items = {coffee, salad}
  coffee = coffee
  salad = salad
  MaxTaps = 2
  MaxSends = 3
  MaxRefusals = 1
  MaxTroubles = 2
  BodiesLost = TRUE
SPECIFICATION Spec
INVARIANTS TypeOK NeverTwiceUnlessSlipped Balanced CheckedAsSent
CHECK_DEADLOCK FALSE
