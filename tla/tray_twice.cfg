CONSTANTS
  Items = {coffee}
  coffee = coffee
  MaxTaps = 1
  MaxSends = 3
  MaxRefusals = 0
  MaxTroubles = 2
  BodiesLost = FALSE
SPECIFICATION Spec
INVARIANTS NeverTwice
CHECK_DEADLOCK FALSE
