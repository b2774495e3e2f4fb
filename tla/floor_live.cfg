SPECIFICATION FairSpec
CONSTANTS
  Tables = {t1, t2}
  Seated = {t1}
  Booked = {t1}
  MaxRows = 2
  PageSize = 1
  MaxTroubles = 1
INVARIANTS TypeOK FaithfulUnlessSkipped OwedARead
PROPERTIES Converges
