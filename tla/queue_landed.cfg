SPECIFICATION Spec
CONSTANTS
  Ids = {c1, c2}
  Tables = {t1}
  Tabs = {}
  Staff = {narek}
  Kinds = {"seatWalkIn", "freeTable"}
  MaxSeq = 3
  Troubles <- LostAnswer
  CrashAt = {}
  EarlyTaps = FALSE
PROPERTIES LandedNeverListed
CHECK_DEADLOCK FALSE
