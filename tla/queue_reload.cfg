SPECIFICATION FairSpec
CONSTANTS
  Ids = {c1, c2}
  Tables = {t1}
  Tabs = {}
  Staff = {narek}
  Kinds = {"seatWalkIn", "freeTable"}
  MaxSeq = 4
  Troubles <- ReloadedTablet
  CrashAt = {"saved", "unsaved"}
  EarlyTaps = TRUE
INVARIANTS TypeOK NothingSilentlyDropped OneCopy ReplayOrderUnambiguous
PROPERTIES Drains
CHECK_DEADLOCK FALSE
