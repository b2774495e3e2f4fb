SPECIFICATION Spec
CONSTANTS
  Ids = {c1, c2}
  Tables = {t1}
  Tabs = {tab1}
  Staff = {narek, ani}
  Kinds = {"seatWalkIn", "freeTable", "placeOrder"}
  MaxSeq = 3
  Troubles <- SharedTablet
  CrashAt = {}
  EarlyTaps = FALSE
INVARIANTS RecordedByConsentUnlessResent
PROPERTIES NoOvertaking
CHECK_DEADLOCK FALSE
SYMMETRY AnyIdAnyPerson
