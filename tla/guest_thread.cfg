SPECIFICATION FairSpec
CONSTANTS
  Texts = {"yes"}
  MaxIds = 2
  MaxWords = 2
  MaxVenue = 2
  MaxWritten = 3
  MaxTroubles = 1
INVARIANTS TypeOK SentOnceUnlessReplied UnseenOnlyBehindOwn
PROPERTIES SettledStays CaughtUp
CHECK_DEADLOCK FALSE
