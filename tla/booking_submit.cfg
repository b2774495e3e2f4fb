SPECIFICATION LiveSpec
CONSTANTS
  Times = {seven, nine}
  MaxBy = 2
  MaxPresses = 3
  MaxElsewhere = 1
  MaxTroubles = 1
INVARIANTS TypeOK PromiseWasMade NeverForgotten
PROPERTIES QuestionsEnd
CHECK_DEADLOCK FALSE
