SPECIFICATION FairSpec
CONSTANTS
  q1 = q1
  q2 = q2
  q3 = q3
  n1 = n1
  Node = {n1}
  Req = {q1, q2, q3}
  Score <- MCScoreThree
  Forced = TRUE
  MaxCrash = 1
INVARIANTS
  RulesetCurrent
  SerialMoves
PROPERTIES
  Applied
