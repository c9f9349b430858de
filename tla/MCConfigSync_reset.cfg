SPECIFICATION Spec
CONSTANTS
  q1 = q1
  q2 = q2
  q3 = q3
  n1 = n1
  Node = {n1}
  Req = {q1, q2}
  Score <- MCScore
  Forced = FALSE
  MaxCrash = 0
INVARIANTS
  ResetApplies
