SPECIFICATION Spec
CONSTANTS
  m1 = m1
  m2 = m2
  a = a
  b = b
  Msg = {m1}
  Rcpt = {a, b}
  To <- MCToOne
  Garbled = {}
  Bad <- NoRows
  Limit = 2
  MaxScan = 2
  UseScript = TRUE
  Faulty = {}
  MaxFaults = 0
INVARIANTS
  NothingLost
