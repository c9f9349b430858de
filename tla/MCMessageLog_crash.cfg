SPECIFICATION Spec
CONSTANTS
  m1 = m1
  m2 = m2
  a = a
  b = b
  Msg = {m1, m2}
  Rcpt = {a, b}
  To <- MCTo
  Garbled = {m2}
  Bad <- NoRows
  Limit = 2
  MaxScan = 2
  UseScript = TRUE
  Faulty = {"sqlite_insert", "sqlite_delete", "store", "late_error", "crash"}
  MaxFaults = 1
INVARIANTS
  LockedIsCopied
  CopiesBounded
PROPERTY
  Durable
