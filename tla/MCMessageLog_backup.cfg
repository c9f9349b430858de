SPECIFICATION FairSpec
CONSTANTS
  m1 = m1
  m2 = m2
  a = a
  b = b
  Msg = {m1, m2}
  Rcpt = {a, b}
  To <- MCTo
  Garbled = {}
  Bad <- BadRow
  Limit = 2
  MaxScan = 2
  UseScript = FALSE
  Faulty = {"sqlite_insert", "sqlite_delete", "late_error"}
  MaxFaults = 1
INVARIANTS
  NothingLost
  NoOrphanLock
  CopiesBounded
PROPERTY
  Delivers
