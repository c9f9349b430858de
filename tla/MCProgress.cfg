SPECIFICATION MCProgressSpec
CONSTANTS
  m1 = m1
  m2 = m2
  m3 = m3
  n1 = n1
  f1 = f1
  j1 = j1
  j2 = j2
  cron = cron
  Msg = {m1, m2}
  Command = cron
  Task = {t1}
  MaxKills = 1
  Key = {"dbclean"}
  Row = {m1, m2}
  Runner = {cron, admin}
  Keep = 0
  ArchiveKeep = 0
  MaxDay = 1
  MaxCleanKills = 1
  Job = {j1, j2}
  Session = {n1, n2}
  Path = {f1, f2}
  NoPath = none
  Name = {m1, m2, m3}
  Lines <- MCLines
  Invalid = {}
  Raising = {m3}
  NoJob = none
  MaxPolls = 3
  MaxLost = 1
  Asker = {j1, j2}
  Visitor = {n1, n2}
  Token = {t1, t2}
  NoToken = none
  Own = u1
  Admin = admin
  MaxForgotten = 1
  MaxAged = 1
  MaxMailsLost = 1
CHECK_DEADLOCK FALSE
INVARIANTS
  ProgressTypeOK
  InOneTable
  OwnLinesOnly
PROPERTIES
  StaysListed
  GhostsGo
  ListedAtLast
  ArchivedFirst
  OldRowsGo
  NameFreed
  ImportTold
  ResetWorks
