SPECIFICATION MCServicesSpec
CONSTANTS
  m1 = m1
  m2 = m2
  t1 = t1
  t2 = t2
  n1 = n1
  n2 = n2
  u1 = u1
  u2 = u2
  d1 = d1
  d2 = d2
  d3 = d3
  a1 = a1
  a2 = a2
  a3 = a3
  f1 = f1
  f2 = f2
  f3 = f3
  f4 = f4
  cron = cron
  admin = admin
  Key = {"quarantinereportsng", "pdfreportsng"}
  Node = {n1, n2}
  Manual = admin
  Recipient = {u1, u2}
  Plain = {u1}
  Raising = {u2}
  ReportedDomain = {d1}
  Msg = {m1, m2}
  Sees <- MCSees
  At <- MCAt
  MaxRecords = 1
  MaxTick = 9
  MaxFaults = 1
  Login = {n1, n2}
  Plugin <- MCPlugin
  Directory = d1
  Mailbox = {a1, a2, a3}
  Found <- MCFound
  MaxDeaths = 1
  TheDomain = d1
  ItsAlias = {a1}
  MaxEdits = 3
  Message = {m1, m2}
  RtLimit = 1
  MaxTime = 2
  MaxDied = 1
  Super = admin
  Admin = {u1}
  User = {u2}
  Org = {n1, n2}
  Domain = {d1, d2}
  Alias = {a1}
  AliasOf <- MCAliasOf
  Address = {a2, a3, f1}
  Entry = {a2, a3, f1, f2}
  Covers <- MCCovers
  DomainOf <- MCDomainOf
  Row = {m1, m2}
  From <- MCFrom
  To <- MCTo
  Item = {t1, t2}
  ItemOf <- MCItemOf
  Mail = {m1, m2}
  Host = {d1, d2, a1, d3}
  Ours = {d1, d2, a1}
  Src <- MCSrc
  Dst <- MCDst
  Parent <- MCParent
  Organization = {n1, n2}
  OrgOf <- MCOrgOf
  Cleaner = cron
  Tab = {t1, t2}
  Filter = {f1, f2, f3, f4}
  KeyOf <- MCKeyOf
  MaxFilters = 3
  MaxAsked = 2
CHECK_DEADLOCK FALSE
INVARIANTS
  ServicesTypeOK
  OneReportAnHour
  ReportedOnce
  ReportedOrExcused
  CountsAgree
  FilteredAsAsked
  AccountComplete
  SignatureServed
  FoundOrDue
  PagesAgree
