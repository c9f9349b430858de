SPECIFICATION Spec
CONSTANTS
  m1 = m1
  m2 = m2
  j1 = j1
  j2 = j2
  l1 = l1
  Msg = {m1, m2}
  Late = {m2}
  Located = {}
  Link = {l1}
  LinkMsg <- MCLinkMsg
  Job = {j1, j2}
  About <- MCAbout
  Asks <- MCAsks
  SmtpDoubt = FALSE
  MaxCrash = 1
SYMMETRY Requests
INVARIANTS
  FlagHonest
  ReportTruthful
  MarkedWasSent
