SPECIFICATION Spec
CONSTANTS
  m1 = m1
  m2 = m2
  j1 = j1
  j2 = j2
  l1 = l1
  Msg = {m1}
  Late = {}
  Located = {}
  Link = {l1}
  LinkMsg <- MCLinkMsg
  Job = {j1, j2}
  About <- MCAbout
  Asks <- MCAsks
  SmtpDoubt = FALSE
  MaxCrash = 0
INVARIANTS
  BulkTruthful
