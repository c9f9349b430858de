----------------------------- MODULE MCServices ------------------------------
(***************************************************************************)
(* Services with bounds on the reports and on what the pages are about.    *)
(***************************************************************************)
EXTENDS Services, TLC

CONSTANTS m1, m2, t1, t2, n1, n2, u1, u2, d1, d2, d3, a1, a2, a3, f1, f2,
    f3, f4, cron, admin

(* Values of constants: see the cfg.                                         *)
MCSees == m1 :> {u1, u2} @@ m2 :> {u1}
MCAt == u1 :> 0 @@ u2 :> 0 @@ d1 :> 0
MCPlugin == <<d1, d2>>
MCFound == [alias |-> <<a1, a2>>, mail |-> <<a1, a2>>, proxy |-> <<a2>>, group |-> <<a3>>]
MCAliasOf == a1 :> d1
MCCovers == a2 :> {a2} @@ a3 :> {a3} @@ f1 :> {f1} @@ f2 :> {a3}
MCDomainOf == a2 :> d1 @@ a3 :> a1 @@ f1 :> d2 @@ f2 :> a1
MCFrom == m1 :> f1 @@ m2 :> f1
MCTo == m1 :> a3 @@ m2 :> a2
MCItemOf == t1 :> u1 @@ t2 :> admin
MCSrc == m1 :> a1 @@ m2 :> a1
MCDst == m1 :> d2 @@ m2 :> d3
MCParent == d1 :> d1 @@ d2 :> d2 @@ a1 :> d1 @@ d3 :> d3
MCOrgOf == d1 :> n1 @@ d2 :> n2 @@ a1 :> n1 @@ d3 :> n2
MCKeyOf == f1 :> d1 @@ f2 :> d1 @@ f3 :> d1 @@ f4 :> d2

ASSUME ServicesAssumption

-----------------------------------------------------------------------------
(* BOUND: of faults and of messages to report on, two in all; a message      *)
(* comes at the hour of the reports or in the last tick before it.           *)
FewReports ==
    /\ faults + Cardinality({m \in Msg : born[m] # Never}) <= 2
    /\ \A m \in Msg : born[m] \in {0, 3, Never}

(* BOUND: one organization has any domains and the other d2 or none; an      *)
(* account has an address besides its own; the second message is not queued  *)
(* or archived.                                                              *)
FewViews ==
    /\ owns[n2] \subseteq {d2}
    /\ Cardinality(account[u2].addresses) <= 1
    /\ place[m2] \in {"none", "messages"}

(* What is chosen at the start is chosen where it is asked about.            *)
MCServicesInit ==
    /\ ServicesInit
    /\ area = "reports" \/ command = "pdfreportsng"
    /\ area = "login" \/ accepts = {}
    /\ area = "signatures" \/ (~html /\ aliases = {})
    /\ area = "totals" \/ current_domains = {}
    /\ area = "filters" \/ (filter_by = <<>> /\ filters = {})

MCServicesNext ==
    \/ ReportsActs /\ FewReports'
    \/ LoginActs
    \/ SignaturesActs
    \/ SearchActs
    \/ ViewsActs /\ FewViews'
    \/ TotalsActs
    \/ FiltersActs

MCServicesSpec ==
    MCServicesInit /\ [][MCServicesNext]_servicesVars
=============================================================================
