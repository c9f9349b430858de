------------------------------- MODULE Services -------------------------------
(***************************************************************************)
(* Parts that share neither tables nor files: Reports, FirstLogin,         *)
(* Signatures, SearchIndex, Views, Totals and Filters. A behaviour is      *)
(* about one of them, its area; the others stay in an initial state.       *)
(***************************************************************************)
EXTENDS Reports, FirstLogin, Signatures, SearchIndex, Views, Totals, Filters

VARIABLE area

ServicesAssumption ==
    /\ ReportsAssumption /\ FirstLoginAssumption /\ SignaturesAssumption
    /\ SearchAssumption /\ ViewsAssumption
    /\ TotalsAssumption /\ FiltersAssumption

servicesVars ==
    <<area, reportVars, loginVars, signatureVars, searchVars, viewsVars, totalsVars, filtersVars>>

ServicesInit ==
    /\ area \in {"reports", "login", "signatures", "search", "views", "totals", "filters"}
    /\ ReportsInit /\ LoginInit /\ SignaturesInit /\ SearchInit /\ ViewsInit
    /\ TotalsInit /\ FiltersInit

(* A step of the part that the behaviour is about.                           *)
ReportsActs ==
    /\ area = "reports" /\ ReportsNext
    /\ UNCHANGED <<area, loginVars, signatureVars, searchVars, viewsVars, totalsVars,
                   filtersVars>>
LoginActs ==
    /\ area = "login" /\ LoginNext
    /\ UNCHANGED <<area, reportVars, signatureVars, searchVars, viewsVars, totalsVars,
                   filtersVars>>
SignaturesActs ==
    /\ area = "signatures" /\ SignaturesNext
    /\ UNCHANGED <<area, reportVars, loginVars, searchVars, viewsVars, totalsVars,
                   filtersVars>>
SearchActs ==
    /\ area = "search" /\ SearchNext
    /\ UNCHANGED <<area, reportVars, loginVars, signatureVars, viewsVars, totalsVars,
                   filtersVars>>
ViewsActs ==
    /\ area = "views" /\ ViewsNext
    /\ UNCHANGED <<area, reportVars, loginVars, signatureVars, searchVars, totalsVars,
                   filtersVars>>
TotalsActs ==
    /\ area = "totals" /\ TotalsNext
    /\ UNCHANGED <<area, reportVars, loginVars, signatureVars, searchVars, viewsVars,
                   filtersVars>>
FiltersActs ==
    /\ area = "filters" /\ FiltersNext
    /\ UNCHANGED <<area, reportVars, loginVars, signatureVars, searchVars, viewsVars,
                   totalsVars>>

ServicesNext ==
    \/ ReportsActs \/ LoginActs \/ SignaturesActs \/ SearchActs
    \/ ViewsActs \/ TotalsActs \/ FiltersActs

ServicesSpec == ServicesInit /\ [][ServicesNext]_servicesVars

(* The types of all. The other properties are the modules' own.              *)
ServicesTypeOK ==
    /\ area = "reports" => ReportsTypeOK
    /\ area = "login" => LoginTypeOK
    /\ area = "signatures" => SignaturesTypeOK
    /\ area = "search" => SearchTypeOK
    /\ area = "views" => ViewsTypeOK
    /\ area = "totals" => TotalsTypeOK
    /\ area = "filters" => FiltersTypeOK
=============================================================================
