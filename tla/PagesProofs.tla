------------------------------ MODULE PagesProofs ------------------------------
(***************************************************************************)
(* Theorems about the pages of Directory: for any organizations, relays,   *)
(* domains, accounts and list items, any number of requests at once and of *)
(* processes killed; and, with those of SettingsProofs, about the pages of *)
(* Directory and of Settings side by side (Pages).                         *)
(***************************************************************************)
EXTENDS Pages, FiniteSetTheorems, SequenceTheorems, TLAPS

-----------------------------------------------------------------------------
(* Rows of different tables are different                                    *)

LEMMA OneTable ==
    /\ \A x \in Organization : x \notin Relay \cup Domain \cup Alias \cup Destination \cup AuthServer
            \cup LDAPSettings \cup User \cup Address \cup ListItem \cup DomSignature \cup UserSignature
    /\ \A x \in Relay : x \notin Domain \cup Alias \cup Destination \cup AuthServer
            \cup LDAPSettings \cup User \cup Address \cup ListItem \cup DomSignature \cup UserSignature
    /\ \A x \in Domain : x \notin Alias \cup Destination \cup AuthServer
            \cup LDAPSettings \cup User \cup Address \cup ListItem \cup DomSignature \cup UserSignature
    /\ \A x \in Alias : x \notin Destination \cup AuthServer
            \cup LDAPSettings \cup User \cup Address \cup ListItem \cup DomSignature \cup UserSignature
    /\ \A x \in Destination : x \notin AuthServer
            \cup LDAPSettings \cup User \cup Address \cup ListItem \cup DomSignature \cup UserSignature
    /\ \A x \in AuthServer : x \notin LDAPSettings \cup User \cup Address \cup ListItem
            \cup DomSignature \cup UserSignature
    /\ \A x \in LDAPSettings : x \notin User \cup Address \cup ListItem \cup DomSignature \cup UserSignature
    /\ \A x \in User : x \notin Address \cup ListItem \cup DomSignature \cup UserSignature
    /\ \A x \in Address : x \notin ListItem \cup DomSignature \cup UserSignature
    /\ \A x \in ListItem : x \notin DomSignature \cup UserSignature
    /\ \A x \in DomSignature : x \notin UserSignature
<1>1. \A i, j \in 1 .. 12 : i # j => \A x : ~(x \in Table[i] /\ x \in Table[j])
  BY DirectoryAssumption
<1>2. /\ Table[1] = Organization /\ Table[2] = Relay /\ Table[3] = Domain /\ Table[4] = Alias
      /\ Table[5] = Destination /\ Table[6] = AuthServer /\ Table[7] = LDAPSettings
      /\ Table[8] = User /\ Table[9] = Address /\ Table[10] = ListItem
      /\ Table[11] = DomSignature /\ Table[12] = UserSignature
  BY DEF Table
<1> QED  BY <1>1, <1>2

-----------------------------------------------------------------------------
(* A file is made from the rows of RowsOf, and from no other                 *)

Same(D, E, S) == \A x \in S : D[x] = E[x]

LEMMA OnSame ==
    ASSUME NEW D, NEW E, NEW S, Same(D, E, S)
    PROVE  On(D, S) = On(E, S) /\ Here(D, S) = Here(E, S)
BY DEF Same, On, Here

LEMMA DomainsSame ==
    ASSUME NEW D, NEW E, Same(D, E, Domain \cup Alias)
    PROVE  alldomains(D) = alldomains(E)
<1>1. On(D, Domain) = On(E, Domain)
  BY OnSame DEF Same
<1>2. \A d : On(D, ChildrenOf(d, Alias)) = On(E, ChildrenOf(d, Alias))
  BY OnSame DEF Same, ChildrenOf
<1> QED  BY <1>1, <1>2, Zenon DEF alldomains

LEMMA NamesOfDomains ==
    ASSUME NEW D, NEW p \in alldomains(D)
    PROVE  p[2] \in On(D, Domain) /\ p[1] \in {p[2]} \cup On(D, ChildrenOf(p[2], Alias))
BY DEF alldomains

LEMMA MtaSame ==
    ASSUME NEW D, NEW E, Same(D, E, Domain \cup Alias \cup Destination)
    PROVE  mtasettings(D) = mtasettings(E)
<1>1. alldomains(D) = alldomains(E)
  BY DomainsSame DEF Same
<1>2. \A d : On(D, ChildrenOf(d, Destination)) = On(E, ChildrenOf(d, Destination))
  BY OnSame DEF Same, ChildrenOf
<1> DEFINE T(X, p) == {<<p[1], p[2], s>> : s \in On(X, ChildrenOf(p[2], Destination))}
<1>3. \A p : T(D, p) = T(E, p)
  BY <1>2
<1>4. \A X : mtasettings(X) = UNION {T(X, p) : p \in alldomains(X)}
  BY DEF mtasettings
<1> HIDE DEF T
<1> QED  BY <1>1, <1>3, <1>4

LEMMA ServersOfDomains ==
    ASSUME NEW D, NEW t \in mtasettings(D)
    PROVE  /\ t[2] \in On(D, Domain)
           /\ t[3] \in On(D, ChildrenOf(t[2], Destination))
<1>1. PICK p \in alldomains(D) : t \in {<<p[1], p[2], s>> : s \in On(D, ChildrenOf(p[2], Destination))}
  BY DEF mtasettings
<1> QED  BY <1>1, NamesOfDomains

LEMMA NamesSame ==
    ASSUME NEW D, NEW E, NEW x \in Domain \cup User,
           Same(D, E, ChildrenOf(x, Alias)), Same(D, E, ChildrenOf(x, Address))
    PROVE  Names(D, x) = Names(E, x)
BY OnSame DEF Names

LEMMA RoutesSame ==
    ASSUME NEW D, NEW E, Same(D, E, Domain \cup Alias \cup Destination)
    PROVE  routedata(D) = routedata(E)
<1>1. On(D, Destination) = On(E, Destination) /\ Here(D, Destination) = Here(E, Destination)
  BY OnSame DEF Same
<1>2. \A d : On(D, ChildrenOf(d, Alias)) = On(E, ChildrenOf(d, Alias))
  BY OnSame DEF Same, ChildrenOf
<1> DEFINE R(X, s) == {<<n, s>> : n \in On(X, ChildrenOf(Of[s], Alias))}
<1>3. \A s : R(D, s) = R(E, s)
  BY <1>2
<1>4. \A X : routedata(X) = {<<Of[s], s>> : s \in On(X, Destination)}
                              \cup UNION {R(X, s) : s \in Here(X, Destination)}
  BY DEF routedata
<1> HIDE DEF R
<1> QED  BY <1>1, <1>3, <1>4

LEMMA SignedSame ==
    ASSUME NEW D, NEW E, NEW kind, Same(D, E, Domain \cup Alias \cup User \cup Address),
           Same(D, E, (DomSignature \cup UserSignature) \cap kind)
    PROVE  SignedBy(D, kind) = SignedBy(E, kind)
<1> DEFINE us(X) == {Of[g] : g \in On(X, UserSignature \cap kind)}
           ds(X) == {Of[g] : g \in On(X, DomSignature \cap kind)}
           signed(X) == {q \in alldomains(X) : q[2] \in ds(X)}
<1>1. us(D) = us(E) /\ us(D) \subseteq User
  BY OnSame, DirectoryAssumption DEF Same, On, UserChild
<1>2. ds(D) = ds(E)
  BY OnSame DEF Same
<1>3. signed(D) = signed(E)
  <2>1. alldomains(D) = alldomains(E)
    BY DomainsSame DEF Same
  <2> HIDE DEF ds
  <2> QED  BY <1>2, <2>1
<1>4. /\ On(D, us(D)) = On(E, us(E))
      /\ On(D, {m \in Address : Of[m] \in us(D)}) = On(E, {m \in Address : Of[m] \in us(E)})
  <2> DEFINE ms(X) == {m \in Address : Of[m] \in us(X)}
  <2> HIDE DEF us
  <2>1. ms(D) = ms(E) /\ ms(D) \subseteq Address
    BY <1>1
  <2> HIDE DEF ms
  <2>2. Same(D, E, us(D)) /\ Same(D, E, ms(D))
    BY <1>1, <2>1 DEF Same
  <2>3. On(D, us(D)) = On(E, us(E)) /\ On(D, ms(D)) = On(E, ms(E))
    BY <1>1, <2>1, <2>2, OnSame
  <2> QED  BY <2>3 DEF ms
<1> HIDE DEF us, ds
<1>5. \A X : SignedBy(X, kind) =
            On(X, us(X)) \cup On(X, {m \in Address : Of[m] \in us(X)}) \cup {p[1] : p \in signed(X)}
  BY DEF SignedBy, us, ds
<1> QED  BY <1>3, <1>4, <1>5
LEMMA ContentIs ==
    ASSUME NEW D
    PROVE
    /\ Content("create_relay_domains", D) = create_relay_domains(D)
    /\ Content("create_relay_hosts", D) = create_relay_hosts(D)
    /\ Content("create_relay_proto_domains(1)", D) = create_relay_proto_domains(D, FALSE)
    /\ Content("create_relay_proto_domains(2)", D) = create_relay_proto_domains(D, TRUE)
    /\ Content("create_ldap_domains", D) = create_ldap_domains(D)
    /\ Content("create_ldap_data", D) = create_ldap_data(D)
    /\ Content("create_callback_domains", D) = create_callback_domains(D)
    /\ Content("create_domain_lists(1)", D) = create_domain_lists(D, FALSE)
    /\ Content("create_domain_lists(2)", D) = create_domain_lists(D, TRUE)
    /\ Content("create_route_data", D) = create_route_data(D)
    /\ Content("create_auth_data", D) = create_auth_data(D)
    /\ Content("create_smtp(1)", D) = create_smtp(D, FALSE)
    /\ Content("create_smtp(2)", D) = create_smtp(D, TRUE)
    /\ Content("create_lmtp(1)", D) = create_lmtp(D, FALSE)
    /\ Content("create_lmtp(2)", D) = create_lmtp(D, TRUE)
    /\ Content("create_post_smtp_av", D) = create_post_smtp_av(D)
    /\ Content("create_av_disabled", D) = create_av_disabled(D)
    /\ Content("create_ratelimit", D) = create_ratelimit(D)
    /\ Content("create_spam_checks", D) = create_spam_checks(D)
    /\ Content("create_virus_checks", D) = create_virus_checks(D)
    /\ Content("create_spam_actions", D) = create_spam_actions(D)
    /\ Content("create_highspam_actions", D) = create_highspam_actions(D)
    /\ Content("create_spam_scores", D) = create_spam_scores(D)
    /\ Content("create_highspam_scores", D) = create_highspam_scores(D)
    /\ Content("create_lists(1)", D) = create_lists(D, FALSE)
    /\ Content("create_lists(2)", D) = create_lists(D, TRUE)
    /\ Content("create_message_size", D) = create_message_size(D)
    /\ Content("create_language_based", D) = create_language_based(D)
    /\ Content("create_sign_clean", D) = create_sign_clean(D)
    /\ Content("create_text_sigs", D) = create_text_sigs(D)
    /\ Content("create_html_sigs", D) = create_html_sigs(D)
BY DEF Content

LEMMA DomainLinesSame ==
    ASSUME NEW D, NEW E, NEW column,
           \A x \in Domain : /\ column \in D[x] <=> column \in E[x]
                             /\ column \in D[x] => Names(D, x) = Names(E, x)
    PROVE  DomainLines(D, column) = DomainLines(E, column)
<1> DEFINE X(Y) == {x \in Domain : column \in Y[x]}
<1>1. X(D) = X(E) /\ \A x \in X(D) : Names(D, x) = Names(E, x)
  OBVIOUS
<1> HIDE DEF X
<1>2. UNION {Names(D, x) : x \in X(D)} = UNION {Names(E, x) : x \in X(E)}
  BY <1>1
<1> QED  BY <1>2 DEF DomainLines, X

LEMMA UserLinesSame ==
    ASSUME NEW D, NEW E, NEW column,
           \A x \in User : /\ column \in D[x] <=> column \in E[x]
                           /\ column \in D[x] => Names(D, x) = Names(E, x)
    PROVE  UserLines(D, column) = UserLines(E, column)
<1> DEFINE X(Y) == {x \in User : column \in Y[x]}
<1>1. X(D) = X(E) /\ \A x \in X(D) : Names(D, x) = Names(E, x)
  OBVIOUS
<1> HIDE DEF X
<1>2. UNION {Names(D, x) : x \in X(D)} = UNION {Names(E, x) : x \in X(E)}
  BY <1>1
<1> QED  BY <1>2 DEF UserLines, X

HostLinesAlike(D, E, column) ==
    \A y \in Relay : {"address", column} \subseteq D[y] <=> {"address", column} \subseteq E[y]

LEMMA ScoreLinesSame ==
    ASSUME NEW D, NEW E, NEW column, HostLinesAlike(D, E, column),
           \A x \in Domain \cup User :
                /\ column \in D[x] <=> column \in E[x]
                /\ column \in D[x] => Same(D, E, ChildrenOf(x, Alias \cup Address))
    PROVE  ScoreLines(D, column) = ScoreLines(E, column)
<1> DEFINE X(Y) == {x \in Domain \cup User : column \in Y[x]}
           L(Y, x) == {x} \cup Here(Y, ChildrenOf(x, Alias \cup Address))
<1>1. X(D) = X(E)
  OBVIOUS
<1>2. \A x \in X(D) : L(D, x) = L(E, x)
  BY OnSame
<1>3. HostLines(D, column) = HostLines(E, column)
  BY DEF HostLines, HostLinesAlike
<1>4. \A Y : ScoreLines(Y, column) = HostLines(Y, column) \cup UNION {L(Y, x) : x \in X(Y)}
  BY DEF ScoreLines
<1> HIDE DEF X, L
<1>5. UNION {L(D, x) : x \in X(D)} = UNION {L(E, x) : x \in X(E)}
  BY <1>1, <1>2
<1> QED  BY <1>3, <1>4, <1>5

(* The rulesets, by the tables that they are made from.                      *)
ScoreFiles == {"create_spam_scores", "create_highspam_scores"}
ActionFiles == {"create_spam_actions", "create_highspam_actions"}
SizeFiles == {"create_message_size", "create_language_based"}

LEMMA RulesetIs ==
    ASSUME NEW f \in Rulesets
    PROVE  \/ f \in ScoreFiles /\ \E column \in Every :
                /\ ColumnOf[f] = {"address", column}
                /\ \A D : Content(f, D) = ScoreLines(D, column)
           \/ f \in ActionFiles /\ \E column \in Every :
                /\ ColumnOf[f] = {"address", column}
                /\ \A D : Content(f, D) = DomainLines(D, column) \cup HostLines(D, column)
           \/ f \in SizeFiles /\ \E column \in Every :
                /\ ColumnOf[f] = {column}
                /\ \A D : Content(f, D) = DomainLines(D, column)
           \/ f = "create_spam_checks" /\ ColumnOf[f] = {"spam_checks"}
              /\ \A D : Content(f, D) = UserLines(D, "spam_checks") \cup DomainLines(D, "spam_checks")
           \/ f = "create_virus_checks" /\ ColumnOf[f] = {"virus_checks", "virus_checks_at_smtp"}
              /\ \A D : Content(f, D) = create_virus_checks(D)
<1> USE ContentIs DEF ColumnOf, Every, ScoreFiles, ActionFiles, SizeFiles
<1>1. CASE f = "create_spam_scores"
  <2>1. ColumnOf[f] = {"address", "low_score"}  BY <1>1
  <2>2. \A D : Content(f, D) = ScoreLines(D, "low_score")  BY <1>1 DEF create_spam_scores
  <2> QED  BY <1>1, <2>1, <2>2
<1>2. CASE f = "create_highspam_scores"
  <2>1. ColumnOf[f] = {"address", "high_score"}  BY <1>2
  <2>2. \A D : Content(f, D) = ScoreLines(D, "high_score")  BY <1>2 DEF create_highspam_scores
  <2> QED  BY <1>2, <2>1, <2>2
<1>3. CASE f = "create_spam_actions"
  <2>1. ColumnOf[f] = {"address", "spam_actions"}  BY <1>3
  <2>2. \A D : Content(f, D) = DomainLines(D, "spam_actions") \cup HostLines(D, "spam_actions")
    BY <1>3 DEF create_spam_actions
  <2> QED  BY <1>3, <2>1, <2>2
<1>4. CASE f = "create_highspam_actions"
  <2>1. ColumnOf[f] = {"address", "highspam_actions"}  BY <1>4
  <2>2. \A D : Content(f, D) = DomainLines(D, "highspam_actions") \cup HostLines(D, "highspam_actions")
    BY <1>4 DEF create_highspam_actions
  <2> QED  BY <1>4, <2>1, <2>2
<1>5. CASE f = "create_message_size"
  <2>1. ColumnOf[f] = {"message_size"}  BY <1>5
  <2>2. \A D : Content(f, D) = DomainLines(D, "message_size")  BY <1>5 DEF create_message_size
  <2> QED  BY <1>5, <2>1, <2>2
<1>6. CASE f = "create_language_based"
  <2>1. ColumnOf[f] = {"language"}  BY <1>6
  <2>2. \A D : Content(f, D) = DomainLines(D, "language")  BY <1>6 DEF create_language_based
  <2> QED  BY <1>6, <2>1, <2>2
<1>7. CASE f = "create_spam_checks"
  BY <1>7 DEF create_spam_checks
<1>8. CASE f = "create_virus_checks"
  BY <1>8
<1> QED  BY <1>1, <1>2, <1>3, <1>4, <1>5, <1>6, <1>7, <1>8 DEF Rulesets

(* What a ruleset says of domains, of accounts and of hosts is the same.      *)
DomainsAlike(D, E, columns) ==
    \A x \in Domain : \A c \in columns :
        /\ c \in D[x] <=> c \in E[x]
        /\ c \in D[x] => Same(D, E, ChildrenOf(x, Alias))
UsersAlike(D, E, columns) ==
    \A x \in User : \A c \in columns :
        /\ c \in D[x] <=> c \in E[x]
        /\ c \in D[x] => Same(D, E, ChildrenOf(x, Address))
HostsAlike(D, E, columns) == \A c \in columns : HostLinesAlike(D, E, c)

Scored == ScoreFiles \cup {"create_spam_checks"}        \* rulesets with accounts
OfHosts == ScoreFiles \cup ActionFiles                  \* rulesets with hosts

(* A column of a row, of which "address" is only half of a line.              *)
Tells(f) == ColumnOf[f] \ {"address"}

LEMMA NoneAbove ==
    /\ \A x \in Domain : ChildrenOf(x, Address) = {}
    /\ \A x \in User : ChildrenOf(x, Alias) = {}
BY OneTable, DirectoryAssumption DEF ChildrenOf, DomainChild, UserChild

LEMMA RulesetSame ==
    ASSUME NEW D, NEW E, NEW f \in Rulesets,
           DomainsAlike(D, E, Tells(f)),
           f \in Scored => UsersAlike(D, E, Tells(f)),
           f \in OfHosts => HostsAlike(D, E, Tells(f))
    PROVE  Content(f, D) = Content(f, E)
<1> USE DEF Tells, ScoreFiles, ActionFiles, SizeFiles, Scored, OfHosts
<1>0. /\ \A c \in Tells(f), x \in Domain : c \in D[x] => Names(D, x) = Names(E, x)
      /\ f \in Scored => \A c \in Tells(f), x \in User : c \in D[x] => Names(D, x) = Names(E, x)
  BY NamesSame, NoneAbove DEF DomainsAlike, UsersAlike, Same
<1>1. ASSUME NEW column \in Every, f \in ScoreFiles, ColumnOf[f] = {"address", column},
             \A X : Content(f, X) = ScoreLines(X, column)
      PROVE  Content(f, D) = Content(f, E)
  <2>1. column \in Tells(f)
    BY <1>1 DEF Every
  <2>2. HostLinesAlike(D, E, column)
    BY <1>1, <2>1 DEF HostsAlike
  <2>3. \A x \in Domain \cup User :
                /\ column \in D[x] <=> column \in E[x]
                /\ column \in D[x] => Same(D, E, ChildrenOf(x, Alias \cup Address))
    BY <1>1, <2>1, NoneAbove DEF DomainsAlike, UsersAlike, Same, ChildrenOf
  <2>4. ScoreLines(D, column) = ScoreLines(E, column)
    BY <2>2, <2>3, ScoreLinesSame
  <2> QED  BY <1>1, <2>4
<1>2. ASSUME NEW column \in Every, f \in ActionFiles, ColumnOf[f] = {"address", column},
             \A X : Content(f, X) = DomainLines(X, column) \cup HostLines(X, column)
      PROVE  Content(f, D) = Content(f, E)
  <2>1. column \in Tells(f)
    BY <1>2 DEF Every
  <2>2. HostLines(D, column) = HostLines(E, column)
    BY <1>2, <2>1 DEF HostsAlike, HostLines, HostLinesAlike
  <2>3. DomainLines(D, column) = DomainLines(E, column)
    BY <1>0, <2>1, DomainLinesSame DEF DomainsAlike
  <2> QED  BY <1>2, <2>2, <2>3
<1>3. ASSUME NEW column \in Every, f \in SizeFiles, ColumnOf[f] = {column},
             \A X : Content(f, X) = DomainLines(X, column)
      PROVE  Content(f, D) = Content(f, E)
  <2>1. column \in Tells(f)
    BY <1>3 DEF Every
  <2> QED  BY <1>0, <1>3, <2>1, DomainLinesSame DEF DomainsAlike
<1>4. ASSUME f = "create_spam_checks", ColumnOf[f] = {"spam_checks"},
             \A X : Content(f, X) = UserLines(X, "spam_checks") \cup DomainLines(X, "spam_checks")
      PROVE  Content(f, D) = Content(f, E)
  <2>1. "spam_checks" \in Tells(f) /\ f \in Scored
    BY <1>4
  <2>2. DomainLines(D, "spam_checks") = DomainLines(E, "spam_checks")
    BY <1>0, <2>1, DomainLinesSame DEF DomainsAlike
  <2>3. UserLines(D, "spam_checks") = UserLines(E, "spam_checks")
    BY <1>0, <2>1, UserLinesSame DEF UsersAlike
  <2> QED  BY <1>4, <2>2, <2>3
<1>5. ASSUME f = "create_virus_checks", ColumnOf[f] = {"virus_checks", "virus_checks_at_smtp"},
             \A X : Content(f, X) = create_virus_checks(X)
      PROVE  Content(f, D) = Content(f, E)
  <2> DEFINE X(Y) == {x \in Here(Y, Domain) : "virus_checks" \notin Y[x] /\ "virus_checks_at_smtp" \in Y[x]}
  <2>1. /\ "virus_checks" \in Tells(f) /\ "virus_checks_at_smtp" \in Tells(f)
    BY <1>5
  <2>2. X(D) = X(E) /\ \A x \in X(D) : Names(D, x) = Names(E, x)
    BY <1>0, <2>1 DEF DomainsAlike, Here
  <2>3. \A Y : create_virus_checks(Y) = UNION {Names(Y, x) : x \in X(Y)}
    BY DEF create_virus_checks
  <2> HIDE DEF X
  <2>4. UNION {Names(D, x) : x \in X(D)} = UNION {Names(E, x) : x \in X(E)}
    BY <2>2
  <2> QED  BY <1>5, <2>3, <2>4
<1> QED  BY <1>1, <1>2, <1>3, <1>4, <1>5, RulesetIs

LEMMA RowsOfIs ==
    /\ \A f \in EximRelay : RowsOf(f) = Relay
    /\ \A f \in EximLists \cup Lists : RowsOf(f) = ListItem
    /\ \A f \in EximDomains : RowsOf(f) = Domain \cup Alias
    /\ \A f \in EximRoutes : RowsOf(f) = Domain \cup Alias \cup Destination
    /\ RowsOf("create_ldap_data") = Domain \cup Alias \cup AuthServer \cup LDAPSettings
    /\ RowsOf("create_html_sigs") = Domain \cup Alias \cup User \cup Address \cup HTML
    /\ \A f \in Signing \ {"create_html_sigs"} : RowsOf(f) = Domain \cup Alias \cup User \cup Address
                            \cup ((DomSignature \cup UserSignature) \ HTML)
<1> USE DEF EximRelay, EximLists, Lists, EximDomains, EximRoutes, Signing, Rulesets
<1>1. \A f \in EximRelay : RowsOf(f) = Relay
  BY DEF RowsOf
<1>2. \A f \in EximLists \cup Lists : RowsOf(f) = ListItem
  BY DEF RowsOf
<1>3. \A f \in EximDomains : RowsOf(f) = Domain \cup Alias
  BY DEF RowsOf
<1>4. \A f \in EximRoutes : RowsOf(f) = Domain \cup Alias \cup Destination
  BY DEF RowsOf
<1>5. /\ RowsOf("create_ldap_data") = Domain \cup Alias \cup AuthServer \cup LDAPSettings
      /\ RowsOf("create_html_sigs") = Domain \cup Alias \cup User \cup Address \cup HTML
  BY DEF RowsOf
<1>6. \A f \in Signing \ {"create_html_sigs"} : RowsOf(f) = Domain \cup Alias \cup User \cup Address
                            \cup ((DomSignature \cup UserSignature) \ HTML)
  BY DEF RowsOf
<1> QED  BY <1>1, <1>2, <1>3, <1>4, <1>5, <1>6

LEMMA MailFilesSame ==
    ASSUME NEW D, NEW E, NEW f \in EximDomains \cup EximRoutes \cup {"create_ldap_data"},
           Same(D, E, RowsOf(f))
    PROVE  Content(f, D) = Content(f, E)
<1> USE DEF EximDomains, EximRoutes
<1>1. Same(D, E, Domain \cup Alias) /\ alldomains(D) = alldomains(E)
  BY DomainsSame, RowsOfIs DEF Same
<1>2. \A p \in alldomains(D) : D[p[2]] = E[p[2]]
  BY <1>1, NamesOfDomains DEF Same, On
<1>3. CASE f = "create_relay_domains"
  BY <1>1, <1>3, ContentIs DEF create_relay_domains
<1>4. CASE f = "create_post_smtp_av"
  <2>1. {x \in alldomains(D) : "virus_checks_at_smtp" \in D[x[2]]}
            = {x \in alldomains(E) : "virus_checks_at_smtp" \in E[x[2]]}
    BY <1>1, <1>2
  <2> QED  BY <1>4, <2>1, ContentIs DEF create_post_smtp_av
<1>5. CASE f = "create_av_disabled"
  <2>1. {x \in alldomains(D) : "virus_checks" \in D[x[2]]}
            = {x \in alldomains(E) : "virus_checks" \in E[x[2]]}
    BY <1>1, <1>2
  <2> QED  BY <1>5, <2>1, ContentIs DEF create_av_disabled
<1>6. CASE f = "create_ldap_data"
  <2>1. Same(D, E, AuthServer) /\ Same(D, E, LDAPSettings)
    BY <1>6, RowsOfIs DEF Same
  <2>2. ldaplookup(D) = ldaplookup(E)
    BY <2>1, OnSame DEF ldaplookup
  <2> DEFINE pairs(X) == {x \in alldomains(X) \X ldaplookup(X) : x[1][2] = x[2][1]}
  <2>3. pairs(D) = pairs(E)
    BY <1>1, <2>2
  <2>4. \A q \in pairs(D) : q[2][2] \in LDAPSettings
    BY DEF ldaplookup, Here
  <2> HIDE DEF pairs
  <2>5. \A q \in pairs(D) : D[q[2][2]] = E[q[2][2]] /\ D[Of[q[2][2]]] = E[Of[q[2][2]]]
    BY <2>1, <2>4, DirectoryAssumption DEF Same
  <2>6. \A X : create_ldap_data(X) =
            {<<q[1][1], q[2][2], "url" \in X[q[2][2]], "url" \in X[Of[q[2][2]]]>> : q \in pairs(X)}
    BY DEF create_ldap_data, pairs
  <2>7. create_ldap_data(D) = create_ldap_data(E)
    BY <2>3, <2>5, <2>6
  <2> QED  BY <1>6, <2>7, ContentIs
<1>7. CASE f \in EximRoutes
  <2>1. Same(D, E, Domain \cup Alias \cup Destination)
    BY <1>7, RowsOfIs
  <2>2. mtasettings(D) = mtasettings(E) /\ routedata(D) = routedata(E)
    BY <2>1, MtaSame, RoutesSame
  <2>3. \A t \in mtasettings(D) : D[t[2]] = E[t[2]] /\ D[t[3]] = E[t[3]]
    BY <2>1, ServersOfDomains DEF Same, On, ChildrenOf
  <2>4. \A b : create_relay_proto_domains(D, b) = create_relay_proto_domains(E, b)
    <3> TAKE b
    <3>1. {x \in mtasettings(D) : ("lmtp" \in D[x[3]]) = b}
              = {x \in mtasettings(E) : ("lmtp" \in E[x[3]]) = b}
      BY <2>2, <2>3
    <3> QED  BY <3>1 DEF create_relay_proto_domains
  <2>5. create_ldap_domains(D) = create_ldap_domains(E)
    <3>1. {x \in mtasettings(D) : "ldap_callout" \in D[x[2]]}
              = {x \in mtasettings(E) : "ldap_callout" \in E[x[2]]}
      BY <2>2, <2>3
    <3> QED  BY <3>1 DEF create_ldap_domains
  <2>6. create_callback_domains(D) = create_callback_domains(E)
    <3>1. {x \in mtasettings(D) : "smtp_callout" \in D[x[2]]}
              = {x \in mtasettings(E) : "smtp_callout" \in E[x[2]]}
      BY <2>2, <2>3
    <3> QED  BY <3>1 DEF create_callback_domains
  <2>7. \A b, n \in BOOLEAN : create_by_mode(D, b, n) = create_by_mode(E, b, n)
    <3> TAKE b, n \in BOOLEAN
    <3>1. {x \in mtasettings(D) : ("lmtp" \in D[x[3]]) = b /\ ("nonrandom" \in D[x[2]]) = n}
              = {x \in mtasettings(E) : ("lmtp" \in E[x[3]]) = b /\ ("nonrandom" \in E[x[2]]) = n}
      BY <2>2, <2>3
    <3> QED  BY <3>1 DEF create_by_mode
  <2>10. CASE f = "create_relay_proto_domains(1)"
    BY <2>10, <2>4, ContentIs
  <2>11. CASE f = "create_relay_proto_domains(2)"
    BY <2>11, <2>4, ContentIs
  <2>12. CASE f = "create_ldap_domains"
    BY <2>12, <2>5, ContentIs
  <2>13. CASE f = "create_callback_domains"
    BY <2>13, <2>6, ContentIs
  <2>14. CASE f = "create_route_data"
    BY <2>14, <2>2, ContentIs DEF create_route_data
  <2>15. CASE f = "create_smtp(1)"
    <3>1. create_by_mode(D, FALSE, FALSE) = create_by_mode(E, FALSE, FALSE)
      BY <2>7, Zenon
    <3> QED  BY <2>15, <3>1, ContentIs DEF create_smtp
  <2>16. CASE f = "create_smtp(2)"
    <3>1. create_by_mode(D, FALSE, TRUE) = create_by_mode(E, FALSE, TRUE)
      BY <2>7, Zenon
    <3> QED  BY <2>16, <3>1, ContentIs DEF create_smtp
  <2>17. CASE f = "create_lmtp(1)"
    <3>1. create_by_mode(D, TRUE, FALSE) = create_by_mode(E, TRUE, FALSE)
      BY <2>7, Zenon
    <3> QED  BY <2>17, <3>1, ContentIs DEF create_lmtp
  <2>18. CASE f = "create_lmtp(2)"
    <3>1. create_by_mode(D, TRUE, TRUE) = create_by_mode(E, TRUE, TRUE)
      BY <2>7, Zenon
    <3> QED  BY <2>18, <3>1, ContentIs DEF create_lmtp
  <2> QED  BY <1>7, <2>10, <2>11, <2>12, <2>13, <2>14, <2>15, <2>16, <2>17, <2>18
<1> QED  BY <1>3, <1>4, <1>5, <1>6, <1>7

LEMMA RelayFilesSame ==
    ASSUME NEW D, NEW E, NEW f \in EximRelay, Same(D, E, Relay)
    PROVE  Content(f, D) = Content(f, E)
<1>1. On(D, Relay) = On(E, Relay)
  BY OnSame
<1>2. HostLines(D, "on") = HostLines(E, "on") /\ create_auth_data(D) = create_auth_data(E)
  BY DEF Same, HostLines, create_auth_data
<1> QED  BY <1>1, <1>2, ContentIs DEF EximRelay, create_relay_hosts, create_ratelimit

LEMMA SignaturesSame ==
    ASSUME NEW D, NEW E, NEW f \in Signing, Same(D, E, RowsOf(f))
    PROVE  Content(f, D) = Content(f, E)
<1> USE DEF Signing
<1>1. Same(D, E, Domain \cup Alias \cup User \cup Address)
  BY RowsOfIs DEF Same
<1>2. CASE f = "create_html_sigs"
  <2>1. Same(D, E, (DomSignature \cup UserSignature) \cap HTML)
    BY <1>2, RowsOfIs DEF Same
  <2>2. SignedBy(D, HTML) = SignedBy(E, HTML)
    BY <1>1, <2>1, SignedSame
  <2> QED  BY <1>2, <2>2, ContentIs DEF create_html_sigs
<1>3. CASE f # "create_html_sigs"
  <2>1. Same(D, E, (DomSignature \cup UserSignature) \cap (Row \ HTML))
    BY <1>3, RowsOfIs DEF Same
  <2>2. SignedBy(D, Row \ HTML) = SignedBy(E, Row \ HTML)
    BY <1>1, <2>1, SignedSame
  <2> QED  BY <1>3, <2>2, ContentIs DEF create_sign_clean, create_text_sigs
<1> QED  BY <1>2, <1>3

(* The lists of the approved (FALSE) or of the banned senders.               *)
ListsOf(banned) ==
    IF banned THEN {"create_lists(2)", "create_domain_lists(2)"}
              ELSE {"create_lists(1)", "create_domain_lists(1)"}

LEMMA ListsSame ==
    ASSUME NEW D, NEW E, NEW banned \in BOOLEAN, NEW f \in ListsOf(banned),
           \A w \in ListItem :
                D[w] = E[w] \/ /\ D[w] # {} => ("banned" \in D[w]) # banned
                               /\ E[w] # {} => ("banned" \in E[w]) # banned
    PROVE  Content(f, D) = Content(f, E)
<1>1. /\ create_lists(D, banned) = create_lists(E, banned)
      /\ create_domain_lists(D, banned) = create_domain_lists(E, banned)
  BY DEF create_lists, create_domain_lists, Here
<1>2. CASE banned = TRUE
  BY <1>1, <1>2, ContentIs DEF ListsOf
<1>3. CASE banned = FALSE
  BY <1>1, <1>3, ContentIs DEF ListsOf
<1> QED  BY <1>2, <1>3

LEMMA RowsSame ==
    ASSUME NEW D, NEW E, NEW f \in File \ Rulesets, Same(D, E, RowsOf(f))
    PROVE  Content(f, D) = Content(f, E)
<1>1. CASE f \in EximRelay
  BY <1>1, RowsOfIs, RelayFilesSame
<1>2. CASE f \in EximLists \cup Lists
  <2>1. Same(D, E, ListItem)
    BY <1>2, RowsOfIs
  <2>2. PICK banned \in BOOLEAN : f \in ListsOf(banned)
    BY <1>2 DEF EximLists, Lists, ListsOf
  <2> QED  BY <2>1, <2>2, ListsSame DEF Same
<1>3. CASE f \in EximDomains \cup EximRoutes \cup {"create_ldap_data"}
  BY <1>3, MailFilesSame
<1>4. CASE f \in Signing
  BY <1>4, SignaturesSame
<1> QED  BY <1>1, <1>2, <1>3, <1>4 DEF File

(* The protocol of a destination server decides in which of two files it is.  *)
LEMMA ProtocolSame ==
    ASSUME NEW D, NEW E, NEW lmtp \in BOOLEAN, Same(D, E, Domain \cup Alias),
           \A s \in Destination : D[s] = E[s]
                \/ /\ "on" \in D[s] => ("lmtp" \in D[s]) # lmtp
                   /\ "on" \in E[s] => ("lmtp" \in E[s]) # lmtp
    PROVE  create_relay_proto_domains(D, lmtp) = create_relay_proto_domains(E, lmtp)
<1> DEFINE T(X) == {x \in mtasettings(X) : ("lmtp" \in X[x[3]]) = lmtp}
<1>1. ASSUME NEW X, NEW Y, Same(X, Y, Domain \cup Alias), NEW t \in T(X),
             \A s \in Destination :
                X[s] = Y[s] \/ ("on" \in X[s] => ("lmtp" \in X[s]) # lmtp)
      PROVE  t \in T(Y)
  <2>1. t[3] \in Destination /\ "on" \in X[t[3]] /\ X[t[3]] = Y[t[3]] /\ Of[t[3]] = t[2]
    BY <1>1, ServersOfDomains DEF On, ChildrenOf
  <2>2. PICK p \in alldomains(X) : t \in {<<p[1], p[2], s>> : s \in On(X, ChildrenOf(p[2], Destination))}
    BY DEF mtasettings
  <2>3. t = <<p[1], p[2], t[3]>> /\ t[3] \in On(Y, ChildrenOf(p[2], Destination))
    BY <2>1, <2>2 DEF On, ChildrenOf
  <2>4. alldomains(X) = alldomains(Y)
    BY <1>1, DomainsSame
  <2>5. t \in mtasettings(Y)
    BY <2>3, <2>4 DEF mtasettings
  <2> QED  BY <2>1, <2>5
<1>2. T(D) = T(E)
  <2>1. Same(E, D, Domain \cup Alias)
    BY DEF Same
  <2>2. /\ \A s \in Destination : D[s] = E[s] \/ ("on" \in D[s] => ("lmtp" \in D[s]) # lmtp)
        /\ \A s \in Destination : E[s] = D[s] \/ ("on" \in E[s] => ("lmtp" \in E[s]) # lmtp)
    OBVIOUS
  <2> HIDE DEF T
  <2>3. \A t \in T(D) : t \in T(E)
    BY <1>1, <2>2
  <2>4. \A t \in T(E) : t \in T(D)
    BY <1>1, <2>1, <2>2
  <2> QED  BY <2>3, <2>4
<1> QED  BY <1>2 DEF create_relay_proto_domains

-----------------------------------------------------------------------------
(* The files that a change of one row, and of the rows that go with it,      *)
(* leaves as they are                                                        *)

LEMMA RulesetRows ==
    ASSUME NEW D, NEW E, NEW f \in Rulesets,
           Same(D, E, Domain \cup Alias \cup User \cup Address \cup Relay)
    PROVE  Content(f, D) = Content(f, E)
<1>1. /\ DomainsAlike(D, E, Tells(f)) /\ UsersAlike(D, E, Tells(f)) /\ HostsAlike(D, E, Tells(f))
  BY DEF Same, DomainsAlike, UsersAlike, HostsAlike, HostLinesAlike, ChildrenOf
<1> QED  BY <1>1, RulesetSame

LEMMA RowIs ==
    Row = Organization \cup Relay \cup Domain \cup Alias \cup Destination \cup AuthServer
            \cup LDAPSettings \cup User \cup Address \cup ListItem \cup DomSignature \cup UserSignature
BY DEF Row

LEMMA OfUser ==
    ASSUME NEW D, NEW E, NEW u \in User, Same(D, E, Row \ ({u} \cup ChildrenOf(u, UserChild))),
           NEW f \in File \ (Signing \cup Lists \cup EximLists),
           f \in Scored =>
                \/ Tells(f) \cap (D[u] \cup E[u]) = {}
                \/ /\ Same(D, E, ChildrenOf(u, Address))
                   /\ \A c \in Tells(f) : c \in D[u] <=> c \in E[u]
    PROVE  Content(f, D) = Content(f, E)
<1>1. Same(D, E, Row \ (User \cup UserChild))
  BY DEF Same, ChildrenOf
<1>2. Same(D, E, Domain \cup Alias \cup Destination \cup AuthServer \cup LDAPSettings \cup Relay)
  BY <1>1, OneTable, RowIs DEF Same, UserChild
<1>3. CASE f \notin Rulesets
  <2>1. f \in EximRelay \cup EximDomains \cup EximRoutes \cup {"create_ldap_data"}
    BY <1>3 DEF File
  <2>2. Same(D, E, RowsOf(f))
    BY <1>2, <2>1, RowsOfIs DEF Same
  <2> QED  BY <1>3, <2>2, RowsSame
<1>4. CASE f \in Rulesets
  <2>1. DomainsAlike(D, E, Tells(f)) /\ HostsAlike(D, E, Tells(f))
    BY <1>2 DEF Same, DomainsAlike, HostsAlike, HostLinesAlike, ChildrenOf
  <2>2. ASSUME f \in Scored  PROVE  UsersAlike(D, E, Tells(f))
    <3>1. ASSUME NEW x \in User, x # u
          PROVE  D[x] = E[x] /\ Same(D, E, ChildrenOf(x, Address))
      BY <3>1, OneTable, RowIs DEF Same, ChildrenOf, UserChild
    <3>2. ASSUME NEW c \in Tells(f)
          PROVE  (c \in D[u] <=> c \in E[u]) /\ (c \in D[u] => Same(D, E, ChildrenOf(u, Address)))
      BY <2>2
    <3> QED  BY <3>1, <3>2 DEF UsersAlike
  <2> QED  BY <1>4, <2>1, <2>2, RulesetSame
<1> QED  BY <1>3, <1>4

LEMMA OfDomain ==
    ASSUME NEW D, NEW E, NEW d \in Domain,
           Same(D, E, Row \ ({d} \cup ChildrenOf(d, DomainChild) \cup LDAPSettings)),
           NEW f \in EximRelay \cup Lists \cup EximLists \cup Rulesets,
           f \in Rulesets => Tells(f) \cap (D[d] \cup E[d]) = {}
    PROVE  Content(f, D) = Content(f, E)
<1>1. Same(D, E, Row \ (Domain \cup DomainChild \cup LDAPSettings))
  BY DEF Same, ChildrenOf
<1>2. Same(D, E, Relay \cup User \cup Address \cup ListItem)
  BY <1>1, OneTable, RowIs DEF Same, DomainChild
<1>3. CASE f \notin Rulesets
  <2>1. Same(D, E, RowsOf(f))
    BY <1>2, <1>3, RowsOfIs DEF Same
  <2> QED  BY <1>3, <2>1, RowsSame DEF File
<1>4. CASE f \in Rulesets
  <2>1. UsersAlike(D, E, Tells(f)) /\ HostsAlike(D, E, Tells(f))
    BY <1>2 DEF Same, UsersAlike, HostsAlike, HostLinesAlike, ChildrenOf
  <2>2. ASSUME NEW x \in Domain, x # d
        PROVE  D[x] = E[x] /\ Same(D, E, ChildrenOf(x, Alias))
    BY <2>2, OneTable, RowIs DEF Same, ChildrenOf, DomainChild
  <2>3. \A c \in Tells(f) : c \notin D[d] /\ c \notin E[d]
    BY <1>4
  <2>4. DomainsAlike(D, E, Tells(f))
    BY <2>2, <2>3 DEF DomainsAlike
  <2> QED  BY <1>4, <2>1, <2>4, RulesetSame
<1> QED  BY <1>3, <1>4

HasLine(X, y, column) == {"address", column} \subseteq X[y]

LEMMA OfRelay ==
    ASSUME NEW D, NEW E, NEW y \in Relay, Same(D, E, Row \ {y}),
           NEW f \in File \ EximRelay,
           f \in OfHosts => \A c \in Tells(f) : HasLine(D, y, c) <=> HasLine(E, y, c)
    PROVE  Content(f, D) = Content(f, E)
<1>1. Same(D, E, Row \ Relay)
  BY DEF Same
<1>2. CASE f \notin Rulesets
  <2>1. Same(D, E, RowsOf(f))
    <3>1. CASE f \in Signing
      <4>1. HTML \subseteq Row \ Relay
        BY OneTable, RowIs, DirectoryAssumption
      <4> QED  BY <1>1, <3>1, <4>1, OneTable, RowIs, RowsOfIs DEF Same
    <3>2. CASE f \notin Signing
      BY <1>1, <1>2, <3>2, OneTable, RowIs, RowsOfIs DEF Same, File
    <3> QED  BY <3>1, <3>2
  <2> QED  BY <1>2, <2>1, RowsSame
<1>3. CASE f \in Rulesets
  <2>1. Same(D, E, Domain \cup Alias \cup User \cup Address)
    BY <1>1, OneTable, RowIs DEF Same
  <2>2. DomainsAlike(D, E, Tells(f)) /\ UsersAlike(D, E, Tells(f))
    BY <2>1 DEF Same, DomainsAlike, UsersAlike, ChildrenOf
  <2>3. f \in OfHosts => HostsAlike(D, E, Tells(f))
    BY RowIs DEF HostsAlike, HostLinesAlike, Same, HasLine
  <2> QED  BY <1>3, <2>2, <2>3, RulesetSame
<1> QED  BY <1>2, <1>3

LEMMA OfOther ==
    ASSUME NEW D, NEW E, Same(D, E, Domain \cup Alias \cup User \cup Address \cup Relay),
           NEW f \in File, f \in Rulesets \/ Same(D, E, RowsOf(f))
    PROVE  Content(f, D) = Content(f, E)
BY RulesetRows, RowsSame

LEMMA RowsOfRow ==
    \A f \in File \ Rulesets : RowsOf(f) \subseteq Row
BY RowsOfIs, RowIs, DirectoryAssumption DEF File

-----------------------------------------------------------------------------
(* What a change does to the rows                                            *)

LEMMA WithChildrenOf ==
    /\ \A u \in User : WithChildren({u}) \subseteq {u} \cup ChildrenOf(u, UserChild)
    /\ \A d \in Domain :
        WithChildren({d}) \subseteq {d} \cup ChildrenOf(d, DomainChild) \cup LDAPSettings
    /\ \A h \in AuthServer : WithChildren({h}) \subseteq {h} \cup LDAPSettings
    /\ \A x \in Row \ (User \cup Domain \cup AuthServer \cup Organization) : WithChildren({x}) = {x}
    /\ \A x : x \in WithChildren({x})
<1>1. DOMAIN Of = DomainChild \cup UserChild \cup LDAPSettings \cup Relay \cup Domain
  BY DirectoryAssumption
<1>2. \A xs : \A y \in Children(xs) :
        Of[y] \in xs /\ y \in DomainChild \cup UserChild \cup LDAPSettings
  BY <1>1 DEF Children
<1>3. /\ \A y \in DomainChild : Of[y] \in Domain
      /\ \A y \in UserChild : Of[y] \in User
      /\ \A y \in LDAPSettings : Of[y] \in AuthServer
  BY DirectoryAssumption
<1>4. /\ \A y \in DomainChild : y \notin Domain \cup User \cup LDAPSettings
      /\ \A y \in UserChild : y \notin Domain \cup User \cup AuthServer \cup LDAPSettings
      /\ \A y \in LDAPSettings : y \notin Domain \cup User \cup AuthServer
      /\ \A y \in Domain : y \notin User \cup AuthServer
      /\ \A y \in User : y \notin AuthServer
  BY OneTable DEF DomainChild, UserChild
<1>5. ASSUME NEW u \in User
      PROVE  WithChildren({u}) \subseteq {u} \cup ChildrenOf(u, UserChild)
  <2>1. \A y \in Children({u}) : y \in ChildrenOf(u, UserChild)
    BY <1>2, <1>3, <1>4 DEF ChildrenOf
  <2>2. Children(Children({u})) = {}
    BY <1>2, <1>3, <1>4, <2>1 DEF ChildrenOf
  <2> QED  BY <2>1, <2>2 DEF WithChildren
<1>6. ASSUME NEW d \in Domain
      PROVE  WithChildren({d}) \subseteq {d} \cup ChildrenOf(d, DomainChild) \cup LDAPSettings
  <2>1. \A y \in Children({d}) : y \in ChildrenOf(d, DomainChild)
    BY <1>2, <1>3, <1>4 DEF ChildrenOf
  <2>2. \A y \in Children(Children({d})) : y \in LDAPSettings
    BY <1>2, <1>3, <1>4, <2>1 DEF ChildrenOf
  <2> QED  BY <2>1, <2>2 DEF WithChildren
<1>7. ASSUME NEW h \in AuthServer
      PROVE  WithChildren({h}) \subseteq {h} \cup LDAPSettings
  <2>1. \A y \in Children({h}) : y \in LDAPSettings
    BY <1>2, <1>3, <1>4
  <2>2. Children(Children({h})) = {}
    BY <1>2, <1>3, <1>4, <2>1
  <2> QED  BY <2>1, <2>2 DEF WithChildren
<1>8. ASSUME NEW x \in Row \ (User \cup Domain \cup AuthServer \cup Organization)
      PROVE  WithChildren({x}) = {x}
  <2>1. Children({x}) = {}
    BY <1>2, <1>3
  <2>2. Children(Children({x})) = {}
    BY <1>2, <2>1
  <2> QED  BY <2>1, <2>2 DEF WithChildren
<1>9. \A x : x \in WithChildren({x})
  BY DEF WithChildren
<1> QED  BY <1>5, <1>6, <1>7, <1>8, <1>9

Made_ == {"insert", "also"}     \* the row is made
Changed_ == {"update", "set"}

LEMMA Applied ==
    ASSUME NEW D, NEW c, c.row \in Row, NEW E, E = Apply(c, D)
    PROVE  /\ c.kind \in Made_ => /\ Same(D, E, Row \ {c.row})
                                  /\ E[c.row] = {"row"} \cup c.gained
           /\ c.kind \in Changed_ =>
                /\ Same(D, E, Row \ {c.row})
                /\ E[c.row] = IF D[c.row] = {} THEN {} ELSE (D[c.row] \cup c.gained) \ c.lost
           /\ c.kind = "delete" => /\ Same(D, E, Row \ WithChildren({c.row}))
                                   /\ E[c.row] = {}
                                   /\ \A x \in Row : E[x] = D[x] \/ E[x] = {}
<1> USE DEF Made_, Changed_
<1>1. \A x \in Row : E[x] = IF x \in Removed(c) THEN {}
                            ELSE IF x # c.row THEN D[x]
                            ELSE IF c.kind \in {"insert", "also"} THEN {"row"} \cup c.gained
                            ELSE IF D[x] = {} THEN {}
                            ELSE (D[x] \cup c.gained) \ c.lost
  BY DEF Apply
<1>2. /\ c.kind \in Made_ \cup Changed_ => Removed(c) = {}
      /\ c.kind = "delete" => Removed(c) = WithChildren({c.row})
  BY DEF Removed
<1>3. c.kind \in Made_ => Same(D, E, Row \ {c.row}) /\ E[c.row] = {"row"} \cup c.gained
  BY <1>1, <1>2 DEF Same
<1>4. c.kind \in Changed_ =>
        /\ Same(D, E, Row \ {c.row})
        /\ E[c.row] = IF D[c.row] = {} THEN {} ELSE (D[c.row] \cup c.gained) \ c.lost
  BY <1>1, <1>2 DEF Same
<1>5. c.kind = "delete" => /\ Same(D, E, Row \ WithChildren({c.row}))
                           /\ E[c.row] = {}
                           /\ \A x \in Row : E[x] = D[x] \/ E[x] = {}
  <2>1. c.row \in WithChildren({c.row})
    BY WithChildrenOf, Zenon
  <2> QED  BY <1>1, <1>2, <2>1 DEF Same
<1> QED  BY <1>3, <1>4, <1>5

-----------------------------------------------------------------------------
(* What a backend function publishes                                         *)

LEMMA TellsIs ==
    \A f \in Rulesets : Tells(f) \subseteq Every /\ Tells(f) # {}
                        /\ Tells(f) \subseteq ColumnOf[f] /\ ColumnOf[f] \subseteq {"address"} \cup Tells(f)
<1> SUFFICES ASSUME NEW f \in Rulesets
             PROVE  Tells(f) \subseteq Every /\ Tells(f) # {}
    BY DEF Tells
<1>1. \/ \E column \in Every : ColumnOf[f] = {"address", column}
      \/ \E column \in Every : ColumnOf[f] = {column}
      \/ ColumnOf[f] = {"virus_checks", "virus_checks_at_smtp"}
  BY RulesetIs DEF Every
<1> QED  BY <1>1 DEF Tells, Every

LEMMA UserPublishes ==
    ASSUME NEW m, NEW f \in Scored, Tells(f) \cap m # {}
    PROVE  f \in backend_user_update(m)
BY DEF Scored, ScoreFiles, Tells, ColumnOf, backend_user_update, If

LEMMA DomainPublishes ==
    ASSUME NEW m
    PROVE  /\ EximDomains \subseteq update_domain_backend(m)
           /\ EximRoutes \subseteq update_domain_backend(m) \cup Protocol(TRUE) \cup Protocol(FALSE)
           /\ \A f \in Rulesets : Tells(f) \cap m # {} => f \in update_domain_backend(m)
<1>1. EximDomains \subseteq update_domain_backend(m)
  BY DEF EximDomains, update_domain_backend
<1>2. EximRoutes \subseteq update_domain_backend(m) \cup Protocol(TRUE) \cup Protocol(FALSE)
  BY DEF EximRoutes, update_domain_backend, Protocol
<1>3. ASSUME NEW f \in Rulesets, Tells(f) \cap m # {}
      PROVE  f \in update_domain_backend(m)
  BY <1>3 DEF Rulesets, Tells, ColumnOf, update_domain_backend, If
<1> QED  BY <1>1, <1>2, <1>3

LEMMA RelayPublishes ==
    ASSUME NEW m
    PROVE  /\ EximRelay \subseteq update_relay_backend(m)
           /\ \A f \in OfHosts : Tells(f) \cap m # {} => f \in update_relay_backend(m)
<1>1. EximRelay \subseteq update_relay_backend(m)
  BY DEF EximRelay, update_relay_backend
<1>2. ASSUME NEW f \in OfHosts, Tells(f) \cap m # {}
      PROVE  f \in update_relay_backend(m)
  BY <1>2 DEF OfHosts, ScoreFiles, ActionFiles, Tells, ColumnOf, update_relay_backend, If
<1> QED  BY <1>1, <1>2

Marks(call, D) == IF call.live THEN D[call.row] ELSE call.marks

LEMMA WantedIs ==
    ASSUME NEW call, NEW D
    PROVE  /\ call.backend = "user" => Wanted(call, D) = backend_user_update(Marks(call, D))
           /\ call.backend = "domain" => Wanted(call, D) = update_domain_backend(Marks(call, D))
           /\ call.backend = "relay" => Wanted(call, D) = update_relay_backend(Marks(call, D))
           /\ call.backend = "destination" /\ (~ call.live \/ D[call.row] # {})
                => Wanted(call, D) = update_destination_backend(Marks(call, D))
           /\ call.backend = "ldap" => Wanted(call, D) = update_ldap_backend
           /\ call.backend = "lists" /\ (~ call.live \/ D[call.row] # {})
                => Wanted(call, D) = update_lists_backend(Marks(call, D))
           /\ call.backend = "sig" /\ (~ call.live \/ D[call.row] # {})
                => Wanted(call, D) = backend_sig_update(call.row)
<1> DEFINE m == IF call.live THEN D[call.row] ELSE call.marks
           gone == call.live /\ m = {}
<1>1. Wanted(call, D) =
        CASE call.backend = "user" -> backend_user_update(m)
          [] call.backend = "domain" -> update_domain_backend(m)
          [] call.backend = "relay" -> update_relay_backend(m)
          [] call.backend = "destination" ->
                IF gone THEN {} ELSE update_destination_backend(m)
          [] call.backend = "auth" -> update_auth_backend(m)
          [] call.backend = "ldap" -> update_ldap_backend
          [] call.backend = "lists" -> IF gone THEN {} ELSE update_lists_backend(m)
          [] call.backend = "sig" -> IF gone THEN {} ELSE backend_sig_update(call.row)
  BY DEF Wanted
<1>2. m = Marks(call, D) /\ (gone => call.live /\ D[call.row] = {})
  BY DEF Marks
<1> HIDE DEF m, gone
<1> QED  BY <1>1, <1>2

-----------------------------------------------------------------------------
(* A script publishes what it changes: whatever the rows are when it commits *)
(* a change, the rest of it makes every file that the change turns stale, or *)
(* Leaves names the file. From its second step on a script only publishes,   *)
(* or adds what does not matter to what is published.                        *)

Whole(D) == \A x \in Row : D[x] # {} => "row" \in D[x]

Task_(step, D) == IF step.kind = "publish" THEN Wanted(step.call, D) ELSE {}
Tasks(script, D) == UNION {Task_(script[i], D) : i \in DOMAIN script}
After(script, i, D) == UNION {Task_(script[j], D) : j \in {k \in DOMAIN script : k > i}}

Covers(p, c, D, E, tasks) ==
    \A f \in File \ (tasks \cup Leaves(p, c, D)) : Content(f, D) = Content(f, E)

Begun(step) == step.kind = "publish" \/ (step.kind = "commit" /\ step.change.kind = "also")

ChangeOK(c) == /\ c.row \in Row /\ "row" \notin c.lost
               /\ c.gained \subseteq {"on"} \cup Column(c.row)

Publishes(p, script) ==
    /\ \E S : script \in Seq(S)
    /\ \A i \in DOMAIN script :
        /\ script[i].kind \in {"commit", "publish"}
        /\ i > 1 => Begun(script[i])
        /\ script[i].kind = "commit" =>
            /\ ChangeOK(script[i].change)
            /\ \A D : Whole(D) /\ ~ Refused(script[i].change, D) =>
                LET E == Apply(script[i].change, D)
                IN  /\ Covers(p, script[i].change, D, E, After(script, i, E))
                    /\ Begun(script[i]) => After(script, i, D) \subseteq After(script, i, E)

LEMMA NothingPublishes ==
    ASSUME NEW p
    PROVE  Publishes(p, <<>>)
BY DEF Publishes

(* The two usual shapes of a script.                                          *)
LEMMA OnePublishes ==
    ASSUME NEW p, NEW c, ChangeOK(c), c.kind # "also",
           \A D : Whole(D) /\ ~ Refused(c, D) => Covers(p, c, D, Apply(c, D), {})
    PROVE  Publishes(p, <<Commit(c)>>)
<1> DEFINE s == <<Commit(c)>>
<1>1. s \in Seq({Commit(c)}) /\ DOMAIN s = {1} /\ s[1] = Commit(c)
  OBVIOUS
<1>2. s[1].kind = "commit" /\ s[1].change = c
  BY DEF Commit
<1>3. ~ Begun(s[1])
  BY <1>2 DEF Begun
<1>4. \A D : After(s, 1, D) = {}
  BY <1>1 DEF After
<1> HIDE DEF s
<1>5. ASSUME NEW D, Whole(D), ~ Refused(c, D)
      PROVE  Covers(p, c, D, Apply(c, D), After(s, 1, Apply(c, D)))
  BY <1>4, <1>5
<1>6. Publishes(p, s)
  BY <1>1, <1>2, <1>3, <1>5 DEF Publishes
<1> QED  BY <1>6 DEF s

LEMMA TwoPublish ==
    ASSUME NEW p, NEW c, NEW k, ChangeOK(c), c.kind # "also",
           \A D : Whole(D) /\ ~ Refused(c, D) => Covers(p, c, D, Apply(c, D), Wanted(k, Apply(c, D)))
    PROVE  Publishes(p, <<Commit(c), Publish(k)>>)
<1> DEFINE s == <<Commit(c), Publish(k)>>
<1>1. s \in Seq({Commit(c), Publish(k)}) /\ DOMAIN s = {1, 2} /\ s[1] = Commit(c) /\ s[2] = Publish(k)
  OBVIOUS
<1>2. s[1].kind = "commit" /\ s[1].change = c /\ s[2].kind = "publish" /\ s[2].call = k
  BY DEF Commit, Publish
<1>3. ~ Begun(s[1]) /\ Begun(s[2])
  BY <1>2 DEF Begun
<1>4. \A D : After(s, 1, D) = Wanted(k, D)
  <2>1. {j \in DOMAIN s : j > 1} = {2}
    BY <1>1
  <2> HIDE DEF s
  <2>2. \A D : Task_(s[2], D) = Wanted(k, D)
    BY <1>2 DEF Task_
  <2> QED  BY <2>1, <2>2 DEF After
<1> HIDE DEF s
<1>5. Publishes(p, s)
  BY <1>1, <1>2, <1>3, <1>4 DEF Publishes
<1> QED  BY <1>5 DEF s

(* A change of C is one of the statements of lib/api.py.                      *)
C(kind, x, gained, lost, copied, copy) ==
    [kind |-> kind, row |-> x, gained |-> gained, lost |-> lost, copied |-> copied, copy |-> copy]

LEMMA Statements ==
    ASSUME NEW x, NEW m, NEW was, NEW y, NEW others
    PROVE  /\ Insert(x, m) = Commit(C("insert", x, m, {}, x, Every))
           /\ Update(x, was, m) = Commit(C("update", x, m \ was, m \cap was, x, Every))
           /\ Set(x, m, others) = Commit(C("set", x, m, others, x, Every))
           /\ Delete(x) = Commit(C("delete", x, {}, {}, x, Every))
           /\ DeleteAll(x) = Commit(C("delete_all", x, {}, {}, x, Every))
           /\ DeleteWith(x, y, was) = Commit(C("delete", x, {}, {}, y, was))
BY DEF Insert, Update, Set, Delete, DeleteAll, DeleteWith, Change, ChangeBy, C

LEMMA RefusedIs ==
    ASSUME NEW c, NEW D, ~ Refused(c, D)
    PROVE  /\ c.kind \in Made_ => D[c.row] = {}
           /\ c.kind \in {"update", "delete", "delete_all"} => D[c.row] # {}
           /\ c.kind \in {"update", "delete", "delete_all"} /\ c.row \in ListItem => D[c.row] = c.copy
<1>1. c.kind \in Made_ => D[c.row] = {}
  BY DEF Refused, Made_
<1>2. c.kind \in {"update", "delete", "delete_all"} =>
        ~ (D[c.row] = {} \/ (c.row \in ListItem /\ D[c.row] # c.copy))
  BY DEF Refused
<1> QED  BY <1>1, <1>2

LEMMA ColumnIs ==
    /\ \A x \in Row : "row" \notin Column(x)
    /\ \A x \in Alias \cup Address : Column(x) = {"on"}
    /\ \A x \in Destination : Column(x) = {"on", "lmtp"}
<1>1. \A x \in Domain : Column(x) = {"on", "nonrandom", "smtp_callout", "ldap_callout"} \cup Every
  BY OneTable DEF Column
<1>2. \A x \in User : Column(x) = {"on", "spam_checks", "low_score", "high_score"}
  BY OneTable DEF Column
<1>3. \A x \in Relay : Column(x) = {"on", "address", "username", "spam_actions",
                         "highspam_actions", "low_score", "high_score"}
  BY OneTable DEF Column
<1>4. /\ \A x \in Destination : Column(x) = {"on", "lmtp"}
      /\ \A x \in AuthServer : Column(x) = {"url", "ldap"}
      /\ \A x \in LDAPSettings : Column(x) = {"url"}
  BY OneTable DEF Column
<1>5. /\ \A x \in ListItem : Column(x) = {"banned", "any", "add_to_alias"}
      /\ \A x \in Organization : Column(x) = {}
  BY OneTable DEF Column
<1>6. \A x \in Alias \cup Address \cup DomSignature \cup UserSignature : Column(x) = {"on"}
  BY OneTable DEF Column
<1> QED  BY <1>1, <1>2, <1>3, <1>4, <1>5, <1>6, RowIs DEF Every

LEMMA LeavesAlways ==
    ASSUME NEW p, NEW c, NEW D
    PROVE  /\ p \notin SignaturePages => Signing \subseteq Leaves(p, c, D)
           /\ p # "auth_settings" => "create_ldap_data" \in Leaves(p, c, D)
           /\ p \notin DestinationPages => Protocol(TRUE) \cup Protocol(FALSE) \subseteq Leaves(p, c, D)
<1>1. p \notin SignaturePages => Signing \subseteq Leaves(p, c, D)
  BY DEF Leaves
<1>2. p # "auth_settings" => "create_ldap_data" \in Leaves(p, c, D)
  BY DEF Leaves
<1>3. p \notin DestinationPages => Protocol(TRUE) \cup Protocol(FALSE) \subseteq Leaves(p, c, D)
  BY DEF Leaves
<1> QED  BY <1>1, <1>2, <1>3

LEMMA LeavesCopied ==
    ASSUME NEW p, NEW kind, NEW x, NEW gained, NEW lost, NEW y, NEW was, NEW D,
           NEW f \in Rulesets, NEW col \in D[y], col \in ColumnOf[f], col \notin was
    PROVE  f \in Leaves(p, C(kind, x, gained, lost, y, was), D)
<1> DEFINE c == C(kind, x, gained, lost, y, was)
<1>1. c.copied = y /\ c.copy = was
  BY DEF C
<1> HIDE DEF c
<1>2. ColumnOf[f] \cap (D[c.copied] \ c.copy) # {}
  BY <1>1
<1>3. f \in Leaves(p, c, D)
  BY <1>2 DEF Leaves
<1> QED  BY <1>3 DEF c

LEMMA LeavesLost ==
    ASSUME NEW p \in {"accounts_edit", "organizations_edit_relay"},
           NEW kind, NEW x, NEW gained, NEW lost, NEW y, NEW was, NEW D,
           NEW f \in Rulesets, NEW col \in lost, col \in ColumnOf[f]
    PROVE  f \in Leaves(p, C(kind, x, gained, lost, y, was), D)
<1> DEFINE c == C(kind, x, gained, lost, y, was)
<1>1. c.lost = lost
  BY DEF C
<1> HIDE DEF c
<1>2. ColumnOf[f] \cap c.lost # {}
  BY <1>1
<1>3. f \in Leaves(p, c, D)
  BY <1>2 DEF Leaves
<1> QED  BY <1>3 DEF c

(* The shapes of a script, by its statement.                                  *)
LEMMA InsertPublishes ==
    ASSUME NEW p, NEW x \in Row, NEW m, m \subseteq {"on"} \cup Column(x), NEW k,
           \A D, E : Whole(D) /\ D[x] = {} /\ E[x] = {"row"} \cup m /\ Same(D, E, Row \ {x})
                => Covers(p, C("insert", x, m, {}, x, Every), D, E, Wanted(k, E))
    PROVE  Publishes(p, <<Insert(x, m), Publish(k)>>)
<1> DEFINE c == C("insert", x, m, {}, x, Every)
<1>1. Insert(x, m) = Commit(c)
  BY Statements
<1>2. c.kind = "insert" /\ c.row = x /\ c.gained = m /\ c.lost = {}
  BY DEF C
<1> HIDE DEF c
<1>3. ASSUME NEW D, Whole(D), ~ Refused(c, D)
      PROVE  Covers(p, c, D, Apply(c, D), Wanted(k, Apply(c, D)))
  <2>1. D[x] = {}
    BY <1>2, <1>3, RefusedIs DEF Made_
  <2>2. Apply(c, D)[x] = {"row"} \cup m /\ Same(D, Apply(c, D), Row \ {x})
    BY <1>2, Applied DEF Made_
  <2> QED  BY <1>3, <2>1, <2>2 DEF c
<1>4. ChangeOK(c) /\ c.kind # "also"
  BY <1>2 DEF ChangeOK
<1> QED  BY <1>1, <1>3, <1>4, TwoPublish

LEMMA UpdatePublishes ==
    ASSUME NEW p, NEW x \in Row, NEW was, NEW m, m \subseteq {"on"} \cup Column(x), NEW k,
           \A D, E : Whole(D) /\ D[x] # {} /\ E[x] = (D[x] \cup (m \ was)) \ (m \cap was)
                        /\ Same(D, E, Row \ {x})
                => Covers(p, C("update", x, m \ was, m \cap was, x, Every), D, E, Wanted(k, E))
    PROVE  Publishes(p, <<Update(x, was, m), Publish(k)>>)
<1> DEFINE c == C("update", x, m \ was, m \cap was, x, Every)
<1>1. Update(x, was, m) = Commit(c)
  BY Statements
<1>2. c.kind = "update" /\ c.row = x /\ c.gained = m \ was /\ c.lost = m \cap was
  BY DEF C
<1> HIDE DEF c
<1>3. ASSUME NEW D, Whole(D), ~ Refused(c, D)
      PROVE  Covers(p, c, D, Apply(c, D), Wanted(k, Apply(c, D)))
  <2>1. D[x] # {}
    BY <1>2, <1>3, RefusedIs
  <2>2. /\ Apply(c, D)[x] = (D[x] \cup (m \ was)) \ (m \cap was)
        /\ Same(D, Apply(c, D), Row \ {x})
    BY <1>2, <2>1, Applied DEF Changed_
  <2> QED  BY <1>3, <2>1, <2>2 DEF c
<1>4. ChangeOK(c) /\ c.kind # "also"
  BY <1>2, ColumnIs DEF ChangeOK
<1> QED  BY <1>1, <1>3, <1>4, TwoPublish

(* The rows that are gone after a deletion                                    *)
Gone(D, E, x) ==
    /\ D[x] # {} /\ E[x] = {}
    /\ Same(D, E, Row \ WithChildren({x}))
    /\ \A z \in Row : E[z] = D[z] \/ E[z] = {}

LEMMA DeletePublishes ==
    ASSUME NEW p, NEW x \in Row, NEW y, NEW was, NEW k,
           \A D, E : Whole(D) /\ Gone(D, E, x) /\ (x \in ListItem => D[x] = was)
                => Covers(p, C("delete", x, {}, {}, y, was), D, E, Wanted(k, E))
    PROVE  Publishes(p, <<DeleteWith(x, y, was), Publish(k)>>)
<1> DEFINE c == C("delete", x, {}, {}, y, was)
<1>1. DeleteWith(x, y, was) = Commit(c)
  BY Statements
<1>2. c.kind = "delete" /\ c.row = x /\ c.gained = {} /\ c.lost = {} /\ c.copy = was
  BY DEF C
<1> HIDE DEF c
<1>3. ASSUME NEW D, Whole(D), ~ Refused(c, D)
      PROVE  Covers(p, c, D, Apply(c, D), Wanted(k, Apply(c, D)))
  <2>1. D[x] # {} /\ (x \in ListItem => D[x] = was)
    BY <1>2, <1>3, RefusedIs
  <2>2. Gone(D, Apply(c, D), x)
    BY <1>2, <2>1, Applied DEF Gone
  <2> QED  BY <1>3, <2>1, <2>2 DEF c
<1>4. ChangeOK(c) /\ c.kind # "also"
  BY <1>2 DEF ChangeOK
<1> QED  BY <1>1, <1>3, <1>4, TwoPublish

LEMMA PlainDelete ==
    ASSUME NEW x
    PROVE  Delete(x) = DeleteWith(x, x, Every)
BY DEF Delete, DeleteWith, Change

-----------------------------------------------------------------------------
(* controllers/accounts                                                      *)

Elsewhere(p) == p \notin SignaturePages \cup DestinationPages \cup {"auth_settings"}

(* What a page that edits an account, or what belongs to it, has to publish.  *)
LEMMA UserCovered ==
    ASSUME NEW p, Elsewhere(p), NEW kind, NEW x, NEW gained, NEW lost, NEW copied, NEW copy,
           NEW D, NEW E, NEW u \in User, NEW tasks, NEW leaves,
           leaves = Leaves(p, C(kind, x, gained, lost, copied, copy), D),
           Same(D, E, Row \ ({u} \cup ChildrenOf(u, UserChild))),
           Same(D, E, ListItem) \/ Lists \cup EximLists \subseteq leaves,
           \A f \in Scored : \A col \in Tells(f) :
                \/ f \in tasks \cup leaves
                \/ col \notin D[u] /\ col \notin E[u]
                \/ /\ Same(D, E, ChildrenOf(u, Address))
                   /\ col \in D[u] <=> col \in E[u]
    PROVE  Covers(p, C(kind, x, gained, lost, copied, copy), D, E, tasks)
<1> SUFFICES ASSUME NEW f \in File \ (tasks \cup leaves)
             PROVE  Content(f, D) = Content(f, E)
    BY DEF Covers
<1>1. f \notin Signing
  BY LeavesAlways DEF Elsewhere
<1>2. CASE f \in Lists \cup EximLists
  <2>1. Same(D, E, RowsOf(f))
    BY <1>2, RowsOfIs
  <2>2. f \notin Rulesets
    BY <1>2 DEF Lists, EximLists, Rulesets
  <2> QED  BY <2>1, <2>2, RowsSame
<1>3. CASE f \notin Lists \cup EximLists
  <2>1. f \in Scored => \A col \in Tells(f) :
                \/ col \notin D[u] /\ col \notin E[u]
                \/ /\ Same(D, E, ChildrenOf(u, Address))
                   /\ col \in D[u] <=> col \in E[u]
    OBVIOUS
  <2>2. f \in Scored =>
                \/ Tells(f) \cap (D[u] \cup E[u]) = {}
                \/ /\ Same(D, E, ChildrenOf(u, Address))
                   /\ \A col \in Tells(f) : col \in D[u] <=> col \in E[u]
    BY <2>1
  <2> QED  BY <1>1, <1>3, <2>2, OfUser
<1> QED  BY <1>2, <1>3

LEMMA ScoredIs ==
    /\ Scored \subseteq Rulesets
    /\ \A f \in Scored : Tells(f) \subseteq Every /\ Tells(f) \subseteq ColumnOf[f] /\ "on" \notin Tells(f)
<1>1. Scored \subseteq Rulesets
  BY DEF Scored, ScoreFiles, Rulesets
<1> QED  BY <1>1, TellsIs DEF Every

LEMMA AccountMade ==
    ASSUME NEW u \in User, NEW m, m \subseteq {"on"} \cup Column(u)
    PROVE  Publishes("accounts_add", create_user(u, m))
<1> DEFINE k == [backend |-> "user", row |-> u, live |-> TRUE, marks |-> {}]
<1>1. ASSUME NEW D, NEW E, D[u] = {}, Same(D, E, Row \ {u})
      PROVE  Covers("accounts_add", C("insert", u, m, {}, u, Every), D, E, Wanted(k, E))
  <2>1. Same(D, E, Row \ ({u} \cup ChildrenOf(u, UserChild))) /\ Same(D, E, ListItem)
    BY <1>1, OneTable, RowIs DEF Same
  <2>2. Wanted(k, E) = backend_user_update(E[u])
    BY WantedIs DEF Marks
  <2>3. \A f \in Scored : \A col \in Tells(f) : f \in Wanted(k, E) \/ (col \notin D[u] /\ col \notin E[u])
    BY <1>1, <2>2, UserPublishes
  <2>4. Elsewhere("accounts_add")
    BY DEF Elsewhere, SignaturePages, DestinationPages
  <2> HIDE DEF k
  <2> QED  BY <2>1, <2>3, <2>4, UserCovered
<1>2. create_user(u, m) = <<Insert(u, m), Publish(k)>>
  BY DEF create_user, Live
<1> HIDE DEF k
<1> QED  BY <1>1, <1>2, InsertPublishes, RowIs

LEMMA AccountEdited ==
    ASSUME NEW u \in User, NEW was, NEW m, m \subseteq {"on"} \cup Column(u)
    PROVE  Publishes("accounts_edit", update_user(u, was, m))
<1> DEFINE k == [backend |-> "user", row |-> u, live |-> TRUE, marks |-> {}]
<1>1. ASSUME NEW D, NEW E, E[u] = (D[u] \cup (m \ was)) \ (m \cap was), Same(D, E, Row \ {u})
      PROVE  Covers("accounts_edit", C("update", u, m \ was, m \cap was, u, Every), D, E, Wanted(k, E))
  <2> DEFINE leaves == Leaves("accounts_edit", C("update", u, m \ was, m \cap was, u, Every), D)
  <2>1. Same(D, E, Row \ ({u} \cup ChildrenOf(u, UserChild))) /\ Same(D, E, ListItem)
        /\ Same(D, E, ChildrenOf(u, Address))
    BY <1>1, OneTable, RowIs DEF Same, ChildrenOf
  <2>2. Wanted(k, E) = backend_user_update(E[u])
    BY WantedIs DEF Marks
  <2>3. \A f \in Rulesets : \A col \in m \cap was : col \in ColumnOf[f] => f \in leaves
    BY LeavesLost
  <2> HIDE DEF leaves
  <2>4. ASSUME NEW f \in Scored, NEW col \in Tells(f), f \notin Wanted(k, E) \cup leaves
        PROVE  col \in D[u] <=> col \in E[u]
    <3>1. col \notin E[u]
      BY <2>2, <2>4, UserPublishes
    <3>2. col \notin m \cap was
      BY <2>3, <2>4, ScoredIs
    <3> QED  BY <1>1, <3>1, <3>2
  <2>5. Elsewhere("accounts_edit")
    BY DEF Elsewhere, SignaturePages, DestinationPages
  <2> HIDE DEF k
  <2> QED  BY <2>1, <2>4, <2>5, UserCovered DEF leaves
<1>2. update_user(u, was, m) = <<Update(u, was, m), Publish(k)>>
  BY DEF update_user, Live
<1> HIDE DEF k
<1> QED  BY <1>1, <1>2, UpdatePublishes, RowIs

LEMMA AccountDeleted ==
    ASSUME NEW u \in User, NEW was
    PROVE  /\ Publishes("accounts_delete", delete_user(u, was))
           /\ Publishes("accounts_confirm_delete", <<Delete(u), Forced("user", u)>>)
<1>1. ASSUME NEW p \in {"accounts_delete", "accounts_confirm_delete"}, NEW m
      PROVE  Publishes(p, <<DeleteWith(u, u, m), Copy("user", u, m)>>)
  <2> DEFINE k == [backend |-> "user", row |-> u, live |-> FALSE, marks |-> m]
             c == C("delete", u, {}, {}, u, m)
  <2>1. ASSUME NEW D, NEW E, Gone(D, E, u)
        PROVE  Covers(p, c, D, E, Wanted(k, E))
    <3> DEFINE leaves == Leaves(p, c, D)
    <3>1. Same(D, E, Row \ ({u} \cup ChildrenOf(u, UserChild)))
      BY <2>1, WithChildrenOf DEF Same, Gone
    <3>2. Wanted(k, E) = backend_user_update(m)
      BY WantedIs DEF Marks
    <3>3. \A f \in Rulesets : \A col \in D[u] : col \in ColumnOf[f] /\ col \notin m => f \in leaves
      BY LeavesCopied
    <3>4. Lists \cup EximLists \subseteq leaves
      BY DEF Leaves
    <3> HIDE DEF leaves
    <3>5. ASSUME NEW f \in Scored, NEW col \in Tells(f), f \notin Wanted(k, E) \cup leaves
          PROVE  col \notin D[u] /\ col \notin E[u]
      <4>1. col \notin m
        BY <3>2, <3>5, UserPublishes
      <4> QED  BY <2>1, <3>3, <3>5, <4>1, ScoredIs DEF Gone
    <3>6. Elsewhere(p)
      BY DEF Elsewhere, SignaturePages, DestinationPages
    <3> HIDE DEF k
    <3> QED  BY <3>1, <3>4, <3>5, <3>6, UserCovered DEF leaves
  <2>2. Copy("user", u, m) = Publish(k)
    BY DEF Copy
  <2> HIDE DEF k
  <2> QED  BY <2>1, <2>2, DeletePublishes, RowIs
<1>2. delete_user(u, was) = <<DeleteWith(u, u, was), Copy("user", u, was)>>
  BY DEF delete_user
<1>3. Forced("user", u) = Copy("user", u, Every)
  BY DEF Forced
<1> QED  BY <1>1, <1>2, <1>3, PlainDelete

(* A row of its own without anything published for it.                        *)
LEMMA SetPublishes ==
    ASSUME NEW p, NEW x \in Row, NEW m, m \subseteq {"on"}, NEW others, "row" \notin others,
           \A D, E : Same(D, E, Row \ {x})
                     /\ (E[x] = IF D[x] = {} THEN {} ELSE (D[x] \cup m) \ others)
                => Covers(p, C("set", x, m, others, x, Every), D, E, {})
    PROVE  Publishes(p, <<Set(x, m, others)>>)
<1> DEFINE c == C("set", x, m, others, x, Every)
<1>1. Set(x, m, others) = Commit(c)
  BY DEF Set, Change, ChangeBy, C
<1>2. c.kind = "set" /\ c.row = x /\ c.gained = m /\ c.lost = others
  BY DEF C
<1> HIDE DEF c
<1>3. ASSUME NEW D, Whole(D), ~ Refused(c, D)
      PROVE  Covers(p, c, D, Apply(c, D), {})
  <2>1. /\ Apply(c, D)[x] = IF D[x] = {} THEN {} ELSE (D[x] \cup m) \ others
        /\ Same(D, Apply(c, D), Row \ {x})
    BY <1>2, Applied DEF Changed_
  <2> QED  BY <2>1 DEF c
<1>4. ChangeOK(c) /\ c.kind # "also"
  BY <1>2 DEF ChangeOK
<1> QED  BY <1>1, <1>3, <1>4, OnePublishes

LEMMA AccountsIndex ==
    ASSUME NEW u \in User, NEW on \in {{}, {"on"}}
    PROVE  Publishes("accounts_index", <<Set(u, on, {"on"} \ on)>>)
<1>1. ASSUME NEW D, NEW E, Same(D, E, Row \ {u}),
             E[u] = IF D[u] = {} THEN {} ELSE (D[u] \cup on) \ ({"on"} \ on)
      PROVE  Covers("accounts_index", C("set", u, on, {"on"} \ on, u, Every), D, E, {})
  <2>1. /\ Same(D, E, Row \ ({u} \cup ChildrenOf(u, UserChild))) /\ Same(D, E, ListItem)
        /\ Same(D, E, ChildrenOf(u, Address))
    BY <1>1, OneTable, RowIs DEF Same, ChildrenOf
  <2>2. \A f \in Scored : \A col \in Tells(f) : col \in D[u] <=> col \in E[u]
    BY <1>1, ScoredIs
  <2>3. Elsewhere("accounts_index")
    BY DEF Elsewhere, SignaturePages, DestinationPages
  <2> QED  BY <2>1, <2>2, <2>3, UserCovered
<1> QED  BY <1>1, SetPublishes, RowIs

(* The pages of an address, which is published by the columns of its account. *)
LEMMA AddressCovered ==
    ASSUME NEW p, Elsewhere(p), NEW a \in Address, NEW kind, NEW gained, NEW lost, NEW y, NEW was,
           NEW D, NEW E, Same(D, E, Row \ {a}), NEW tasks,
           \A f \in Scored : \A col \in Tells(f) \cap D[Of[a]] :
                f \in tasks \cup Leaves(p, C(kind, a, gained, lost, y, was), D)
    PROVE  Covers(p, C(kind, a, gained, lost, y, was), D, E, tasks)
<1>1. Of[a] \in User /\ a \in ChildrenOf(Of[a], UserChild)
  BY DirectoryAssumption DEF UserChild, ChildrenOf
<1>2. /\ Same(D, E, Row \ ({Of[a]} \cup ChildrenOf(Of[a], UserChild)))
      /\ Same(D, E, ListItem) /\ D[Of[a]] = E[Of[a]]
  BY <1>1, OneTable, RowIs DEF Same
<1> DEFINE u == Of[a]
<1>3. \A f \in Scored : \A col \in Tells(f) :
                \/ f \in tasks \cup Leaves(p, C(kind, a, gained, lost, y, was), D)
                \/ col \notin D[u] /\ col \notin E[u]
  BY <1>2
<1> HIDE DEF u
<1>4. u \in User /\ Same(D, E, Row \ ({u} \cup ChildrenOf(u, UserChild)))
  BY <1>1, <1>2 DEF u
<1> QED  BY <1>2, <1>3, <1>4, UserCovered

LEMMA AddressPages ==
    ASSUME NEW a \in Address, NEW m, m \subseteq {"on"} \cup Column(a), NEW was, NEW owner
    PROVE  /\ Publishes("addaddress", create_address(a, m))
           /\ Publishes("editaddress", update_address(a, was, m))
           /\ Publishes("deleteaddress", delete_address(a, owner))
<1> DEFINE live == [backend |-> "user", row |-> Of[a], live |-> TRUE, marks |-> {}]
           copy == [backend |-> "user", row |-> Of[a], live |-> FALSE, marks |-> owner]
<1>1. /\ Elsewhere("addaddress") /\ Elsewhere("editaddress") /\ Elsewhere("deleteaddress")
  BY DEF Elsewhere, SignaturePages, DestinationPages
<1>2. Of[a] \in User /\ Of[a] \in Row \ {a}
  BY DirectoryAssumption, OneTable, RowIs DEF UserChild
<1>3. ASSUME NEW D, NEW E, Same(D, E, Row \ {a})
      PROVE  \A f \in Scored : \A col \in Tells(f) \cap D[Of[a]] : f \in Wanted(live, E)
  <2>1. Wanted(live, E) = backend_user_update(E[Of[a]]) /\ E[Of[a]] = D[Of[a]]
    BY <1>2, <1>3, WantedIs DEF Marks, Same
  <2> QED  BY <2>1, UserPublishes
<1>4. \A D : Wanted(copy, D) = backend_user_update(owner)
  BY WantedIs DEF Marks
<1>5. ASSUME NEW D, NEW E, Same(D, E, Row \ {a})
      PROVE  Covers("deleteaddress", C("delete", a, {}, {}, Of[a], owner), D, E, Wanted(copy, E))
  <2>1. ASSUME NEW f \in Scored, NEW col \in Tells(f) \cap D[Of[a]]
        PROVE  f \in Wanted(copy, E)
                 \cup Leaves("deleteaddress", C("delete", a, {}, {}, Of[a], owner), D)
    <3>1. CASE col \in owner
      BY <1>4, <3>1, UserPublishes
    <3>2. CASE col \notin owner
      <4>1. f \in Rulesets /\ col \in D[Of[a]] /\ col \in ColumnOf[f]
        BY ScoredIs
      <4> QED  BY <3>2, <4>1, LeavesCopied
    <3> QED  BY <3>1, <3>2
  <2> HIDE DEF copy
  <2> QED  BY <1>1, <1>5, <2>1, AddressCovered
<1>6. /\ create_address(a, m) = <<Insert(a, m), Publish(live)>>
      /\ update_address(a, was, m) = <<Update(a, was, m), Publish(live)>>
      /\ delete_address(a, owner) = <<DeleteWith(a, Of[a], owner), Publish(copy)>>
  BY DEF create_address, update_address, delete_address, Live, Copy
<1> HIDE DEF live, copy
<1>7. \A D, E : Same(D, E, Row \ {a})
        => /\ Covers("addaddress", C("insert", a, m, {}, a, Every), D, E, Wanted(live, E))
           /\ Covers("editaddress", C("update", a, m \ was, m \cap was, a, Every), D, E, Wanted(live, E))
  BY <1>1, <1>3, AddressCovered
<1>8. \A D, E : Gone(D, E, a) => Same(D, E, Row \ {a})
  <2>1. WithChildren({a}) = {a}
    BY WithChildrenOf, OneTable, RowIs
  <2> QED  BY <2>1 DEF Gone
<1> QED  BY <1>5, <1>6, <1>7, <1>8, InsertPublishes, UpdatePublishes, DeletePublishes, RowIs

-----------------------------------------------------------------------------
(* controllers/domains                                                       *)

LEMMA DomainCovered ==
    ASSUME NEW p, Elsewhere(p), NEW c, NEW D, NEW E, NEW d \in Domain, NEW tasks,
           Same(D, E, Row \ ({d} \cup ChildrenOf(d, DomainChild) \cup LDAPSettings)),
           NEW m, update_domain_backend(m) \subseteq tasks,
           \A f \in Rulesets : \A col \in Tells(f) :
                f \in tasks \cup Leaves(p, c, D) \/ (col \notin D[d] /\ col \notin E[d])
    PROVE  Covers(p, c, D, E, tasks)
<1> SUFFICES ASSUME NEW f \in File \ (tasks \cup Leaves(p, c, D))
             PROVE  Content(f, D) = Content(f, E)
    BY DEF Covers
<1>1. /\ Signing \subseteq Leaves(p, c, D) /\ "create_ldap_data" \in Leaves(p, c, D)
      /\ Protocol(TRUE) \cup Protocol(FALSE) \subseteq Leaves(p, c, D)
  BY LeavesAlways DEF Elsewhere
<1>2. f \notin EximDomains \cup EximRoutes
  BY <1>1, DomainPublishes
<1>3. f \in EximRelay \cup Lists \cup EximLists \cup Rulesets
  BY <1>1, <1>2 DEF File
<1>4. f \in Rulesets => Tells(f) \cap (D[d] \cup E[d]) = {}
  <2>1. f \in Rulesets => \A col \in Tells(f) : col \notin D[d] /\ col \notin E[d]
    OBVIOUS
  <2> QED  BY <2>1
<1> QED  BY <1>3, <1>4, OfDomain

LEMMA DomainMade ==
    ASSUME NEW d \in Domain, NEW m, m \subseteq {"on"} \cup Column(d)
    PROVE  Publishes("domains_add", create_domain(d, m))
<1> DEFINE k == [backend |-> "domain", row |-> d, live |-> TRUE, marks |-> {}]
           c == C("insert", d, m, {}, d, Every)
<1>1. ASSUME NEW D, NEW E, D[d] = {}, Same(D, E, Row \ {d})
      PROVE  Covers("domains_add", c, D, E, Wanted(k, E))
  <2>1. Same(D, E, Row \ ({d} \cup ChildrenOf(d, DomainChild) \cup LDAPSettings))
    BY <1>1 DEF Same
  <2>2. Wanted(k, E) = update_domain_backend(E[d])
    BY WantedIs DEF Marks
  <2>3. \A f \in Rulesets : \A col \in Tells(f) : f \in Wanted(k, E) \/ (col \notin D[d] /\ col \notin E[d])
    BY <1>1, <2>2, DomainPublishes
  <2>4. Elsewhere("domains_add")
    BY DEF Elsewhere, SignaturePages, DestinationPages
  <2> HIDE DEF k, c
  <2> QED  BY <2>1, <2>2, <2>3, <2>4, DomainCovered
<1>2. create_domain(d, m) = <<Insert(d, m), Publish(k)>>
  BY DEF create_domain, Live
<1> HIDE DEF k
<1> QED  BY <1>1, <1>2, InsertPublishes, RowIs

LEMMA EveryDomainFile ==
    \A f \in Rulesets : f \in update_domain_backend(Every)
BY TellsIs, DomainPublishes

LEMMA DomainEdited ==
    ASSUME NEW d \in Domain, NEW was, NEW m, m \subseteq {"on"} \cup Column(d)
    PROVE  Publishes("domains_edit", update_domain(d, was, m))
<1> DEFINE k == [backend |-> "domain", row |-> d, live |-> FALSE, marks |-> Every]
           c == C("update", d, m \ was, m \cap was, d, Every)
<1>1. ASSUME NEW D, NEW E, Same(D, E, Row \ {d})
      PROVE  Covers("domains_edit", c, D, E, Wanted(k, E))
  <2>1. Same(D, E, Row \ ({d} \cup ChildrenOf(d, DomainChild) \cup LDAPSettings))
    BY <1>1 DEF Same
  <2>2. Wanted(k, E) = update_domain_backend(Every)
    BY WantedIs DEF Marks
  <2>3. Elsewhere("domains_edit")
    BY DEF Elsewhere, SignaturePages, DestinationPages
  <2> HIDE DEF k, c
  <2> QED  BY <2>1, <2>2, <2>3, DomainCovered, EveryDomainFile
<1>2. update_domain(d, was, m) = <<Update(d, was, m), Publish(k)>>
  BY DEF update_domain, Forced, Copy
<1> HIDE DEF k
<1> QED  BY <1>1, <1>2, UpdatePublishes, RowIs

LEMMA DomainDeleted ==
    ASSUME NEW d \in Domain, NEW was
    PROVE  /\ Publishes("domains_delete", delete_domain(d, was))
           /\ Publishes("domains_confirm_delete", <<Delete(d), Forced("domain", d)>>)
<1>1. ASSUME NEW p \in {"domains_delete", "domains_confirm_delete"}, NEW m
      PROVE  Publishes(p, <<DeleteWith(d, d, m), Copy("domain", d, m)>>)
  <2> DEFINE k == [backend |-> "domain", row |-> d, live |-> FALSE, marks |-> m]
             c == C("delete", d, {}, {}, d, m)
  <2>1. ASSUME NEW D, NEW E, Gone(D, E, d)
        PROVE  Covers(p, c, D, E, Wanted(k, E))
    <3>1. Same(D, E, Row \ ({d} \cup ChildrenOf(d, DomainChild) \cup LDAPSettings))
      BY <2>1, WithChildrenOf DEF Same, Gone
    <3>2. Wanted(k, E) = update_domain_backend(m)
      BY WantedIs DEF Marks
    <3>3. \A f \in Rulesets : \A col \in D[d] : col \in ColumnOf[f] /\ col \notin m => f \in Leaves(p, c, D)
      BY LeavesCopied
    <3>4. ASSUME NEW f \in Rulesets, NEW col \in Tells(f), f \notin Wanted(k, E) \cup Leaves(p, c, D)
          PROVE  col \notin D[d] /\ col \notin E[d]
      <4>1. col \notin m
        BY <3>2, <3>4, DomainPublishes
      <4> QED  BY <2>1, <3>3, <3>4, <4>1, TellsIs DEF Gone
    <3>5. Elsewhere(p)
      BY DEF Elsewhere, SignaturePages, DestinationPages
    <3> HIDE DEF k, c
    <3> QED  BY <3>1, <3>2, <3>4, <3>5, DomainCovered
  <2>2. Copy("domain", d, m) = Publish(k)
    BY DEF Copy
  <2> HIDE DEF k
  <2> QED  BY <2>1, <2>2, DeletePublishes, RowIs
<1>2. delete_domain(d, was) = <<DeleteWith(d, d, was), Copy("domain", d, was)>>
  BY DEF delete_domain
<1>3. Forced("domain", d) = Copy("domain", d, Every)
  BY DEF Forced
<1> QED  BY <1>1, <1>2, <1>3, PlainDelete

(* The bulk form of the domains, and the deletion of an organization, publish *)
(* nothing.                                                                   *)
LEMMA AllLeft ==
    ASSUME NEW p \in {"domains_index", "organizations_delete"}, NEW c, NEW D, NEW E, NEW tasks
    PROVE  Covers(p, c, D, E, tasks)
<1>1. File \subseteq Leaves(p, c, D)
  BY DEF Leaves
<1> QED  BY <1>1 DEF Covers

LEMMA DomainsIndex ==
    ASSUME NEW d \in Domain, NEW on \in {{}, {"on"}}
    PROVE  Publishes("domains_index", <<Set(d, on, {"on"} \ on)>>)
BY AllLeft, SetPublishes, RowIs

LEMMA AliasCovered ==
    ASSUME NEW p, Elsewhere(p), NEW a \in Alias, NEW c, NEW D, NEW E, Same(D, E, Row \ {a}), NEW tasks,
           NEW m, update_domain_backend(m) \subseteq tasks,
           \A f \in Rulesets : \A col \in Tells(f) \cap D[Of[a]] : f \in tasks \cup Leaves(p, c, D)
    PROVE  Covers(p, c, D, E, tasks)
<1>1. Of[a] \in Domain /\ a \in ChildrenOf(Of[a], DomainChild)
  BY DirectoryAssumption DEF DomainChild, ChildrenOf
<1>2. Same(D, E, Row \ ({Of[a]} \cup ChildrenOf(Of[a], DomainChild) \cup LDAPSettings))
      /\ D[Of[a]] = E[Of[a]]
  BY <1>1, OneTable, RowIs DEF Same
<1> QED  BY <1>1, <1>2, DomainCovered

LEMMA AliasPages ==
    ASSUME NEW a \in Alias, NEW m, m \subseteq {"on"} \cup Column(a), NEW was, NEW parent
    PROVE  /\ Publishes("addalias", create_alias(a, m))
           /\ Publishes("editalias", edit_alias(a, was, m))
           /\ Publishes("deletealias", delete_alias(a, parent))
<1> DEFINE live == [backend |-> "domain", row |-> Of[a], live |-> TRUE, marks |-> {}]
           copy == [backend |-> "domain", row |-> Of[a], live |-> FALSE, marks |-> parent]
<1>1. /\ Elsewhere("addalias") /\ Elsewhere("editalias") /\ Elsewhere("deletealias")
  BY DEF Elsewhere, SignaturePages, DestinationPages
<1>2. Of[a] \in Domain /\ Of[a] \in Row \ {a}
  BY DirectoryAssumption, OneTable, RowIs DEF DomainChild
<1>3. ASSUME NEW D, NEW E, Same(D, E, Row \ {a})
      PROVE  /\ Wanted(live, E) = update_domain_backend(E[Of[a]])
             /\ \A f \in Rulesets : \A col \in Tells(f) \cap D[Of[a]] : f \in Wanted(live, E)
  <2>1. Wanted(live, E) = update_domain_backend(E[Of[a]]) /\ E[Of[a]] = D[Of[a]]
    BY <1>2, <1>3, WantedIs DEF Marks, Same
  <2> QED  BY <2>1, DomainPublishes
<1>4. \A D : Wanted(copy, D) = update_domain_backend(parent)
  BY WantedIs DEF Marks
<1>5. ASSUME NEW D, NEW E, Same(D, E, Row \ {a})
      PROVE  Covers("deletealias", C("delete", a, {}, {}, Of[a], parent), D, E, Wanted(copy, E))
  <2>1. ASSUME NEW f \in Rulesets, NEW col \in Tells(f) \cap D[Of[a]]
        PROVE  f \in Wanted(copy, E)
                 \cup Leaves("deletealias", C("delete", a, {}, {}, Of[a], parent), D)
    <3>1. CASE col \in parent
      BY <1>4, <3>1, DomainPublishes
    <3>2. CASE col \notin parent
      <4>1. col \in D[Of[a]] /\ col \in ColumnOf[f]
        BY TellsIs
      <4> QED  BY <3>2, <4>1, LeavesCopied
    <3> QED  BY <3>1, <3>2
  <2> HIDE DEF copy
  <2> QED  BY <1>1, <1>4, <1>5, <2>1, AliasCovered
<1>6. /\ create_alias(a, m) = <<Insert(a, m), Publish(live)>>
      /\ edit_alias(a, was, m) = <<Update(a, was, m), Publish(live)>>
      /\ delete_alias(a, parent) = <<DeleteWith(a, Of[a], parent), Publish(copy)>>
  BY DEF create_alias, edit_alias, delete_alias, Live, Copy
<1> HIDE DEF live, copy
<1>7. ASSUME NEW D, NEW E, Same(D, E, Row \ {a}), NEW c
      PROVE  /\ Covers("addalias", c, D, E, Wanted(live, E))
             /\ Covers("editalias", c, D, E, Wanted(live, E))
  <2>1. update_domain_backend(E[Of[a]]) \subseteq Wanted(live, E)
    BY <1>3, <1>7
  <2>2. \A f \in Rulesets : \A col \in Tells(f) \cap D[Of[a]] : f \in Wanted(live, E)
    BY <1>3, <1>7
  <2> QED  BY <1>1, <1>7, <2>1, <2>2, AliasCovered
<1>8. \A D, E : Gone(D, E, a) => Same(D, E, Row \ {a})
  <2>1. WithChildren({a}) = {a}
    BY WithChildrenOf, OneTable, RowIs
  <2> QED  BY <2>1 DEF Gone
<1> QED  BY <1>5, <1>6, <1>7, <1>8, InsertPublishes, UpdatePublishes, DeletePublishes, RowIs

(* Rows by which no file of these pages but those named is made.              *)
LEMMA RowsRead ==
    /\ \A f \in File \ (Rulesets \cup EximRoutes) : RowsOf(f) \cap Destination = {}
    /\ \A f \in File \ (Rulesets \cup {"create_ldap_data"}) : RowsOf(f) \cap (AuthServer \cup LDAPSettings) = {}
    /\ \A f \in File \ Rulesets : RowsOf(f) \cap Organization = {}
    /\ \A f \in File \ (Rulesets \cup Lists \cup EximLists) : RowsOf(f) \cap ListItem = {}
<1>1. HTML \subseteq DomSignature \cup UserSignature
  BY DirectoryAssumption
<1>2. \A f \in EximRelay \cup EximDomains :
        RowsOf(f) \cap (Organization \cup Destination \cup AuthServer \cup LDAPSettings \cup ListItem) = {}
  BY OneTable, RowsOfIs
<1>3. \A f \in EximLists \cup Lists :
        RowsOf(f) \cap (Organization \cup Destination \cup AuthServer \cup LDAPSettings) = {}
  BY OneTable, RowsOfIs
<1>4. \A f \in EximRoutes : RowsOf(f) \cap (Organization \cup AuthServer \cup LDAPSettings \cup ListItem) = {}
  BY OneTable, RowsOfIs
<1>5. RowsOf("create_ldap_data") \cap (Organization \cup Destination \cup ListItem) = {}
  BY OneTable, RowsOfIs
<1>6. \A f \in Signing :
        RowsOf(f) \cap (Organization \cup Destination \cup AuthServer \cup LDAPSettings \cup ListItem) = {}
  BY <1>1, OneTable, RowsOfIs
<1> QED  BY <1>2, <1>3, <1>4, <1>5, <1>6 DEF File

LEMMA DestinationCovered ==
    ASSUME NEW p \in DestinationPages, NEW c, NEW D, NEW E, NEW s \in Destination, NEW tasks,
           Same(D, E, Row \ {s}), NEW m, update_destination_backend(m) \subseteq tasks,
           \A b \in BOOLEAN :
                \/ Protocol(b) \subseteq tasks \cup Leaves(p, c, D)
                \/ /\ "on" \in D[s] => ("lmtp" \in D[s]) # b
                   /\ "on" \in E[s] => ("lmtp" \in E[s]) # b
    PROVE  Covers(p, c, D, E, tasks)
<1> SUFFICES ASSUME NEW f \in File \ (tasks \cup Leaves(p, c, D))
             PROVE  Content(f, D) = Content(f, E)
    BY DEF Covers
<1>1. ASSUME NEW b \in BOOLEAN, f \in Protocol(b)
      PROVE  Content(f, D) = Content(f, E)
  <2>1. /\ "on" \in D[s] => ("lmtp" \in D[s]) # b
        /\ "on" \in E[s] => ("lmtp" \in E[s]) # b
    BY <1>1
  <2>2. Same(D, E, Domain \cup Alias)
    BY OneTable, RowIs DEF Same
  <2>3. \A x \in Destination : x # s => D[x] = E[x]
    BY RowIs DEF Same
  <2>4. create_relay_proto_domains(D, b) = create_relay_proto_domains(E, b)
    BY <2>1, <2>2, <2>3, ProtocolSame
  <2>5. CASE b = TRUE
    BY <1>1, <2>4, <2>5, ContentIs DEF Protocol
  <2>6. CASE b = FALSE
    BY <1>1, <2>4, <2>6, ContentIs DEF Protocol
  <2> QED  BY <2>5, <2>6
<1>2. {"create_callback_domains", "create_ldap_domains"} \subseteq Leaves(p, c, D)
  BY DEF Leaves
<1>3. f \in EximRoutes => f \in Protocol(TRUE) \cup Protocol(FALSE)
  BY <1>2 DEF EximRoutes, Protocol, update_destination_backend
<1>4. CASE f \notin EximRoutes
  <2>1. f \in Rulesets \/ Same(D, E, RowsOf(f))
    BY <1>4, RowsRead, RowsOfRow DEF Same
  <2>2. Same(D, E, Domain \cup Alias \cup User \cup Address \cup Relay)
    BY OneTable, RowIs DEF Same
  <2> QED  BY <2>1, <2>2, OfOther
<1>5. \A b \in BOOLEAN : f \in Protocol(b) => Content(f, D) = Content(f, E)
  BY <1>1
<1>6. /\ f \in Protocol(TRUE) => Content(f, D) = Content(f, E)
      /\ f \in Protocol(FALSE) => Content(f, D) = Content(f, E)
  BY <1>5, Zenon
<1> QED  BY <1>3, <1>4, <1>6

LEMMA ServerProtocol ==
    ASSUME NEW m
    PROVE  Protocol("lmtp" \in m) \subseteq update_destination_backend(m)
BY DEF Protocol, update_destination_backend

LEMMA DestinationMade ==
    ASSUME NEW s \in Destination, NEW m, m \subseteq {"on"} \cup Column(s)
    PROVE  Publishes("adddestination", create_destination(s, m))
<1> DEFINE k == [backend |-> "destination", row |-> s, live |-> TRUE, marks |-> {}]
           c == C("insert", s, m, {}, s, Every)
<1>1. ASSUME NEW D, NEW E, D[s] = {}, E[s] = {"row"} \cup m, Same(D, E, Row \ {s})
      PROVE  Covers("adddestination", c, D, E, Wanted(k, E))
  <2>1. Wanted(k, E) = update_destination_backend(E[s])
    BY <1>1, WantedIs DEF Marks
  <2>2. "adddestination" \in DestinationPages
    BY DEF DestinationPages
  <2>3. ASSUME NEW b \in BOOLEAN, b # ("lmtp" \in E[s])
        PROVE  /\ "on" \in D[s] => ("lmtp" \in D[s]) # b
               /\ "on" \in E[s] => ("lmtp" \in E[s]) # b
    BY <1>1, <2>3
  <2>4. ASSUME NEW b \in BOOLEAN, b = ("lmtp" \in E[s])
        PROVE  Protocol(b) \subseteq Wanted(k, E)
    BY <2>1, <2>4, ServerProtocol
  <2> HIDE DEF k, c
  <2> QED  BY <1>1, <2>1, <2>2, <2>3, <2>4, DestinationCovered
<1>2. create_destination(s, m) = <<Insert(s, m), Publish(k)>>
  BY DEF create_destination, Live
<1> HIDE DEF k
<1> QED  BY <1>1, <1>2, InsertPublishes, RowIs

LEMMA DestinationEdited ==
    ASSUME NEW s \in Destination, NEW was, NEW m, m \subseteq {"on"} \cup Column(s)
    PROVE  Publishes("editdestination", update_destination(s, was, m))
<1> DEFINE k == [backend |-> "destination", row |-> s, live |-> TRUE, marks |-> {}]
           c == C("update", s, m \ was, m \cap was, s, Every)
<1>1. ASSUME NEW D, NEW E, Whole(D), D[s] # {}, E[s] = (D[s] \cup (m \ was)) \ (m \cap was),
             Same(D, E, Row \ {s})
      PROVE  Covers("editdestination", c, D, E, Wanted(k, E))
  <2>1. Wanted(k, E) = update_destination_backend(E[s])
    <3>1. "row" \in E[s]
      BY <1>1, ColumnIs, RowIs DEF Whole
    <3> QED  BY <3>1, WantedIs DEF Marks
  <2>2. "editdestination" \in DestinationPages
    BY DEF DestinationPages
  <2>3. c.row = s
    BY DEF C
  <2> HIDE DEF k, c
  <2>4. Protocol("lmtp" \in D[s]) \subseteq Leaves("editdestination", c, D)
    BY <2>3 DEF Leaves
  <2>5. Protocol("lmtp" \in E[s]) \subseteq Wanted(k, E)
    BY <2>1, ServerProtocol
  <2>6. ASSUME NEW b \in BOOLEAN
        PROVE  \/ Protocol(b) \subseteq Wanted(k, E) \cup Leaves("editdestination", c, D)
               \/ ("lmtp" \in D[s]) # b /\ ("lmtp" \in E[s]) # b
    <3>1. CASE b = ("lmtp" \in D[s])
      BY <2>4, <3>1
    <3>2. CASE b = ("lmtp" \in E[s])
      BY <2>5, <3>2
    <3> QED  BY <3>1, <3>2
  <2> QED  BY <1>1, <2>1, <2>2, <2>6, DestinationCovered
<1>2. update_destination(s, was, m) = <<Update(s, was, m), Publish(k)>>
  BY DEF update_destination, Live
<1> HIDE DEF k
<1> QED  BY <1>1, <1>2, UpdatePublishes, RowIs

LEMMA DestinationDeleted ==
    ASSUME NEW s \in Destination, NEW was
    PROVE  Publishes("deletedestination", delete_destination(s, was))
<1> DEFINE k == [backend |-> "destination", row |-> s, live |-> FALSE, marks |-> was]
           c == C("delete", s, {}, {}, s, was)
<1>1. ASSUME NEW D, NEW E, Gone(D, E, s)
      PROVE  Covers("deletedestination", c, D, E, Wanted(k, E))
  <2>1. Wanted(k, E) = update_destination_backend(was)
    BY WantedIs DEF Marks
  <2>2. "deletedestination" \in DestinationPages
    BY DEF DestinationPages
  <2>3. c.row = s /\ c.copy = was
    BY DEF C
  <2> HIDE DEF k, c
  <2>4. ("lmtp" \in was) # ("lmtp" \in D[s])
            => Protocol("lmtp" \in D[s]) \subseteq Leaves("deletedestination", c, D)
    BY <2>3 DEF Leaves
  <2>5. Protocol("lmtp" \in was) \subseteq Wanted(k, E)
    BY <2>1, ServerProtocol
  <2>6. ASSUME NEW b \in BOOLEAN
        PROVE  \/ Protocol(b) \subseteq Wanted(k, E) \cup Leaves("deletedestination", c, D)
               \/ ("lmtp" \in D[s]) # b
    <3>1. CASE b = ("lmtp" \in was)
      BY <2>5, <3>1
    <3>2. CASE b # ("lmtp" \in was) /\ b = ("lmtp" \in D[s])
      BY <2>4, <3>2
    <3> QED  BY <3>1, <3>2
  <2>7. Same(D, E, Row \ {s}) /\ "on" \notin E[s]
    <3>1. WithChildren({s}) = {s}
      BY WithChildrenOf, OneTable, RowIs
    <3> QED  BY <1>1, <3>1 DEF Gone
  <2> QED  BY <2>1, <2>2, <2>6, <2>7, DestinationCovered
<1>2. delete_destination(s, was) = <<DeleteWith(s, s, was), Publish(k)>>
  BY DEF delete_destination, Copy
<1> HIDE DEF k
<1> QED  BY <1>1, <1>2, DeletePublishes, RowIs

(* LDAP servers and their settings, from which only the LDAP data are made.   *)
LEMMA ServerCovered ==
    ASSUME NEW p, NEW c, NEW D, NEW E, NEW tasks,
           Same(D, E, Row \ (AuthServer \cup LDAPSettings)),
           "create_ldap_data" \in tasks \cup Leaves(p, c, D)
    PROVE  Covers(p, c, D, E, tasks)
<1> SUFFICES ASSUME NEW f \in File \ (tasks \cup Leaves(p, c, D))
             PROVE  Content(f, D) = Content(f, E)
    BY DEF Covers
<1>1. f \in Rulesets \/ Same(D, E, RowsOf(f))
  BY RowsRead, RowsOfRow DEF Same
<1>2. Same(D, E, Domain \cup Alias \cup User \cup Address \cup Relay)
  BY OneTable, RowIs DEF Same
<1> QED  BY <1>1, <1>2, OfOther

LEMMA ServerPages ==
    ASSUME NEW h \in AuthServer, NEW m, m \subseteq {"on"} \cup Column(h), NEW was
    PROVE  /\ Publishes("domains_add_auth", create_auth(h, m))
           /\ Publishes("domains_edit_auth", edit_auth(h, was, m))
           /\ Publishes("domains_delete_auth", delete_auth(h, was))
<1> DEFINE live == [backend |-> "auth", row |-> h, live |-> TRUE, marks |-> {}]
           copy == [backend |-> "auth", row |-> h, live |-> FALSE, marks |-> was]
<1>1. ASSUME NEW p \in {"domains_add_auth", "domains_edit_auth", "domains_delete_auth"},
             NEW c, NEW D, NEW E, NEW tasks, Same(D, E, Row \ (AuthServer \cup LDAPSettings))
      PROVE  Covers(p, c, D, E, tasks)
  <2>1. "create_ldap_data" \in Leaves(p, c, D)
    BY LeavesAlways
  <2> QED  BY <1>1, <2>1, ServerCovered
<1>2. \A D, E : Same(D, E, Row \ {h}) => Same(D, E, Row \ (AuthServer \cup LDAPSettings))
  BY DEF Same
<1>3. \A D, E : Gone(D, E, h) => Same(D, E, Row \ (AuthServer \cup LDAPSettings))
  BY WithChildrenOf DEF Gone, Same
<1>4. /\ create_auth(h, m) = <<Insert(h, m), Publish(live)>>
      /\ edit_auth(h, was, m) = <<Update(h, was, m), Publish(live)>>
      /\ delete_auth(h, was) = <<DeleteWith(h, h, Every), Publish(copy)>>
  BY PlainDelete DEF create_auth, edit_auth, delete_auth, Live, Copy
<1> HIDE DEF live, copy
<1>5. h \in Row /\ h \notin ListItem
  BY OneTable, RowIs
<1>6. Publishes("domains_add_auth", create_auth(h, m))
  BY <1>1, <1>2, <1>4, <1>5, InsertPublishes
<1>7. Publishes("domains_edit_auth", edit_auth(h, was, m))
  BY <1>1, <1>2, <1>4, <1>5, UpdatePublishes
<1>8. Publishes("domains_delete_auth", delete_auth(h, was))
  BY <1>1, <1>3, <1>4, <1>5, DeletePublishes
<1> QED  BY <1>6, <1>7, <1>8

LEMMA LdapPages ==
    ASSUME NEW l \in LDAPSettings, NEW m, m \subseteq {"on"} \cup Column(l), NEW was
    PROVE  /\ Publishes("auth_settings", <<Insert(l, m), Copy("ldap", l, {})>>)
           /\ Publishes("auth_settings", <<Update(l, was, m), Copy("ldap", l, {})>>)
<1> DEFINE k == [backend |-> "ldap", row |-> l, live |-> FALSE, marks |-> {}]
<1>1. \A D : "create_ldap_data" \in Wanted(k, D)
  BY WantedIs DEF update_ldap_backend
<1>2. Copy("ldap", l, {}) = Publish(k)
  BY DEF Copy
<1> HIDE DEF k
<1>3. ASSUME NEW c, NEW D, NEW E, Same(D, E, Row \ {l})
      PROVE  Covers("auth_settings", c, D, E, Wanted(k, E))
  <2>1. Same(D, E, Row \ (AuthServer \cup LDAPSettings))
    BY <1>3 DEF Same
  <2> QED  BY <1>1, <2>1, ServerCovered
<1>4. l \in Row
  BY RowIs
<1>5. Publishes("auth_settings", <<Insert(l, m), Publish(k)>>)
  BY <1>3, <1>4, InsertPublishes
<1>6. Publishes("auth_settings", <<Update(l, was, m), Publish(k)>>)
  BY <1>3, <1>4, UpdatePublishes
<1> QED  BY <1>2, <1>5, <1>6

-----------------------------------------------------------------------------
(* controllers/organizations                                                 *)

LEMMA OrganizationPages ==
    ASSUME NEW o \in Organization
    PROVE  /\ Publishes("organizations_new", create_org(o))
           /\ \A b \in BOOLEAN : Publishes("organizations_delete", delete_org(o, b))
<1>1. o \in Row /\ o \notin ListItem
  BY OneTable, RowIs
<1>2. Publishes("organizations_new", create_org(o))
  <2> DEFINE c == C("insert", o, {}, {}, o, Every)
  <2>1. create_org(o) = <<Commit(c)>>
    BY Statements DEF create_org
  <2>2. c.kind = "insert" /\ c.row = o /\ c.gained = {} /\ c.lost = {}
    BY DEF C
  <2> HIDE DEF c
  <2>3. ASSUME NEW D, NEW E, Same(D, E, Row \ {o})
        PROVE  Covers("organizations_new", c, D, E, {})
    <3> SUFFICES ASSUME NEW f \in File
                 PROVE  Content(f, D) = Content(f, E)
        BY DEF Covers
    <3>1. f \in Rulesets \/ Same(D, E, RowsOf(f))
      BY <2>3, RowsRead, RowsOfRow DEF Same
    <3>2. Same(D, E, Domain \cup Alias \cup User \cup Address \cup Relay)
      BY <2>3, OneTable, RowIs DEF Same
    <3> QED  BY <3>1, <3>2, OfOther
  <2>4. \A D : Same(D, Apply(c, D), Row \ {o})
    BY <1>1, <2>2, Applied DEF Made_
  <2>5. ChangeOK(c) /\ c.kind # "also"
    BY <1>1, <2>2 DEF ChangeOK
  <2> QED  BY <2>1, <2>3, <2>4, <2>5, OnePublishes
<1>3. ASSUME NEW kind \in {"delete", "delete_all"}
      PROVE  Publishes("organizations_delete", <<Commit(C(kind, o, {}, {}, o, Every))>>)
  <2> DEFINE c == C(kind, o, {}, {}, o, Every)
  <2>1. c.kind = kind /\ c.row = o /\ c.gained = {} /\ c.lost = {}
    BY DEF C
  <2> HIDE DEF c
  <2>2. ChangeOK(c) /\ c.kind # "also"
    BY <1>1, <2>1 DEF ChangeOK
  <2>3. Publishes("organizations_delete", <<Commit(c)>>)
    BY <2>2, AllLeft, OnePublishes
  <2> QED  BY <2>3 DEF c
<1>4. Delete(o) = Commit(C("delete", o, {}, {}, o, Every))
      /\ DeleteAll(o) = Commit(C("delete_all", o, {}, {}, o, Every))
  BY Statements
<1>5. Publishes("organizations_delete", <<Delete(o)>>) /\ Publishes("organizations_delete", <<DeleteAll(o)>>)
  BY <1>3, <1>4
<1>6. \A b \in BOOLEAN : Publishes("organizations_delete", delete_org(o, b))
  <2> TAKE b \in BOOLEAN
  <2>1. CASE b
    BY <1>5, <2>1 DEF delete_org
  <2>2. CASE ~ b
    BY <1>5, <2>2 DEF delete_org
  <2> QED  BY <2>1, <2>2
<1> QED  BY <1>2, <1>6

LEMMA RelayCovered ==
    ASSUME NEW p, NEW c, NEW D, NEW E, NEW y \in Relay, NEW tasks, Same(D, E, Row \ {y}),
           EximRelay \subseteq tasks,
           \A f \in OfHosts : \A col \in Tells(f) :
                \/ f \in tasks \cup Leaves(p, c, D)
                \/ HasLine(D, y, col) <=> HasLine(E, y, col)
    PROVE  Covers(p, c, D, E, tasks)
<1> SUFFICES ASSUME NEW f \in File \ (tasks \cup Leaves(p, c, D))
             PROVE  Content(f, D) = Content(f, E)
    BY DEF Covers
<1>1. f \in OfHosts => \A col \in Tells(f) : HasLine(D, y, col) <=> HasLine(E, y, col)
  OBVIOUS
<1>2. f \in File \ EximRelay
  OBVIOUS
<1> QED  BY <1>1, <1>2, OfRelay

LEMMA HostRulesets ==
    OfHosts \subseteq Rulesets /\ \A f \in OfHosts : ColumnOf[f] = {"address"} \cup Tells(f)
BY DEF OfHosts, ScoreFiles, ActionFiles, Rulesets, ColumnOf, Tells

LEMMA RelayPages ==
    ASSUME NEW y \in Relay, NEW m, m \subseteq {"on"} \cup Column(y), NEW was
    PROVE  /\ Publishes("organizations_add_relay", add_relay(y, m))
           /\ Publishes("organizations_edit_relay", edit_relay(y, was, m))
           /\ Publishes("organizations_delete_relay", delete_relay(y))
<1> DEFINE live == [backend |-> "relay", row |-> y, live |-> TRUE, marks |-> {}]
           forced == [backend |-> "relay", row |-> y, live |-> FALSE, marks |-> Every]
           edit == C("update", y, m \ was, m \cap was, y, Every)
<1>1. \A E : Wanted(live, E) = update_relay_backend(E[y]) /\ Wanted(forced, E) = update_relay_backend(Every)
  BY WantedIs DEF Marks
<1>2. /\ add_relay(y, m) = <<Insert(y, m), Publish(live)>>
      /\ edit_relay(y, was, m) = <<Update(y, was, m), Publish(live)>>
      /\ delete_relay(y) = <<DeleteWith(y, y, Every), Publish(forced)>>
  BY PlainDelete DEF add_relay, edit_relay, delete_relay, Live, Forced, Copy
<1> HIDE DEF live, forced
<1>3. y \in Row /\ y \notin ListItem
  BY OneTable, RowIs
<1>4. ASSUME NEW c, NEW D, NEW E, D[y] = {}, Same(D, E, Row \ {y})
      PROVE  Covers("organizations_add_relay", c, D, E, Wanted(live, E))
  <2>1. EximRelay \subseteq Wanted(live, E)
    BY <1>1, RelayPublishes
  <2>2. \A f \in OfHosts : \A col \in Tells(f) : f \in Wanted(live, E) \/ ~ HasLine(E, y, col)
    BY <1>1, RelayPublishes DEF HasLine
  <2>3. \A col : ~ HasLine(D, y, col)
    BY <1>4 DEF HasLine
  <2> QED  BY <1>4, <2>1, <2>2, <2>3, RelayCovered
<1>5. ASSUME NEW D, NEW E, E[y] = (D[y] \cup (m \ was)) \ (m \cap was), Same(D, E, Row \ {y})
      PROVE  Covers("organizations_edit_relay", edit, D, E, Wanted(live, E))
  <2> DEFINE leaves == Leaves("organizations_edit_relay", edit, D)
  <2>1. EximRelay \subseteq Wanted(live, E)
    BY <1>1, RelayPublishes
  <2>2. \A f \in Rulesets : \A col \in m \cap was : col \in ColumnOf[f] => f \in leaves
    BY LeavesLost
  <2> HIDE DEF leaves, edit
  <2>3. ASSUME NEW f \in OfHosts, NEW col \in Tells(f), f \notin Wanted(live, E) \cup leaves
        PROVE  HasLine(D, y, col) <=> HasLine(E, y, col)
    <3>1. col \notin E[y]
      BY <1>1, <2>3, RelayPublishes
    <3>2. col \notin m \cap was
      BY <2>2, <2>3, HostRulesets
    <3> QED  BY <1>5, <3>1, <3>2 DEF HasLine
  <2> QED  BY <1>5, <2>1, <2>3, RelayCovered DEF leaves
<1>6. ASSUME NEW c, NEW D, NEW E, Same(D, E, Row \ {y})
      PROVE  Covers("organizations_delete_relay", c, D, E, Wanted(forced, E))
  <2>1. EximRelay \subseteq Wanted(forced, E)
    BY <1>1, RelayPublishes
  <2>2. \A f \in OfHosts : f \in Wanted(forced, E)
    BY <1>1, RelayPublishes, TellsIs, HostRulesets
  <2> QED  BY <1>6, <2>1, <2>2, RelayCovered
<1>7. \A D, E : Gone(D, E, y) => Same(D, E, Row \ {y})
  <2>1. WithChildren({y}) = {y}
    BY WithChildrenOf, OneTable, RowIs
  <2> QED  BY <2>1 DEF Gone
<1>8. Publishes("organizations_add_relay", add_relay(y, m))
  BY <1>2, <1>3, <1>4, InsertPublishes
<1>9. Publishes("organizations_edit_relay", edit_relay(y, was, m))
  BY <1>2, <1>3, <1>5, UpdatePublishes
<1>10. Publishes("organizations_delete_relay", delete_relay(y))
  BY <1>2, <1>3, <1>6, <1>7, DeletePublishes
<1> QED  BY <1>8, <1>9, <1>10

-----------------------------------------------------------------------------
(* controllers/lists                                                         *)

LEMMA ListCovered ==
    ASSUME NEW p, Elsewhere(p), NEW c, NEW D, NEW E, NEW w \in ListItem, NEW tasks,
           Same(D, E, Row \ {w}), NEW b \in BOOLEAN,
           D[w] # {} => ("banned" \in D[w]) = b,
           E[w] # {} => ("banned" \in E[w]) = b,
           ListsOf(b) \subseteq tasks \cup Leaves(p, c, D)
    PROVE  Covers(p, c, D, E, tasks)
<1> SUFFICES ASSUME NEW f \in File \ (tasks \cup Leaves(p, c, D))
             PROVE  Content(f, D) = Content(f, E)
    BY DEF Covers
<1>1. f \notin ListsOf(b)
  OBVIOUS
<1>2. CASE f \in Lists \cup EximLists
  <2>1. PICK banned \in BOOLEAN : f \in ListsOf(banned)
    BY <1>2 DEF EximLists, Lists, ListsOf
  <2>2. banned # b
    BY <1>1, <2>1
  <2>3. \A x \in ListItem : x # w => D[x] = E[x]
    BY RowIs DEF Same
  <2>4. /\ D[w] # {} => ("banned" \in D[w]) # banned
        /\ E[w] # {} => ("banned" \in E[w]) # banned
    BY <2>2
  <2> QED  BY <2>1, <2>3, <2>4, ListsSame
<1>3. CASE f \notin Lists \cup EximLists
  <2>1. f \in Rulesets \/ Same(D, E, RowsOf(f))
    BY <1>3, RowsRead, RowsOfRow DEF Same
  <2>2. Same(D, E, Domain \cup Alias \cup User \cup Address \cup Relay)
    BY OneTable, RowIs DEF Same
  <2> QED  BY <2>1, <2>2, OfOther
<1> QED  BY <1>2, <1>3

LEMMA ListsPublished ==
    ASSUME NEW m
    PROVE  ("banned" \in m) \in BOOLEAN /\ update_lists_backend(m) = ListsOf("banned" \in m)
BY DEF update_lists_backend, ListsOf

(* Deleting an item: one that is not the item that was loaded is refused.     *)
LEMMA ListDeleted ==
    ASSUME NEW w \in ListItem, NEW was
    PROVE  Publishes("list_delete", <<DeleteWith(w, w, was), Copy("lists", w, was)>>)
<1> DEFINE k == [backend |-> "lists", row |-> w, live |-> FALSE, marks |-> was]
<1>1. ASSUME NEW c, NEW D, NEW E, Gone(D, E, w), D[w] = was
      PROVE  Covers("list_delete", c, D, E, Wanted(k, E))
  <2>1. Wanted(k, E) = ListsOf("banned" \in was)
    BY WantedIs, ListsPublished DEF Marks
  <2>2. Same(D, E, Row \ {w}) /\ E[w] = {}
    <3>1. WithChildren({w}) = {w}
      BY WithChildrenOf, OneTable, RowIs
    <3> QED  BY <1>1, <3>1 DEF Gone
  <2>3. Elsewhere("list_delete")
    BY DEF Elsewhere, SignaturePages, DestinationPages
  <2> DEFINE b == "banned" \in was
  <2>4. b \in BOOLEAN /\ (D[w] # {} => ("banned" \in D[w]) = b)
    BY <1>1
  <2> HIDE DEF k
  <2>5. ListsOf(b) \subseteq Wanted(k, E)
    BY <2>1
  <2> HIDE DEF b
  <2> QED  BY <2>2, <2>3, <2>4, <2>5, ListCovered
<1>2. Copy("lists", w, was) = Publish(k)
  BY DEF Copy
<1>3. w \in Row
  BY RowIs
<1> HIDE DEF k
<1> QED  BY <1>1, <1>2, <1>3, DeletePublishes

(* The items that are added along with a first one                            *)
LEMMA OtherItems ==
    ASSUME NEW S \in SUBSET ListItem
    PROVE  \E N \in Nat : SetToSeq(S) \in [1 .. N -> S]
<1>1. IsFiniteSet(S)
  BY DirectoryAssumption, FS_Subset
<1>2. Cardinality(S) \in Nat /\ \E f \in [1 .. Cardinality(S) -> S] : IsInjective(f)
  BY <1>1, FS_CardinalityType DEF ExistsBijection, Bijection, Injection
<1>3. SetToSeq(S) \in [1 .. Cardinality(S) -> S]
  BY <1>2 DEF SetToSeq
<1> QED  BY <1>2, <1>3

LEMMA HeadJoined ==
    ASSUME NEW S, NEW head \in Seq(S), NEW tail \in Seq(S), NEW N \in Nat, Len(head) = 1, Len(tail) = N
    PROVE  /\ head \o tail \in Seq(S) /\ Len(head \o tail) = N + 1
           /\ (head \o tail)[1] = head[1]
           /\ \A i \in 1 .. N : (head \o tail)[i + 1] = tail[i]
<1>1. /\ head \o tail \in Seq(S) /\ Len(head \o tail) = Len(head) + Len(tail)
      /\ \A i \in 1 .. Len(head) + Len(tail) :
            (head \o tail)[i] = IF i <= Len(head) THEN head[i] ELSE tail[i - Len(head)]
  BY ConcatProperties
<1>2. Len(head \o tail) = N + 1 /\ (head \o tail)[1] = head[1]
  BY <1>1
<1>3. ASSUME NEW i \in 1 .. N
      PROVE  (head \o tail)[i + 1] = tail[i]
  <2>1. i + 1 \in 1 .. Len(head) + Len(tail) /\ ~ (i + 1 <= Len(head)) /\ (i + 1) - Len(head) = i
    OBVIOUS
  <2> QED  BY <1>1, <2>1
<1> QED  BY <1>1, <1>2, <1>3

LEMMA LastJoined ==
    ASSUME NEW S, NEW most \in Seq(S), NEW last \in Seq(S), NEW N \in Nat, Len(most) = N, Len(last) = 1
    PROVE  /\ most \o last \in Seq(S) /\ Len(most \o last) = N + 1
           /\ (most \o last)[N + 1] = last[1]
           /\ \A i \in 1 .. N : (most \o last)[i] = most[i]
<1>1. /\ most \o last \in Seq(S) /\ Len(most \o last) = Len(most) + Len(last)
      /\ \A i \in 1 .. Len(most) + Len(last) :
            (most \o last)[i] = IF i <= Len(most) THEN most[i] ELSE last[i - Len(most)]
  BY ConcatProperties
<1>2. Len(most \o last) = N + 1
  BY <1>1
<1>3. (most \o last)[N + 1] = last[1]
  <2>1. N + 1 \in 1 .. Len(most) + Len(last) /\ ~ (N + 1 <= Len(most)) /\ (N + 1) - Len(most) = 1
    OBVIOUS
  <2> QED  BY <1>1, <2>1
<1>4. ASSUME NEW i \in 1 .. N
      PROVE  (most \o last)[i] = most[i]
  <2>1. i \in 1 .. Len(most) + Len(last) /\ i <= Len(most)
    OBVIOUS
  <2> QED  BY <1>1, <2>1
<1> QED  BY <1>1, <1>2, <1>3, <1>4

LEMMA ItemsPublish ==
    ASSUME NEW w \in ListItem, NEW marks, marks \subseteq {"on"} \cup Column(w), NEW N \in Nat,
           NEW others \in [1 .. N -> ListItem \ {w}]
    PROVE  Publishes("lists_new",
                <<Insert(w, marks)>>
                \o [i \in 1 .. N |-> ChangeBy("also", others[i], marks, {}, w, Every)]
                \o <<Live("lists", w)>>)
<1> DEFINE p == "lists_new"
           k == [backend |-> "lists", row |-> w, live |-> TRUE, marks |-> {}]
           first == C("insert", w, marks, {}, w, Every)
           also(i) == C("also", others[i], marks, {}, w, Every)
           middle == [i \in 1 .. N |-> Commit(also(i))]
           s == <<Commit(first)>> \o middle \o <<Publish(k)>>
           S == {Commit(first), Publish(k)} \cup {Commit(also(i)) : i \in 1 .. N}
           b == "banned" \in marks
<1>1. /\ Insert(w, marks) = Commit(first) /\ Live("lists", w) = Publish(k)
      /\ [i \in 1 .. N |-> ChangeBy("also", others[i], marks, {}, w, Every)] = middle
  BY Statements DEF Live, ChangeBy, C
<1>2. /\ s \in Seq(S) /\ DOMAIN s = 1 .. N + 2
      /\ s[1] = Commit(first) /\ s[N + 2] = Publish(k)
      /\ \A i \in 1 .. N : s[i + 1] = Commit(also(i))
  <2>1. middle \in Seq(S) /\ Len(middle) = N /\ \A i \in 1 .. N : middle[i] = Commit(also(i))
    OBVIOUS
  <2> DEFINE head == <<Commit(first)>>
             last == <<Publish(k)>>
             most == head \o middle
  <2>2. /\ head \in Seq(S) /\ Len(head) = 1 /\ head[1] = Commit(first)
        /\ last \in Seq(S) /\ Len(last) = 1 /\ last[1] = Publish(k)
    OBVIOUS
  <2> HIDE DEF middle, also, first, k, S, head, last
  <2>3. /\ most \in Seq(S) /\ Len(most) = N + 1 /\ most[1] = head[1]
        /\ \A i \in 1 .. N : most[i + 1] = middle[i]
    BY <2>1, <2>2, HeadJoined
  <2>4. s = most \o last /\ N + 1 \in Nat
    BY DEF head, last
  <2> HIDE DEF most, s
  <2>5. /\ s \in Seq(S) /\ Len(s) = (N + 1) + 1 /\ s[(N + 1) + 1] = last[1]
        /\ \A i \in 1 .. N + 1 : s[i] = most[i]
    BY <2>2, <2>3, <2>4, LastJoined
  <2>6. ASSUME NEW i \in 1 .. N
        PROVE  s[i + 1] = Commit(also(i))
    <3>1. s[i + 1] = most[i + 1] /\ most[i + 1] = middle[i]
      BY <2>3, <2>5
    <3> QED  BY <2>1, <3>1
  <2>7. s[1] = Commit(first) /\ s[N + 2] = Publish(k)
    BY <2>2, <2>3, <2>5
  <2> QED  BY <2>5, <2>6, <2>7
<1>3. /\ first.kind = "insert" /\ first.row = w /\ first.gained = marks /\ first.lost = {}
      /\ \A i : /\ also(i).kind = "also" /\ also(i).row = others[i] /\ also(i).gained = marks
                /\ also(i).lost = {} /\ also(i).copied = w
  BY DEF C
<1>4. /\ \A D : D[w] # {} => Wanted(k, D) = ListsOf("banned" \in D[w])
      /\ \A D, E : D[w] = E[w] => Wanted(k, D) = Wanted(k, E)
  <2>1. \A D : D[w] # {} => Wanted(k, D) = ListsOf("banned" \in D[w])
    BY WantedIs, ListsPublished DEF Marks
  <2>2. \A D, E : D[w] = E[w] => Wanted(k, D) = Wanted(k, E)
    BY DEF Wanted
  <2> QED  BY <2>1, <2>2
<1>5. \A c : Commit(c).kind = "commit" /\ Commit(c).change = c
  BY DEF Commit
<1>6. Publish(k).kind = "publish" /\ Publish(k).call = k
  BY DEF Publish
<1> HIDE DEF k, first, also, middle, s, S, p
<1>7. \A i \in 1 .. N + 1 : \A D : After(s, i, D) = Wanted(k, D)
  <2> TAKE i \in 1 .. N + 1
  <2> TAKE D
  <2>1. \A j \in DOMAIN s : j > 1 /\ j # N + 2 => Task_(s[j], D) = {}
    <3> SUFFICES ASSUME NEW j \in DOMAIN s, j > 1, j # N + 2  PROVE  Task_(s[j], D) = {}
        OBVIOUS
    <3>0. j \in 2 .. N + 1
      BY <1>2
    <3>1. s[(j - 1) + 1] = Commit(also(j - 1))
      BY <1>2, <3>0
    <3>2. s[j].kind = "commit"
      BY <1>5, <3>0, <3>1
    <3> QED  BY <3>2 DEF Task_
  <2>2. Task_(s[N + 2], D) = Wanted(k, D)
    BY <1>2, <1>6 DEF Task_
  <2>3. N + 2 \in {j \in DOMAIN s : j > i} /\ \A j \in DOMAIN s : j > i => j > 1
    BY <1>2
  <2> QED  BY <2>1, <2>2, <2>3 DEF After
<1>8. Elsewhere(p) /\ b \in BOOLEAN
  BY DEF Elsewhere, SignaturePages, DestinationPages, p
<1>9. w \in Row /\ \A x \in ListItem : x \in Row /\ Column(x) = Column(w)
  BY RowIs, OneTable DEF Column
<1>10. \A m : m = {"row"} \cup marks => m # {} /\ ("banned" \in m) = b
  OBVIOUS
<1> HIDE DEF b
<1>11. ASSUME NEW D, NEW E, D[w] = {}, E[w] = {"row"} \cup marks, Same(D, E, Row \ {w})
       PROVE  Covers(p, first, D, E, Wanted(k, E))
  <2>1. ListsOf(b) \subseteq Wanted(k, E)
    BY <1>4, <1>10, <1>11
  <2> QED  BY <1>8, <1>10, <1>11, <2>1, ListCovered
<1>12. ASSUME NEW i \in 1 .. N, NEW D, NEW E, D[others[i]] = {}, E[others[i]] = {"row"} \cup marks,
              Same(D, E, Row \ {others[i]})
       PROVE  Covers(p, also(i), D, E, Wanted(k, E)) /\ Wanted(k, D) = Wanted(k, E)
  <2>1. D[w] = E[w]
    BY <1>9, <1>12 DEF Same
  <2>2. ListsOf(b) \subseteq Wanted(k, E) \cup Leaves(p, also(i), D)
    <3>1. CASE D[w] = {"row"} \cup marks
      BY <1>4, <1>10, <2>1, <3>1
    <3>2. CASE D[w] # {"row"} \cup marks
      <4>1. Lists \cup EximLists \subseteq Leaves(p, also(i), D)
        BY <1>3, <3>2 DEF Leaves
      <4> QED  BY <1>8, <4>1 DEF ListsOf, Lists, EximLists
    <3> QED  BY <3>1, <3>2
  <2>3. others[i] \in ListItem
    OBVIOUS
  <2>4. Covers(p, also(i), D, E, Wanted(k, E))
    BY <1>8, <1>10, <1>12, <2>2, <2>3, ListCovered
  <2> QED  BY <1>4, <2>1, <2>4
<1>13. Publishes(p, s)
  <2>1. ASSUME NEW j \in DOMAIN s
        PROVE  s[j].kind \in {"commit", "publish"} /\ (j > 1 => Begun(s[j]))
    <3>1. CASE j = 1
      BY <1>2, <1>5, <3>1
    <3>2. CASE j = N + 2
      BY <1>2, <1>6, <3>2 DEF Begun
    <3>3. CASE j \in 2 .. N + 1
      <4>1. s[(j - 1) + 1] = Commit(also(j - 1))
        BY <1>2, <3>3
      <4>2. s[j].kind = "commit" /\ s[j].change = also(j - 1)
        BY <1>5, <3>3, <4>1
      <4> QED  BY <1>3, <4>2 DEF Begun
    <3> QED  BY <1>2, <3>1, <3>2, <3>3
  <2>2. ASSUME NEW D, Whole(D), ~ Refused(first, D)
        PROVE  Covers(p, first, D, Apply(first, D), After(s, 1, Apply(first, D)))
    <3>1. D[w] = {}
      BY <1>3, <2>2, RefusedIs DEF Made_
    <3>2. Apply(first, D)[w] = {"row"} \cup marks /\ Same(D, Apply(first, D), Row \ {w})
      <4>1. first.row \in Row /\ first.kind \in Made_ /\ first.gained = marks /\ first.row = w
        BY <1>3, <1>9 DEF Made_
      <4> QED  BY <4>1, Applied
    <3>3. After(s, 1, Apply(first, D)) = Wanted(k, Apply(first, D))
      BY <1>7
    <3> QED  BY <1>11, <3>1, <3>2, <3>3
  <2>3. ASSUME NEW i \in 1 .. N, NEW D, Whole(D), ~ Refused(also(i), D)
        PROVE  /\ Covers(p, also(i), D, Apply(also(i), D), After(s, i + 1, Apply(also(i), D)))
               /\ After(s, i + 1, D) \subseteq After(s, i + 1, Apply(also(i), D))
    <3>1. D[others[i]] = {}
      BY <1>3, <2>3, RefusedIs DEF Made_
    <3>2. /\ Apply(also(i), D)[others[i]] = {"row"} \cup marks
          /\ Same(D, Apply(also(i), D), Row \ {others[i]})
      <4>1. also(i).row \in Row /\ also(i).kind \in Made_ /\ also(i).gained = marks /\ also(i).row = others[i]
        BY <1>3, <1>9 DEF Made_
      <4> QED  BY <4>1, Applied
    <3>3. \A X : After(s, i + 1, X) = Wanted(k, X)
      BY <1>7
    <3> QED  BY <1>12, <3>1, <3>2, <3>3
  <2>4. ChangeOK(first) /\ ~ Begun(s[1])
    BY <1>2, <1>3, <1>5, <1>9 DEF ChangeOK, Begun
  <2>5. \A i \in 1 .. N : ChangeOK(also(i))
    BY <1>3, <1>9 DEF ChangeOK
  <2>6. ASSUME NEW j \in DOMAIN s, s[j].kind = "commit"
        PROVE  /\ ChangeOK(s[j].change)
               /\ \A D : Whole(D) /\ ~ Refused(s[j].change, D) =>
                    /\ Covers(p, s[j].change, D, Apply(s[j].change, D), After(s, j, Apply(s[j].change, D)))
                    /\ Begun(s[j]) => After(s, j, D) \subseteq After(s, j, Apply(s[j].change, D))
    <3>1. CASE j = 1
      <4>1. s[j].change = first
        BY <1>2, <1>5, <3>1
      <4> QED  BY <2>2, <2>4, <3>1, <4>1
    <3>2. CASE j = N + 2
      BY <1>2, <1>6, <2>6, <3>2
    <3>3. CASE j \in 2 .. N + 1
      <4> DEFINE i == j - 1
      <4>1. i \in 1 .. N /\ j = i + 1
        BY <3>3
      <4>2. s[j].change = also(i)
        BY <1>2, <1>5, <4>1
      <4> HIDE DEF i
      <4> QED  BY <2>3, <2>5, <4>1, <4>2
    <3> QED  BY <1>2, <3>1, <3>2, <3>3
  <2> QED  BY <1>2, <2>1, <2>6 DEF Publishes
<1> QED  BY <1>1, <1>13 DEF s, p

-----------------------------------------------------------------------------
(* controllers/settings: signatures                                          *)

LEMMA SignatureCovered ==
    ASSUME NEW p, NEW c, NEW D, NEW E, NEW g \in DomSignature \cup UserSignature, NEW tasks,
           Same(D, E, Row \ {g}), backend_sig_update(g) \subseteq tasks
    PROVE  Covers(p, c, D, E, tasks)
<1> SUFFICES ASSUME NEW f \in File \ tasks
             PROVE  Content(f, D) = Content(f, E)
    BY DEF Covers
<1>1. /\ Same(D, E, Domain \cup Alias \cup User \cup Address \cup Relay)
      /\ Same(D, E, Destination \cup AuthServer \cup LDAPSettings \cup ListItem)
      /\ \A x \in Row : x # g => D[x] = E[x]
  BY OneTable, RowIs DEF Same
<1>2. f \in Rulesets \/ Same(D, E, RowsOf(f))
  <2>1. CASE f \in EximRelay \cup EximLists \cup Lists \cup EximDomains \cup EximRoutes \cup {"create_ldap_data"}
    BY <1>1, <2>1, RowsOfIs DEF Same
  <2>2. CASE f = "create_html_sigs"
    <3>1. g \notin HTML
      BY <2>2 DEF backend_sig_update
    <3>2. HTML \subseteq Row
      BY DirectoryAssumption, RowIs
    <3> QED  BY <1>1, <2>2, <3>1, <3>2, RowsOfIs DEF Same
  <2>3. CASE f \in Signing \ {"create_html_sigs"}
    <3>1. g \in HTML
      BY <2>3 DEF backend_sig_update, Signing
    <3>2. DomSignature \cup UserSignature \subseteq Row
      BY RowIs
    <3> QED  BY <1>1, <2>3, <3>1, <3>2, RowsOfIs DEF Same
  <2> QED  BY <2>1, <2>2, <2>3 DEF File, Signing
<1> QED  BY <1>1, <1>2, OfOther

LEMMA SignaturePublishes ==
    ASSUME NEW p, NEW g \in DomSignature \cup UserSignature, NEW m, m \subseteq {"on"} \cup Column(g), NEW was
    PROVE  /\ Publishes(p, <<Insert(g, m), Live("sig", g)>>)
           /\ Publishes(p, <<Update(g, was, m), Copy("sig", g, was)>>)
           /\ Publishes(p, <<Delete(g), Copy("sig", g, was)>>)
<1> DEFINE live == [backend |-> "sig", row |-> g, live |-> TRUE, marks |-> {}]
           copy == [backend |-> "sig", row |-> g, live |-> FALSE, marks |-> was]
<1>1. /\ \A E : E[g] # {} => Wanted(live, E) = backend_sig_update(g)
      /\ \A E : Wanted(copy, E) = backend_sig_update(g)
  BY WantedIs
<1>2. Live("sig", g) = Publish(live) /\ Copy("sig", g, was) = Publish(copy)
  BY DEF Live, Copy
<1> HIDE DEF live, copy
<1>3. ASSUME NEW c, NEW D, NEW E, Same(D, E, Row \ {g})
      PROVE  /\ E[g] # {} => Covers(p, c, D, E, Wanted(live, E))
             /\ Covers(p, c, D, E, Wanted(copy, E))
  BY <1>1, <1>3, SignatureCovered
<1>4. \A D, E : E[g] = {"row"} \cup m => E[g] # {}
  OBVIOUS
<1>5. g \in Row
  BY RowIs
<1>6. Publishes(p, <<Insert(g, m), Publish(live)>>)
  BY <1>3, <1>4, <1>5, InsertPublishes
<1>7. Publishes(p, <<Update(g, was, m), Publish(copy)>>)
  BY <1>3, <1>5, UpdatePublishes
<1>8. Publishes(p, <<DeleteWith(g, g, Every), Publish(copy)>>)
  <2>1. WithChildren({g}) = {g}
    BY WithChildrenOf, OneTable, <1>5
  <2>2. \A D, E : Gone(D, E, g) => Same(D, E, Row \ {g})
    BY <2>1 DEF Gone
  <2> QED  BY <1>3, <1>5, <2>2, DeletePublishes
<1> QED  BY <1>2, <1>6, <1>7, <1>8, PlainDelete


-----------------------------------------------------------------------------
(* The rows that a page is asked for, and its marks                          *)

UserPages == {"accounts_index", "accounts_add", "accounts_edit", "accounts_delete",
              "accounts_confirm_delete"}
AddressPage == {"addaddress", "editaddress", "deleteaddress"}
DomainPages == {"domains_index", "domains_add", "domains_edit", "domains_delete",
                "domains_confirm_delete"}
AuthPages == {"domains_add_auth", "domains_edit_auth", "domains_delete_auth"}
AliasPage == {"addalias", "editalias", "deletealias"}
OrganizationPage == {"organizations_new", "organizations_delete"}
RelayPage == {"organizations_add_relay", "organizations_edit_relay", "organizations_delete_relay"}
ListPages == {"lists_new", "list_delete"}

PageOf(p, x) ==
    \/ p \in UserPages /\ x \in User
    \/ p \in AddressPage /\ x \in Address
    \/ p \in DomainPages /\ x \in Domain
    \/ p \in DestinationPages /\ x \in Destination
    \/ p \in AuthPages /\ x \in AuthServer
    \/ p = "auth_settings" /\ x \in LDAPSettings
    \/ p \in AliasPage /\ x \in Alias
    \/ p \in OrganizationPage /\ x \in Organization
    \/ p \in RelayPage /\ x \in Relay
    \/ p \in ListPages /\ x \in ListItem
    \/ p \in SignaturePages /\ x \in DomSignature \cup UserSignature

LEMMA AskIs ==
    ASSUME NEW files, NEW ask \in Asks(files)
    PROVE  PageOf(ask.page, ask.row) /\ ask.marks \subseteq {"on"} \cup Column(ask.row)
<1> DEFINE Col(x) == Column(x) \cap UNION {ColumnsOf(f) : f \in files}
           read == UNION {RowsOf(f) : f \in files}
           near == read \cup {x \in Row : WithChildren({x}) \cap read # {}}
                     \cup (IF read \cap (Domain \cup Relay) = {} THEN {} ELSE Organization)
           New(p, rows) == UNION {{[page |-> p, row |-> x, marks |-> m] : m \in SUBSET Col(x)} : x \in rows \cap near}
           Edit(p, rows) == UNION {{[page |-> p, row |-> x, marks |-> m] : m \in {{c} : c \in Col(x) \ {"ldap"}}} : x \in rows \cap near}
           Bulk(p, rows) == UNION {{[page |-> p, row |-> x, marks |-> m] : m \in {{}, {"on"}}} : x \in rows \cap near}
           Plain(p, rows) == UNION {{[page |-> p, row |-> x, marks |-> m] : m \in {{}}} : x \in rows \cap near}
           Ok(p, rows) == ask.page = p /\ ask.row \in rows /\ ask.marks \subseteq {"on"} \cup Column(ask.row)
<1>1. ask \in UNION {Bulk("accounts_index", User), New("accounts_add", User),
            Edit("accounts_edit", User), Plain("accounts_delete", User),
            Plain("accounts_confirm_delete", User),
            New("addaddress", Address), Edit("editaddress", Address),
            Plain("deleteaddress", Address),
            Bulk("domains_index", Domain), New("domains_add", Domain),
            Edit("domains_edit", Domain), Plain("domains_delete", Domain),
            Plain("domains_confirm_delete", Domain),
            New("adddestination", Destination), Edit("editdestination", Destination),
            Plain("deletedestination", Destination),
            New("domains_add_auth", AuthServer), Edit("domains_edit_auth", AuthServer),
            Plain("domains_delete_auth", AuthServer),
            New("auth_settings", LDAPSettings),
            New("addalias", Alias), Edit("editalias", Alias), Plain("deletealias", Alias),
            Plain("organizations_new", Organization),
            Bulk("organizations_delete", Organization),
            New("organizations_add_relay", Relay), Edit("organizations_edit_relay", Relay),
            Plain("organizations_delete_relay", Relay),
            New("lists_new", ListItem), Plain("list_delete", ListItem),
            New("add_domain_sigs", DomSignature), Edit("edit_domain_sigs", DomSignature),
            Plain("delete_domain_sigs", DomSignature),
            New("add_account_sigs", UserSignature), Edit("edit_account_sigs", UserSignature),
            Plain("delete_account_sigs", UserSignature)}
  BY DEF Asks
<1> HIDE DEF read, near
<1>2. ASSUME NEW p, NEW rows, ask \in New(p, rows)  PROVE Ok(p, rows)
  <2>1. PICK x \in rows : \E m \in SUBSET Col(x) : ask = [page |-> p, row |-> x, marks |-> m]
    BY <1>2
  <2> QED  BY <2>1
<1>3. ASSUME NEW p, NEW rows, ask \in Edit(p, rows)  PROVE Ok(p, rows)
  <2>1. PICK x \in rows : \E c \in Col(x) : ask = [page |-> p, row |-> x, marks |-> {c}]
    BY <1>3
  <2> QED  BY <2>1
<1>4. ASSUME NEW p, NEW rows, ask \in Bulk(p, rows) \cup Plain(p, rows)  PROVE Ok(p, rows)
  <2>1. PICK x \in rows, m \in {{}, {"on"}} : ask = [page |-> p, row |-> x, marks |-> m]
    BY <1>4
  <2> QED  BY <2>1
<1> HIDE DEF New, Edit, Bulk, Plain
<1>5. \/ Ok("accounts_index", User)
      \/ Ok("accounts_add", User)
      \/ Ok("accounts_edit", User)
      \/ Ok("accounts_delete", User)
      \/ Ok("accounts_confirm_delete", User)
      \/ Ok("addaddress", Address)
      \/ Ok("editaddress", Address)
      \/ Ok("deleteaddress", Address)
      \/ Ok("domains_index", Domain)
      \/ Ok("domains_add", Domain)
      \/ Ok("domains_edit", Domain)
      \/ Ok("domains_delete", Domain)
      \/ Ok("domains_confirm_delete", Domain)
      \/ Ok("adddestination", Destination)
      \/ Ok("editdestination", Destination)
      \/ Ok("deletedestination", Destination)
      \/ Ok("domains_add_auth", AuthServer)
      \/ Ok("domains_edit_auth", AuthServer)
      \/ Ok("domains_delete_auth", AuthServer)
      \/ Ok("auth_settings", LDAPSettings)
      \/ Ok("addalias", Alias)
      \/ Ok("editalias", Alias)
      \/ Ok("deletealias", Alias)
      \/ Ok("organizations_new", Organization)
      \/ Ok("organizations_delete", Organization)
      \/ Ok("organizations_add_relay", Relay)
      \/ Ok("organizations_edit_relay", Relay)
      \/ Ok("organizations_delete_relay", Relay)
      \/ Ok("lists_new", ListItem)
      \/ Ok("list_delete", ListItem)
      \/ Ok("add_domain_sigs", DomSignature)
      \/ Ok("edit_domain_sigs", DomSignature)
      \/ Ok("delete_domain_sigs", DomSignature)
      \/ Ok("add_account_sigs", UserSignature)
      \/ Ok("edit_account_sigs", UserSignature)
      \/ Ok("delete_account_sigs", UserSignature)
  BY <1>1, <1>2, <1>3, <1>4
<1>6. ask.marks \subseteq {"on"} \cup Column(ask.row)
  BY <1>5
<1>7. PageOf(ask.page, ask.row)
  BY <1>5 DEF PageOf, UserPages, AddressPage, DomainPages, AuthPages, AliasPage, OrganizationPage,
        RelayPage, ListPages, SignaturePages, DestinationPages
<1> QED  BY <1>6, <1>7

-----------------------------------------------------------------------------
(* Each page publishes what it changes                                       *)

LEMMA FoundPublishes ==
    ASSUME NEW D, NEW x, NEW p, NEW script, Publishes(p, script)
    PROVE  Publishes(p, Found(D, x, script))
BY NothingPublishes DEF Found

(* lists_new adds the item first, then those for the user's other addresses.  *)
LEMMA ListsNew ==
    ASSUME NEW w \in ListItem, NEW m, m \subseteq {"on"} \cup Column(w), NEW D
    PROVE  Publishes("lists_new", lists_new(D, w, m))
<1> DEFINE others == IF "add_to_alias" \in m
                     THEN SetToSeq({x \in ListItem \ {w} : Of[x] = Of[w]}) ELSE <<>>
           marks == m \ {"add_to_alias"}
           script == <<Insert(w, marks)>>
                     \o [i \in DOMAIN others |-> ChangeBy("also", others[i], marks, {}, w, Every)]
                     \o <<Live("lists", w)>>
<1>1. lists_new(D, w, m) = Found(D, Of[w], script)
  BY DEF lists_new
<1> HIDE DEF script
<1> SUFFICES Publishes("lists_new", script)
  BY <1>1, FoundPublishes
<1>2. \E N \in Nat : others \in [1 .. N -> ListItem \ {w}]
  <2> DEFINE S == {x \in ListItem \ {w} : Of[x] = Of[w]}
  <2>1. S \in SUBSET ListItem /\ S \subseteq ListItem \ {w}
    OBVIOUS
  <2> HIDE DEF S
  <2>2. PICK N \in Nat : SetToSeq(S) \in [1 .. N -> S]
    BY <2>1, OtherItems
  <2>3. SetToSeq(S) \in [1 .. N -> ListItem \ {w}]
    BY <2>1, <2>2
  <2>4. <<>> \in [1 .. 0 -> ListItem \ {w}]
    OBVIOUS
  <2> QED  BY <2>3, <2>4 DEF S
<1>3. marks \subseteq {"on"} \cup Column(w)
  OBVIOUS
<1> HIDE DEF marks, others
<1>4. PICK N \in Nat : others \in [1 .. N -> ListItem \ {w}]
  BY <1>2
<1>5. DOMAIN others = 1 .. N
  BY <1>4
<1>6. Publishes("lists_new",
                <<Insert(w, marks)>>
                \o [i \in 1 .. N |-> ChangeBy("also", others[i], marks, {}, w, Every)]
                \o <<Live("lists", w)>>)
  BY <1>3, <1>4, ItemsPublish
<1> QED  BY <1>5, <1>6 DEF script

LEMMA EachUser ==
    ASSUME NEW x \in User, NEW m, m \subseteq {"on"} \cup Column(x), NEW D
    PROVE  /\ Publishes("accounts_index", accounts_index(D, x, m))
           /\ Publishes("accounts_add", accounts_add(D, x, m))
           /\ Publishes("accounts_edit", accounts_edit(D, x, m))
           /\ Publishes("accounts_delete", accounts_delete(D, x, m))
           /\ Publishes("accounts_confirm_delete", accounts_confirm_delete(D, x, m))
<1>1. Publishes("accounts_index", accounts_index(D, x, m))
  <2>1. /\ {"on"} \ {} = {"on"} /\ {"on"} \ {"on"} = {}
        /\ Publishes("accounts_index", <<Set(x, {}, {"on"} \ {})>>) /\ Publishes("accounts_index", <<Set(x, {"on"}, {"on"} \ {"on"})>>)
    BY AccountsIndex
  <2> QED  BY <2>1, FoundPublishes DEF accounts_index
<1>2. Publishes("accounts_add", accounts_add(D, x, m))
  BY AccountMade DEF accounts_add
<1>3. Publishes("accounts_edit", accounts_edit(D, x, m))
  BY AccountEdited, FoundPublishes DEF accounts_edit
<1>4. Publishes("accounts_delete", accounts_delete(D, x, m))
  BY AccountDeleted, FoundPublishes DEF accounts_delete
<1>5. Publishes("accounts_confirm_delete", accounts_confirm_delete(D, x, m))
  BY AccountDeleted, FoundPublishes DEF accounts_confirm_delete
<1> QED  BY <1>1, <1>2, <1>3, <1>4, <1>5

LEMMA EachAddress ==
    ASSUME NEW x \in Address, NEW m, m \subseteq {"on"} \cup Column(x), NEW D
    PROVE  /\ Publishes("addaddress", addaddress(D, x, m))
           /\ Publishes("editaddress", editaddress(D, x, m))
           /\ Publishes("deleteaddress", deleteaddress(D, x, m))
<1>1. Publishes("addaddress", addaddress(D, x, m))
  BY AddressPages, FoundPublishes DEF addaddress
<1>2. Publishes("editaddress", editaddress(D, x, m))
  BY AddressPages, FoundPublishes DEF editaddress
<1>3. Publishes("deleteaddress", deleteaddress(D, x, m))
  BY AddressPages, FoundPublishes DEF deleteaddress
<1> QED  BY <1>1, <1>2, <1>3

LEMMA EachDomain ==
    ASSUME NEW x \in Domain, NEW m, m \subseteq {"on"} \cup Column(x), NEW D
    PROVE  /\ Publishes("domains_index", domains_index(D, x, m))
           /\ Publishes("domains_add", domains_add(D, x, m))
           /\ Publishes("domains_edit", domains_edit(D, x, m))
           /\ Publishes("domains_delete", domains_delete(D, x, m))
           /\ Publishes("domains_confirm_delete", domains_confirm_delete(D, x, m))
<1>1. Publishes("domains_index", domains_index(D, x, m))
  <2>1. /\ {"on"} \ {} = {"on"} /\ {"on"} \ {"on"} = {}
        /\ Publishes("domains_index", <<Set(x, {}, {"on"} \ {})>>) /\ Publishes("domains_index", <<Set(x, {"on"}, {"on"} \ {"on"})>>)
    BY DomainsIndex
  <2> QED  BY <2>1, FoundPublishes DEF domains_index
<1>2. Publishes("domains_add", domains_add(D, x, m))
  BY DomainMade DEF domains_add
<1>3. Publishes("domains_edit", domains_edit(D, x, m))
  BY DomainEdited, FoundPublishes DEF domains_edit
<1>4. Publishes("domains_delete", domains_delete(D, x, m))
  BY DomainDeleted, FoundPublishes DEF domains_delete
<1>5. Publishes("domains_confirm_delete", domains_confirm_delete(D, x, m))
  BY DomainDeleted, FoundPublishes DEF domains_confirm_delete
<1> QED  BY <1>1, <1>2, <1>3, <1>4, <1>5

LEMMA EachDestination ==
    ASSUME NEW x \in Destination, NEW m, m \subseteq {"on"} \cup Column(x), NEW D
    PROVE  /\ Publishes("adddestination", adddestination(D, x, m))
           /\ Publishes("editdestination", editdestination(D, x, m))
           /\ Publishes("deletedestination", deletedestination(D, x, m))
<1>1. Publishes("adddestination", adddestination(D, x, m))
  BY DestinationMade, FoundPublishes DEF adddestination
<1>2. Publishes("editdestination", editdestination(D, x, m))
  BY DestinationEdited, FoundPublishes DEF editdestination
<1>3. Publishes("deletedestination", deletedestination(D, x, m))
  BY DestinationDeleted, FoundPublishes DEF deletedestination
<1> QED  BY <1>1, <1>2, <1>3

LEMMA EachAuthServer ==
    ASSUME NEW x \in AuthServer, NEW m, m \subseteq {"on"} \cup Column(x), NEW D
    PROVE  /\ Publishes("domains_add_auth", domains_add_auth(D, x, m))
           /\ Publishes("domains_edit_auth", domains_edit_auth(D, x, m))
           /\ Publishes("domains_delete_auth", domains_delete_auth(D, x, m))
<1>1. Publishes("domains_add_auth", domains_add_auth(D, x, m))
  BY ServerPages, FoundPublishes DEF domains_add_auth
<1>2. Publishes("domains_edit_auth", domains_edit_auth(D, x, m))
  BY ServerPages, FoundPublishes DEF domains_edit_auth
<1>3. Publishes("domains_delete_auth", domains_delete_auth(D, x, m))
  BY ServerPages, FoundPublishes DEF domains_delete_auth
<1> QED  BY <1>1, <1>2, <1>3

LEMMA EachLDAPSettings ==
    ASSUME NEW x \in LDAPSettings, NEW m, m \subseteq {"on"} \cup Column(x), NEW D
    PROVE  Publishes("auth_settings", auth_settings(D, x, m))
BY LdapPages, NothingPublishes DEF auth_settings

LEMMA EachAlias ==
    ASSUME NEW x \in Alias, NEW m, m \subseteq {"on"} \cup Column(x), NEW D
    PROVE  /\ Publishes("addalias", addalias(D, x, m))
           /\ Publishes("editalias", editalias(D, x, m))
           /\ Publishes("deletealias", deletealias(D, x, m))
<1>1. Publishes("addalias", addalias(D, x, m))
  BY AliasPages, FoundPublishes DEF addalias
<1>2. Publishes("editalias", editalias(D, x, m))
  BY AliasPages, FoundPublishes DEF editalias
<1>3. Publishes("deletealias", deletealias(D, x, m))
  BY AliasPages, FoundPublishes DEF deletealias
<1> QED  BY <1>1, <1>2, <1>3

LEMMA EachOrganization ==
    ASSUME NEW x \in Organization, NEW m, m \subseteq {"on"} \cup Column(x), NEW D
    PROVE  /\ Publishes("organizations_new", organizations_new(D, x, m))
           /\ Publishes("organizations_delete", organizations_delete(D, x, m))
<1>1. Publishes("organizations_new", organizations_new(D, x, m))
  BY OrganizationPages DEF organizations_new
<1>2. Publishes("organizations_delete", organizations_delete(D, x, m))
  <2>1. (m # {}) \in BOOLEAN
    OBVIOUS
  <2> QED  BY <2>1, OrganizationPages, FoundPublishes DEF organizations_delete
<1> QED  BY <1>1, <1>2

LEMMA EachRelay ==
    ASSUME NEW x \in Relay, NEW m, m \subseteq {"on"} \cup Column(x), NEW D
    PROVE  /\ Publishes("organizations_add_relay", organizations_add_relay(D, x, m))
           /\ Publishes("organizations_edit_relay", organizations_edit_relay(D, x, m))
           /\ Publishes("organizations_delete_relay", organizations_delete_relay(D, x, m))
<1>1. Publishes("organizations_add_relay", organizations_add_relay(D, x, m))
  BY RelayPages, FoundPublishes DEF organizations_add_relay
<1>2. Publishes("organizations_edit_relay", organizations_edit_relay(D, x, m))
  BY RelayPages, FoundPublishes DEF organizations_edit_relay
<1>3. Publishes("organizations_delete_relay", organizations_delete_relay(D, x, m))
  BY RelayPages, FoundPublishes DEF organizations_delete_relay
<1> QED  BY <1>1, <1>2, <1>3

LEMMA EachListItem ==
    ASSUME NEW x \in ListItem, NEW m, m \subseteq {"on"} \cup Column(x), NEW D
    PROVE  /\ Publishes("lists_new", lists_new(D, x, m))
           /\ Publishes("list_delete", list_delete(D, x, m))
<1>1. Publishes("list_delete", list_delete(D, x, m))
  BY ListDeleted, FoundPublishes DEF list_delete
<1> QED  BY <1>1, ListsNew

LEMMA EachSignature ==
    ASSUME NEW x \in DomSignature \cup UserSignature, NEW m, m \subseteq {"on"} \cup Column(x), NEW D
    PROVE  /\ Publishes("add_domain_sigs", add_domain_sigs(D, x, m))
           /\ Publishes("edit_domain_sigs", edit_domain_sigs(D, x, m))
           /\ Publishes("delete_domain_sigs", delete_domain_sigs(D, x, m))
           /\ Publishes("add_account_sigs", add_account_sigs(D, x, m))
           /\ Publishes("edit_account_sigs", edit_account_sigs(D, x, m))
           /\ Publishes("delete_account_sigs", delete_account_sigs(D, x, m))
<1>1. Publishes("add_domain_sigs", add_domain_sigs(D, x, m))
  BY SignaturePublishes, FoundPublishes DEF add_domain_sigs, add_sigs
<1>2. Publishes("edit_domain_sigs", edit_domain_sigs(D, x, m))
  BY SignaturePublishes, FoundPublishes DEF edit_domain_sigs, edit_sigs
<1>3. Publishes("delete_domain_sigs", delete_domain_sigs(D, x, m))
  BY SignaturePublishes, FoundPublishes DEF delete_domain_sigs, delete_sigs
<1>4. Publishes("add_account_sigs", add_account_sigs(D, x, m))
  BY SignaturePublishes, FoundPublishes DEF add_account_sigs, add_sigs
<1>5. Publishes("edit_account_sigs", edit_account_sigs(D, x, m))
  BY SignaturePublishes, FoundPublishes DEF edit_account_sigs, edit_sigs
<1>6. Publishes("delete_account_sigs", delete_account_sigs(D, x, m))
  BY SignaturePublishes, FoundPublishes DEF delete_account_sigs, delete_sigs
<1> QED  BY <1>1, <1>2, <1>3, <1>4, <1>5, <1>6

LEMMA ScriptOf ==
    ASSUME NEW ask, NEW D
    PROVE  /\ ask.page = "accounts_index" => Script(ask, D) = accounts_index(D, ask.row, ask.marks)
           /\ ask.page = "accounts_add" => Script(ask, D) = accounts_add(D, ask.row, ask.marks)
           /\ ask.page = "accounts_edit" => Script(ask, D) = accounts_edit(D, ask.row, ask.marks)
           /\ ask.page = "accounts_delete" => Script(ask, D) = accounts_delete(D, ask.row, ask.marks)
           /\ ask.page = "accounts_confirm_delete" => Script(ask, D) = accounts_confirm_delete(D, ask.row, ask.marks)
           /\ ask.page = "addaddress" => Script(ask, D) = addaddress(D, ask.row, ask.marks)
           /\ ask.page = "editaddress" => Script(ask, D) = editaddress(D, ask.row, ask.marks)
           /\ ask.page = "deleteaddress" => Script(ask, D) = deleteaddress(D, ask.row, ask.marks)
           /\ ask.page = "domains_index" => Script(ask, D) = domains_index(D, ask.row, ask.marks)
           /\ ask.page = "domains_add" => Script(ask, D) = domains_add(D, ask.row, ask.marks)
           /\ ask.page = "domains_edit" => Script(ask, D) = domains_edit(D, ask.row, ask.marks)
           /\ ask.page = "domains_delete" => Script(ask, D) = domains_delete(D, ask.row, ask.marks)
           /\ ask.page = "domains_confirm_delete" => Script(ask, D) = domains_confirm_delete(D, ask.row, ask.marks)
           /\ ask.page = "adddestination" => Script(ask, D) = adddestination(D, ask.row, ask.marks)
           /\ ask.page = "editdestination" => Script(ask, D) = editdestination(D, ask.row, ask.marks)
           /\ ask.page = "deletedestination" => Script(ask, D) = deletedestination(D, ask.row, ask.marks)
           /\ ask.page = "domains_add_auth" => Script(ask, D) = domains_add_auth(D, ask.row, ask.marks)
           /\ ask.page = "domains_edit_auth" => Script(ask, D) = domains_edit_auth(D, ask.row, ask.marks)
           /\ ask.page = "domains_delete_auth" => Script(ask, D) = domains_delete_auth(D, ask.row, ask.marks)
           /\ ask.page = "auth_settings" => Script(ask, D) = auth_settings(D, ask.row, ask.marks)
           /\ ask.page = "addalias" => Script(ask, D) = addalias(D, ask.row, ask.marks)
           /\ ask.page = "editalias" => Script(ask, D) = editalias(D, ask.row, ask.marks)
           /\ ask.page = "deletealias" => Script(ask, D) = deletealias(D, ask.row, ask.marks)
           /\ ask.page = "organizations_new" => Script(ask, D) = organizations_new(D, ask.row, ask.marks)
           /\ ask.page = "organizations_delete" => Script(ask, D) = organizations_delete(D, ask.row, ask.marks)
           /\ ask.page = "organizations_add_relay" => Script(ask, D) = organizations_add_relay(D, ask.row, ask.marks)
           /\ ask.page = "organizations_edit_relay" => Script(ask, D) = organizations_edit_relay(D, ask.row, ask.marks)
           /\ ask.page = "organizations_delete_relay" => Script(ask, D) = organizations_delete_relay(D, ask.row, ask.marks)
           /\ ask.page = "lists_new" => Script(ask, D) = lists_new(D, ask.row, ask.marks)
           /\ ask.page = "list_delete" => Script(ask, D) = list_delete(D, ask.row, ask.marks)
           /\ ask.page = "add_domain_sigs" => Script(ask, D) = add_domain_sigs(D, ask.row, ask.marks)
           /\ ask.page = "edit_domain_sigs" => Script(ask, D) = edit_domain_sigs(D, ask.row, ask.marks)
           /\ ask.page = "delete_domain_sigs" => Script(ask, D) = delete_domain_sigs(D, ask.row, ask.marks)
           /\ ask.page = "add_account_sigs" => Script(ask, D) = add_account_sigs(D, ask.row, ask.marks)
           /\ ask.page = "edit_account_sigs" => Script(ask, D) = edit_account_sigs(D, ask.row, ask.marks)
           /\ ask.page = "delete_account_sigs" => Script(ask, D) = delete_account_sigs(D, ask.row, ask.marks)
BY DEF Script

(* For every page that may be asked for, and whatever the rows are that it    *)
(* loads.                                                                     *)
LEMMA PageScripts ==
    ASSUME NEW ask, PageOf(ask.page, ask.row), ask.marks \subseteq {"on"} \cup Column(ask.row), NEW D
    PROVE  Publishes(ask.page, Script(ask, D))
<1> DEFINE x == ask.row  m == ask.marks
<1>1. CASE ask.page \in UserPages /\ x \in User
  BY <1>1, EachUser, ScriptOf DEF UserPages
<1>2. CASE ask.page \in AddressPage /\ x \in Address
  BY <1>2, EachAddress, ScriptOf DEF AddressPage
<1>3. CASE ask.page \in DomainPages /\ x \in Domain
  BY <1>3, EachDomain, ScriptOf DEF DomainPages
<1>4. CASE ask.page \in DestinationPages /\ x \in Destination
  BY <1>4, EachDestination, ScriptOf DEF DestinationPages
<1>5. CASE ask.page \in AuthPages /\ x \in AuthServer
  BY <1>5, EachAuthServer, ScriptOf DEF AuthPages
<1>6. CASE ask.page = "auth_settings" /\ x \in LDAPSettings
  BY <1>6, EachLDAPSettings, ScriptOf
<1>7. CASE ask.page \in AliasPage /\ x \in Alias
  BY <1>7, EachAlias, ScriptOf DEF AliasPage
<1>8. CASE ask.page \in OrganizationPage /\ x \in Organization
  BY <1>8, EachOrganization, ScriptOf DEF OrganizationPage
<1>9. CASE ask.page \in RelayPage /\ x \in Relay
  BY <1>9, EachRelay, ScriptOf DEF RelayPage
<1>10. CASE ask.page \in ListPages /\ x \in ListItem
  BY <1>10, EachListItem, ScriptOf DEF ListPages
<1>11. CASE ask.page \in SignaturePages /\ x \in DomSignature \cup UserSignature
  BY <1>11, EachSignature, ScriptOf DEF SignaturePages
<1> QED  BY <1>1, <1>2, <1>3, <1>4, <1>5, <1>6, <1>7, <1>8, <1>9, <1>10, <1>11 DEF PageOf
-----------------------------------------------------------------------------
(* The rest of a script                                                      *)

LEMMA TailPublishes ==
    ASSUME NEW p, NEW s, Publishes(p, s), s # <<>>
    PROVE  /\ 1 \in DOMAIN s /\ Head(s) = s[1]
           /\ Publishes(p, Tail(s))
           /\ Tail(s) # <<>> => Begun(Head(Tail(s)))
           /\ \A D : Tasks(Tail(s), D) = After(s, 1, D)
           /\ \A D : Tasks(s, D) = Task_(Head(s), D) \cup After(s, 1, D)
           /\ \A D : Tasks(Tail(s), D) # {} => Tail(s) # <<>>
<1>1. PICK S : s \in Seq(S)
  BY DEF Publishes
<1> DEFINE t == Tail(s)
<1>2. /\ t \in Seq(S) /\ Len(t) = Len(s) - 1 /\ Len(t) \in Nat
      /\ \A i \in 1 .. Len(t) : t[i] = s[i + 1]
  BY <1>1, HeadTailProperties
<1>3. DOMAIN s = 1 .. Len(s) /\ DOMAIN t = 1 .. Len(t) /\ Len(s) \in Nat /\ Head(s) = s[1]
  BY <1>1, <1>2
<1> HIDE DEF t
<1>4. \A i \in DOMAIN t : i \in Nat /\ i + 1 \in DOMAIN s /\ t[i] = s[i + 1] /\ i >= 1
  BY <1>2, <1>3
<1>5. \A j \in DOMAIN s : j \in Nat /\ j >= 1 /\ (j > 1 => j - 1 \in DOMAIN t /\ (j - 1) + 1 = j)
  BY <1>2, <1>3
<1>6. ASSUME NEW i \in Nat, NEW D
      PROVE  After(t, i, D) = After(s, i + 1, D)
  <2>1. ASSUME NEW x \in After(t, i, D)
        PROVE  x \in After(s, i + 1, D)
    <3>1. PICK j \in DOMAIN t : j > i /\ x \in Task_(t[j], D)
      BY <2>1 DEF After
    <3>2. j + 1 \in DOMAIN s /\ j + 1 > i + 1 /\ x \in Task_(s[j + 1], D)
      BY <1>4, <3>1
    <3> QED  BY <3>2 DEF After
  <2>2. ASSUME NEW x \in After(s, i + 1, D)
        PROVE  x \in After(t, i, D)
    <3>1. PICK j \in DOMAIN s : j > i + 1 /\ x \in Task_(s[j], D)
      BY <2>2 DEF After
    <3>2. j > 1 /\ j \in Nat
      BY <1>5, <3>1
    <3>3. j - 1 \in DOMAIN t /\ j - 1 > i /\ t[j - 1] = s[j]
      BY <1>4, <1>5, <3>1, <3>2
    <3> QED  BY <3>1, <3>3 DEF After
  <2> QED  BY <2>1, <2>2
<1>7. \A D : Tasks(t, D) = After(s, 1, D)
  <2>1. ASSUME NEW D
        PROVE  Tasks(t, D) = After(t, 0, D)
    <3>1. \A j \in DOMAIN t : j > 0
      BY <1>4
    <3>2. \A x : x \in Tasks(t, D) <=> \E j \in DOMAIN t : x \in Task_(t[j], D)
      BY DEF Tasks
    <3>3. \A x : x \in After(t, 0, D) <=> \E j \in DOMAIN t : j > 0 /\ x \in Task_(t[j], D)
      BY DEF After
    <3> QED  BY <3>1, <3>2, <3>3
  <2>2. 0 \in Nat /\ 0 + 1 = 1
    OBVIOUS
  <2> QED  BY <1>6, <2>1, <2>2
<1>8. 1 \in DOMAIN s
  BY <1>1, <1>3
<1>9. \A D : Tasks(s, D) = Task_(Head(s), D) \cup After(s, 1, D)
  <2>1. DOMAIN s = {1} \cup {j \in DOMAIN s : j > 1}
    BY <1>5, <1>8
  <2> QED  BY <1>3, <2>1 DEF Tasks, After
<1>10. \A D : Tasks(t, D) # {} => t # <<>>
  <2>1. t = <<>> => DOMAIN t = {}
    OBVIOUS
  <2> QED  BY <2>1 DEF Tasks
<1>11. t # <<>> => Begun(Head(t))
  <2> SUFFICES ASSUME t # <<>>  PROVE Begun(Head(t))
    OBVIOUS
  <2>1. Head(t) = t[1] /\ 1 \in DOMAIN t
    BY <1>2, <1>3
  <2>2. Head(t) = s[2] /\ 2 \in DOMAIN s
    BY <1>4, <2>1
  <2> QED  BY <2>2 DEF Publishes
<1>12. Publishes(p, t)
  <2>1. ASSUME NEW i \in DOMAIN t
        PROVE  /\ t[i].kind \in {"commit", "publish"}
               /\ Begun(t[i])
               /\ t[i].kind = "commit" =>
                    /\ ChangeOK(t[i].change)
                    /\ \A D : Whole(D) /\ ~ Refused(t[i].change, D) =>
                        LET E == Apply(t[i].change, D)
                        IN  /\ Covers(p, t[i].change, D, E, After(t, i, E))
                            /\ Begun(t[i]) => After(t, i, D) \subseteq After(t, i, E)
    <3> DEFINE j == i + 1
    <3>1. i \in Nat /\ j \in DOMAIN s /\ t[i] = s[j] /\ j > 1
      BY <1>4, <2>1
    <3>2. \A D : After(t, i, D) = After(s, j, D)
      BY <1>6, <3>1
    <3> HIDE DEF j
    <3>3. s[j].kind \in {"commit", "publish"} /\ Begun(s[j])
      BY <3>1 DEF Publishes
    <3>4. s[j].kind = "commit" => ChangeOK(s[j].change)
      BY <3>1 DEF Publishes
    <3>5. ASSUME s[j].kind = "commit", NEW D, Whole(D), ~ Refused(s[j].change, D),
                 NEW E, E = Apply(s[j].change, D)
          PROVE  /\ Covers(p, s[j].change, D, E, After(s, j, E))
                 /\ Begun(s[j]) => After(s, j, D) \subseteq After(s, j, E)
      BY <3>1, <3>5 DEF Publishes
    <3> QED  BY <3>1, <3>2, <3>3, <3>4, <3>5
  <2>2. \E T : t \in Seq(T)
    BY <1>2
  <2> QED  BY <2>1, <2>2 DEF Publishes
<1> QED  BY <1>3, <1>7, <1>8, <1>9, <1>10, <1>11, <1>12 DEF t

-----------------------------------------------------------------------------
(* The types of the rows, and what is pending                                *)

Typed(D) ==
    \A x \in Row : D[x] = {} \/ ("row" \in D[x] /\ D[x] \subseteq {"row", "on"} \cup Column(x))

LEMMA AppliedTypes ==
    ASSUME NEW D, Typed(D), NEW c, ChangeOK(c), NEW E, E = Apply(c, D)
    PROVE  Typed(E) /\ DOMAIN E = Row
<1>1. DOMAIN E = Row
  BY DEF Apply
<1>2. ASSUME NEW x \in Row
      PROVE  E[x] = {} \/ ("row" \in E[x] /\ E[x] \subseteq {"row", "on"} \cup Column(x))
  <2>1. \/ E[x] = {}
        \/ E[x] = D[x]
        \/ x = c.row /\ E[x] = {"row"} \cup c.gained
        \/ x = c.row /\ D[x] # {} /\ E[x] = (D[x] \cup c.gained) \ c.lost
    BY DEF Apply
  <2> QED  BY <2>1 DEF Typed, ChangeOK
<1> QED  BY <1>1, <1>2 DEF Typed

LEMMA MendedIs ==
    ASSUME NEW tasks, NEW D
    PROVE  Mended(tasks, D) = tasks
BY DEF Mended, Target, Right, Made

LEMMA ComingIs ==
    ASSUME NEW script, NEW D
    PROVE  Coming(script, D) = Tasks(script, D) \cap scope
<1>1. Coming(script, D) = {t \in UNION {Task_(script[i], D) : i \in DOMAIN script} : t \in scope}
  BY DEF Coming, Followed_, Target, Task_
<1> QED  BY <1>1 DEF Tasks

LEMMA SilencedIs ==
    ASSUME NEW r, NEW D, NEW E, NEW q \in Request \ {r},
           NEW f \in Coming(todo[q], D), f \notin Silenced(r, D, E)
    PROVE  f \in Coming(todo[q], E) \cup Coming(Tail(todo[r]), E)
<1>1. /\ Mended(Coming(todo[q], D), D) = Coming(todo[q], D)
      /\ Mended(Coming(todo[q], E), E) = Coming(todo[q], E)
      /\ Mended(Coming(Tail(todo[r]), E), E) = Coming(Tail(todo[r]), E)
  BY MendedIs
<1>2. f \in Mended(Coming(todo[q], D), D) \ Mended(Coming(todo[q], E), E) =>
        f \in Silenced(r, D, E) \cup Mended(Coming(Tail(todo[r]), E), E)
  BY Zenon DEF Silenced
<1> QED  BY <1>1, <1>2

LEMMA StaleIs ==
    ASSUME NEW D
    PROVE  Stale(D) = {f \in scope : disk[f] # Content(f, D)}
BY DEF Stale, Right

(* A request is sure to publish what is left of its script from its second    *)
(* step on.                                                                   *)
Due(r) == todo[r] # <<>> /\ Begun(Head(todo[r]))
Pending(f) == f \in gaps \/ f \in queue \/ \E r \in Request : Due(r) /\ f \in Tasks(todo[r], db)

PagesInv ==
    /\ TypeOK
    /\ DOMAIN todo = Request /\ DOMAIN page = Request /\ DOMAIN disk = scope /\ DOMAIN db = Row
    /\ \A r \in Request : Publishes(page[r], todo[r])
    /\ \A f \in Stale(db) : Pending(f)

LEMMA PagesInit_ == Init => PagesInv
<1> SUFFICES ASSUME Init  PROVE PagesInv
  OBVIOUS
<1>1. PICK f \in Followed, rows \in {[x \in Row |-> {}], [x \in Row |-> {"row"} \cup (Column(x) \cap {"on", "ldap"})],
                             [x \in Row |-> {"row"} \cup Column(x)],
                             [x \in Row |-> IF x \in ListItem THEN {} ELSE {"row"}]} :
            InitWith(rows, {f}, [g \in {f} |-> Content(g, rows)])
  BY DEF Init
<1>2. /\ db = rows /\ scope = {f} /\ disk = [g \in {f} |-> Content(g, rows)]
      /\ todo = [r \in Request |-> <<>>] /\ page = [r \in Request |-> "none"]
      /\ asked = {} /\ queue = {} /\ gaps = {}
  BY <1>1 DEF InitWith
<1>3. Typed(rows) /\ DOMAIN rows = Row
  BY DEF Typed
<1>4. f \in File
  BY FollowedAssumption
<1>5. TypeOK
  BY <1>2, <1>3, <1>4 DEF TypeOK, Typed
<1>6. \A r \in Request : Publishes(page[r], todo[r])
  BY <1>2, NothingPublishes
<1>7. Stale(db) = {}
  BY <1>2, StaleIs
<1>8. DOMAIN todo = Request /\ DOMAIN page = Request /\ DOMAIN disk = scope /\ DOMAIN db = Row
  BY <1>2, <1>3
<1> QED  BY <1>5, <1>6, <1>7, <1>8 DEF PagesInv

(* A request ends where it is: what it was about to publish is a gap.         *)
LEMMA EndsKeep ==
    ASSUME PagesInv, NEW r \in Request, todo[r] # <<>>, gaps' = gaps \cup Abandoned(r),
           todo' = [todo EXCEPT ![r] = <<>>], UNCHANGED <<db, page, asked, scope, queue, disk>>
    PROVE  PagesInv'
<1> USE DEF PagesInv
<1>1. Abandoned(r) = Stale(db) \cap Tasks(todo[r], db) /\ Stale(db) \subseteq scope
  BY ComingIs, MendedIs, StaleIs DEF Abandoned
<1>2. /\ \A q \in Request : q # r => todo'[q] = todo[q]
      /\ todo'[r] = <<>> /\ DOMAIN todo' = Request
  OBVIOUS
<1>3. TypeOK'
  BY <1>1, <1>2 DEF TypeOK
<1>4. \A q \in Request : Publishes(page'[q], todo'[q])
  BY <1>2, NothingPublishes
<1>5. ASSUME NEW f \in Stale(db)'
      PROVE  Pending(f)'
  <2>1. f \in Stale(db) /\ Pending(f)
    BY <1>5, StaleIs DEF Stale
  <2>2. CASE f \in gaps \cup queue
    BY <2>2 DEF Pending
  <2>3. CASE \E q \in Request : Due(q) /\ f \in Tasks(todo[q], db)
    <3>1. PICK q \in Request : Due(q) /\ f \in Tasks(todo[q], db)
      BY <2>3
    <3>2. CASE q = r
      BY <1>1, <2>1, <3>1, <3>2 DEF Pending
    <3>3. CASE q # r
      BY <1>2, <3>1, <3>3 DEF Pending, Due
    <3> QED  BY <3>2, <3>3
  <2> QED  BY <2>1, <2>2, <2>3 DEF Pending
<1> QED  BY <1>2, <1>3, <1>4, <1>5

-----------------------------------------------------------------------------
(* Each action keeps the invariant                                           *)

LEMMA BeginKeeps ==
    ASSUME PagesInv, NEW r \in Request, Begin(r)
    PROVE  PagesInv'
<1> USE DEF PagesInv
<1>1. PICK ask \in Asks(scope) :
        /\ page' = [page EXCEPT ![r] = ask.page]
        /\ todo' = [todo EXCEPT ![r] = Script(ask, db)]
  BY DEF Begin
<1>2. r \notin asked /\ asked' = asked \cup {r} /\ UNCHANGED <<db, scope, queue, disk, gaps>>
  BY DEF Begin, node
<1>3. /\ \A q \in Request : q # r => todo'[q] = todo[q] /\ page'[q] = page[q]
      /\ todo'[r] = Script(ask, db) /\ page'[r] = ask.page
      /\ DOMAIN todo' = Request /\ DOMAIN page' = Request
  BY <1>1
<1>4. Publishes(ask.page, Script(ask, db))
  BY AskIs, PageScripts
<1>5. todo[r] = <<>>
  BY <1>2 DEF TypeOK
<1>6. TypeOK'
  BY <1>2, <1>3 DEF TypeOK
<1>7. ASSUME NEW f \in Stale(db)'
      PROVE  Pending(f)'
  <2>1. Pending(f)
    BY <1>2, <1>7, StaleIs DEF Stale
  <2>2. \A q \in Request : Due(q) /\ f \in Tasks(todo[q], db) => Due(q)' /\ todo'[q] = todo[q]
    BY <1>3, <1>5 DEF Due
  <2> QED  BY <1>2, <2>1, <2>2 DEF Pending
<1> QED  BY <1>2, <1>3, <1>4, <1>6, <1>7

LEMMA CommitKeeps ==
    ASSUME PagesInv, NEW r \in Request, CommitRow(r)
    PROVE  PagesInv'
<1> USE DEF PagesInv
<1> DEFINE c == Head(todo[r]).change
           s == todo[r]
           left == After(s, 1, db')
<1>1. /\ s # <<>> /\ Head(s).kind = "commit" /\ ~ Refused(c, db) /\ db' = Apply(c, db)
      /\ gaps' = gaps \cup (Stale(db)' \cap (Silenced(r, db, db') \cup Leaves(page[r], c, db)))
      /\ todo' = [todo EXCEPT ![r] = Tail(@)]
      /\ UNCHANGED <<page, asked, scope, queue, disk>>
  BY DEF CommitRow, Next_, node, Stale
<1>2. /\ \A q \in Request : q # r => todo'[q] = todo[q]
      /\ todo'[r] = Tail(s) /\ DOMAIN todo' = Request
  BY <1>1
<1>3. /\ 1 \in DOMAIN s /\ Head(s) = s[1]
      /\ Publishes(page[r], Tail(s))
      /\ Tail(s) # <<>> => Begun(Head(Tail(s)))
      /\ \A D : Tasks(Tail(s), D) = After(s, 1, D)
      /\ \A D : Tasks(s, D) = Task_(Head(s), D) \cup After(s, 1, D)
      /\ \A D : Tasks(Tail(s), D) # {} => Tail(s) # <<>>
  BY <1>1, TailPublishes
<1>4. Typed(db) /\ Whole(db)
  BY DEF TypeOK, Typed, Whole
<1>5. /\ ChangeOK(c)
      /\ Covers(page[r], c, db, db', left)
      /\ Begun(Head(s)) => After(s, 1, db) \subseteq left
  <2>1. Publishes(page[r], s)
    OBVIOUS
  <2>2. s[1].kind = "commit" /\ s[1].change = c
    BY <1>1, <1>3
  <2> HIDE DEF c, s
  <2> QED  BY <1>1, <1>3, <1>4, <2>1, <2>2 DEF Publishes
<1>6. Typed(db') /\ DOMAIN db' = Row
  BY <1>1, <1>4, <1>5, AppliedTypes
<1>7. Task_(Head(s), db) = {}
  BY <1>1 DEF Task_
<1>8. Stale(db)' = {f \in scope : disk[f] # Content(f, db')}
  BY <1>1 DEF Stale, Right
<1> HIDE DEF c
<1>9. TypeOK'
  <2>1. asked \subseteq Request /\ \A q \in Request \ asked : todo[q] = <<>>
    BY DEF TypeOK
  <2>2. r \in asked
    BY <1>1, <2>1
  <2>3. gaps' \subseteq scope
    BY <1>1, <1>8 DEF TypeOK
  <2> QED  BY <1>1, <1>2, <1>6, <2>1, <2>2, <2>3 DEF TypeOK, Typed
<1>10. ASSUME NEW q \in Request \ {r}, NEW f \in Tasks(todo[q], db) \cap scope,
              f \notin Silenced(r, db, db')
       PROVE  f \in Tasks(todo[q], db') \cup left
  <2>1. f \in Coming(todo[q], db)
    BY ComingIs
  <2>2. f \in Coming(todo[q], db') \cup Coming(Tail(todo[r]), db')
    BY <1>10, <2>1, SilencedIs
  <2>3. \/ f \in Tasks(todo[q], db')
        \/ f \in Tasks(Tail(s), db')
    BY <2>2, ComingIs
  <2> QED  BY <1>3, <2>3
<1>11. ASSUME NEW f \in Stale(db)', f \notin gaps'
       PROVE  Pending(f)'
  <2>1. CASE f \in left
    <3>1. f \in Tasks(todo'[r], db') /\ todo'[r] # <<>> /\ Begun(Head(todo'[r]))
      BY <1>2, <1>3, <2>1
    <3>2. Due(r)'
      BY <3>1 DEF Due
    <3> QED  BY <3>1, <3>2 DEF Pending
  <2>2. CASE f \notin left
    <3>1. f \in scope /\ f \in File /\ disk[f] # Content(f, db')
      BY <1>8, <1>11 DEF TypeOK
    <3>2. f \notin Silenced(r, db, db') /\ f \notin Leaves(page[r], c, db) /\ f \notin gaps
      BY <1>1, <1>11 DEF c
    <3>3. Content(f, db) = Content(f, db')
      BY <1>5, <2>2, <3>1, <3>2 DEF Covers
    <3>4. f \in Stale(db)
      BY <3>1, <3>3, StaleIs
    <3>5. CASE f \in queue
      BY <1>1, <3>5 DEF Pending
    <3>6. CASE \E q \in Request : Due(q) /\ f \in Tasks(todo[q], db)
      <4>1. PICK q \in Request : Due(q) /\ f \in Tasks(todo[q], db)
        BY <3>6
      <4>2. q # r
        <5> SUFFICES ASSUME q = r  PROVE FALSE
          OBVIOUS
        <5>1. Begun(Head(s)) /\ f \in After(s, 1, db)
          BY <1>3, <1>7, <4>1 DEF Due
        <5> QED  BY <1>5, <2>2, <5>1
      <4>3. f \in Tasks(todo'[q], db')
        BY <1>2, <1>10, <2>2, <3>1, <3>2, <4>1, <4>2
      <4>4. Due(q)'
        BY <1>2, <4>1, <4>2 DEF Due
      <4> QED  BY <4>3, <4>4 DEF Pending
    <3> QED  BY <3>2, <3>4, <3>5, <3>6 DEF Pending
  <2> QED  BY <2>1, <2>2
<1>12. \A q \in Request : Publishes(page'[q], todo'[q])
  BY <1>1, <1>2, <1>3
<1>13. \A f \in Stale(db)' : Pending(f)'
  BY <1>11 DEF Pending
<1> QED  BY <1>1, <1>2, <1>6, <1>9, <1>12, <1>13

LEMMA PublishKeeps ==
    ASSUME PagesInv, NEW r \in Request, PublishTasks(r)
    PROVE  PagesInv'
<1> USE DEF PagesInv
<1> DEFINE s == todo[r]
<1>1. /\ s # <<>> /\ Head(s).kind = "publish"
      /\ queue' = queue \cup Followed_(Wanted(Head(s).call, db))
      /\ todo' = [todo EXCEPT ![r] = Tail(@)]
      /\ UNCHANGED <<db, page, asked, scope, disk, gaps>>
  BY DEF PublishTasks, Next_
<1>2. /\ \A q \in Request : q # r => todo'[q] = todo[q]
      /\ todo'[r] = Tail(s) /\ DOMAIN todo' = Request
  BY <1>1
<1>3. /\ Publishes(page[r], Tail(s))
      /\ Tail(s) # <<>> => Begun(Head(Tail(s)))
      /\ \A D : Tasks(Tail(s), D) = After(s, 1, D)
      /\ \A D : Tasks(s, D) = Task_(Head(s), D) \cup After(s, 1, D)
      /\ \A D : Tasks(Tail(s), D) # {} => Tail(s) # <<>>
  BY <1>1, TailPublishes
<1>4. queue' = queue \cup (Task_(Head(s), db) \cap scope)
  BY <1>1 DEF Followed_, Target, Task_
<1>5. TypeOK'
  <2>1. r \in asked
    BY <1>1 DEF TypeOK
  <2> QED  BY <1>1, <1>2, <1>4, <2>1 DEF TypeOK
<1>6. ASSUME NEW f \in Stale(db)'
      PROVE  Pending(f)'
  <2>1. f \in scope /\ Pending(f)
    BY <1>1, <1>6, StaleIs DEF Stale
  <2>2. CASE f \in gaps \cup queue
    BY <1>1, <1>4, <2>2 DEF Pending
  <2>3. CASE \E q \in Request : Due(q) /\ f \in Tasks(todo[q], db)
    <3>1. PICK q \in Request : Due(q) /\ f \in Tasks(todo[q], db)
      BY <2>3
    <3>2. CASE q # r
      BY <1>1, <1>2, <3>1, <3>2 DEF Pending, Due
    <3>3. CASE q = r /\ f \in Task_(Head(s), db)
      BY <1>4, <2>1, <3>3 DEF Pending
    <3>4. CASE q = r /\ f \in After(s, 1, db)
      <4>1. f \in Tasks(todo'[r], db') /\ todo'[r] # <<>> /\ Begun(Head(todo'[r]))
        BY <1>1, <1>2, <1>3, <3>4
      <4>2. Due(r)'
        BY <4>1 DEF Due
      <4> QED  BY <4>1, <4>2 DEF Pending
    <3> QED  BY <1>3, <3>1, <3>2, <3>3, <3>4
  <2> QED  BY <2>1, <2>2, <2>3 DEF Pending
<1>7. \A q \in Request : Publishes(page'[q], todo'[q])
  BY <1>1, <1>2, <1>3
<1> QED  BY <1>1, <1>2, <1>5, <1>6, <1>7

LEMMA RunKeeps ==
    ASSUME PagesInv, NEW t \in queue, RunTask(t)
    PROVE  PagesInv'
<1> USE DEF PagesInv
<1>1. /\ queue' = queue \ {t}
      /\ disk' = [disk EXCEPT ![t] = Content(t, db)]
      /\ gaps' = gaps \ {t}
      /\ UNCHANGED <<db, todo, page, asked, scope>>
  BY DEF RunTask, Target, Made, Right, web
<1>2. t \in scope
  BY DEF TypeOK
<1>3. /\ disk'[t] = Content(t, db) /\ DOMAIN disk' = scope'
      /\ \A f \in scope : f # t => disk'[f] = disk[f]
  BY <1>1, <1>2
<1>4. TypeOK'
  BY <1>1 DEF TypeOK
<1>5. ASSUME NEW f \in Stale(db)'
      PROVE  Pending(f)'
  <2>1. f \in scope /\ disk'[f] # Content(f, db)
    BY <1>1, <1>5 DEF Stale, Right
  <2>2. f # t /\ f \in Stale(db)
    BY <1>3, <2>1, StaleIs
  <2> QED  BY <1>1, <2>2 DEF Pending, Due
<1> QED  BY <1>1, <1>3, <1>4, <1>5

LEMMA NextKeeps == PagesInv /\ [Next]_vars => PagesInv'
<1> SUFFICES ASSUME PagesInv, [Next]_vars  PROVE PagesInv'
  OBVIOUS
<1>1. ASSUME NEW r \in Request, CommitFails(r) \/ Crash(r)
      PROVE  PagesInv'
  <2>1. /\ todo[r] # <<>> /\ gaps' = gaps \cup Abandoned(r)
        /\ todo' = [todo EXCEPT ![r] = <<>>] /\ UNCHANGED <<db, page, asked, scope, queue, disk>>
    BY <1>1 DEF CommitFails, Crash, Next_, node
  <2> QED  BY <2>1, EndsKeep
<1>2. ASSUME NEW r \in Request, ReadRows(r)
      PROVE  FALSE
  <2>1. todo[r] # <<>> /\ Head(todo[r]).kind = "read" /\ Publishes(page[r], todo[r])
    BY <1>2 DEF ReadRows, Next_, PagesInv
  <2>2. 1 \in DOMAIN todo[r] /\ Head(todo[r]) = todo[r][1]
    BY <2>1, TailPublishes
  <2>3. todo[r][1].kind \in {"commit", "publish"}
    BY <2>1, <2>2 DEF Publishes
  <2> QED  BY <2>1, <2>2, <2>3
<1>3. CASE UNCHANGED vars
  BY <1>3 DEF vars, web, node, PagesInv, TypeOK, Stale, Right, Pending, Due
<1>4. CASE Next
  BY <1>1, <1>2, <1>4, BeginKeeps, CommitKeeps, PublishKeeps, RunKeeps DEF Next, Step
<1> QED  BY <1>3, <1>4

-----------------------------------------------------------------------------
(* The theorems                                                              *)

(* Whatever page is asked for and whatever rows it loads, and whatever others *)
(* have made of the rows when it commits: what is left of its script then     *)
(* publishes every file that its change turns stale, but for those that       *)
(* Leaves names; and what it publishes is not made less by its own later      *)
(* commits. The order of the calls in lib/api.py is what makes this true.     *)
THEOREM PagesPublish ==
    \A files : \A ask \in Asks(files) : \A D : Publishes(ask.page, Script(ask, D))
<1> TAKE files
<1> TAKE ask \in Asks(files)
<1> TAKE D
<1> QED  BY AskIs, PageScripts

(* The rows keep to their tables' columns, a page goes on with its script     *)
(* only if it was asked for, and tasks are about files that are followed.     *)
THEOREM DirectoryTypeCorrect == Spec => []TypeOK
<1>1. PagesInv => TypeOK
  BY DEF PagesInv
<1> QED  BY <1>1, PagesInit_, NextKeeps, PTL DEF Spec

LEMMA DirectorySettles == PagesInv => DOMAIN db = Row /\ DirectoryFilesSettle
<1> SUFFICES ASSUME PagesInv  PROVE DOMAIN db = Row /\ StaleIsPending
  BY DEF DirectoryFilesSettle
<1>1. \A f \in Stale(db) : f \in scope /\ Pending(f)
  BY StaleIs DEF PagesInv
<1>2. Mended(queue, db) = queue
  BY MendedIs
<1>3. \A r \in Request : Mended(Coming(todo[r], db), db) = Tasks(todo[r], db) \cap scope
  BY MendedIs, ComingIs
<1>4. StaleIsPending
  BY <1>1, <1>2, <1>3 DEF StaleIsPending, Pending
<1> QED  BY <1>4 DEF PagesInv

(* A file of exim or MailScanner that is not what the rows say is about to be *)
(* put right, by a queued task or by a request that has yet to publish it, or *)
(* it is in gaps: however many pages of controllers/domains, accounts,        *)
(* organizations, lists and settings run at once, and die, for any rows.      *)
THEOREM FilesSettle == Spec => [](DOMAIN db = Row /\ DirectoryFilesSettle)
BY DirectorySettles, PagesInit_, NextKeeps, PTL DEF Spec

-----------------------------------------------------------------------------
(* Both kinds of pages: a behaviour keeps to the tables it begins with.       *)

PagesBothInv == IF InSettings THEN SP!SettingsInv ELSE PagesInv

LEMMA PagesBothInit == PagesInit => PagesBothInv
<1>1. ASSUME Init
      PROVE  PagesBothInv
  <2>1. PagesInv
    BY <1>1, PagesInit_
  <2>2. ~ InSettings
    BY <2>1, PagesAssumption DEF PagesInv, InSettings
  <2> QED  BY <2>1, <2>2 DEF PagesBothInv
<1>2. ASSUME SP!Init
      PROVE  PagesBothInv
  <2>1. SP!SettingsInv
    BY <1>2, PagesAssumption, SP!InitHolds
  <2>2. InSettings
    BY <2>1 DEF SP!SettingsInv, SP!Rows, InSettings
  <2> QED  BY <2>1, <2>2 DEF PagesBothInv
<1> QED  BY <1>1, <1>2 DEF PagesInit

LEMMA PagesBothNext == PagesBothInv /\ [PagesNext]_vars => PagesBothInv'
<1> SUFFICES ASSUME PagesBothInv, [PagesNext]_vars
             PROVE  PagesBothInv'
  OBVIOUS
<1>1. CASE InSettings
  <2>1. SP!SettingsInv /\ [SP!Next]_(SP!vars)
    BY <1>1 DEF PagesBothInv, PagesNext, vars, web, node, SP!vars, SP!web, SP!node
  <2>2. SP!SettingsInv'
    BY <2>1, PagesAssumption, SP!NextKeeps
  <2>3. InSettings'
    BY <2>2 DEF SP!SettingsInv, SP!Rows, InSettings
  <2> QED  BY <2>2, <2>3 DEF PagesBothInv
<1>2. CASE ~ InSettings
  <2>1. PagesInv /\ [Next]_vars
    BY <1>2 DEF PagesBothInv, PagesNext
  <2>2. PagesInv'
    BY <2>1, NextKeeps
  <2>3. ~ InSettings'
    BY <2>2, PagesAssumption DEF PagesInv, InSettings
  <2> QED  BY <2>2, <2>3 DEF PagesBothInv
<1> QED  BY <1>1, <1>2

(* The types of Directory or of Settings, whichever a behaviour is of.        *)
THEOREM PagesTypeCorrect == PagesSpec => []PagesTypeOK
<1>1. PagesBothInv => PagesTypeOK
  BY PagesAssumption, SP!SettingsTypes DEF PagesBothInv, PagesTypeOK, PagesInv
<1> QED  BY <1>1, PagesBothInit, PagesBothNext, PTL DEF PagesSpec

(* A rules file, a ruleset, a key or a table of settings that is not what the *)
(* rows say is about to be put right, by a queued task or by a request that   *)
(* has yet to publish it, or it is in gaps; and so is a file of Directory: for *)
(* any rows, any number of requests at once and of processes killed.          *)
THEOREM BothSettle == PagesSpec => [](SettingsFilesSettle /\ DirectoryFilesSettle)
<1>1. PagesBothInv => SettingsFilesSettle
  BY SP!StaleSettles DEF PagesBothInv, SettingsFilesSettle
<1>2. PagesBothInv => DirectoryFilesSettle
  <2>1. CASE InSettings
    BY <2>1, PagesAssumption DEF InSettings, DirectoryFilesSettle
  <2>2. CASE ~ InSettings
    BY <2>2, DirectorySettles DEF PagesBothInv
  <2> QED  BY <2>1, <2>2
<1> QED  BY <1>1, <1>2, PagesBothInit, PagesBothNext, PTL DEF PagesSpec

=============================================================================
