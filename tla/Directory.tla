------------------------------ MODULE Directory ------------------------------
(***************************************************************************)
(* Organizations, their relays and domains, the accounts of the domains,   *)
(* approved and banned senders, signatures: the pages that edit them       *)
(* (controllers/domains, accounts, organizations, lists, settings over     *)
(* lib/api.py), what lib/backend.py publishes, and the files that exim     *)
(* (tasks/mta.py over the views of integration.sql) and MailScanner        *)
(* (tasks/settings.py) get from the rows.                                  *)
(*                                                                         *)
(* A row is the set of its marks: "row" when it exists, "on" when it is    *)
(* active or enabled, the name of a column when the column is not at its   *)
(* default. A page first loads its row; what it changes is the difference  *)
(* to the row it loaded. Who may open a page is not modelled.              *)
(***************************************************************************)
EXTENDS Naturals, Sequences, SequencesExt

CONSTANTS
    Organization, Relay, Domain, Alias, Destination, AuthServer, LDAPSettings,
    User, Address, ListItem, DomSignature, UserSignature,   \* ids of rows
    HTML,       \* the signatures of type 2, the others are text
    Of,         \* the parent of a row that has one
    Followed,   \* the files that are followed, one in each behaviour
    Request, MaxCrash

Row == UNION {Organization, Relay, Domain, Alias, Destination, AuthServer,
              LDAPSettings, User, Address, ListItem, DomSignature, UserSignature}

(* Rows that go with their parent: cascade='delete, delete-orphan' of        *)
(* Domain and of User. A relay stays, its org_id set to NULL.                *)
DomainChild == Alias \cup Destination \cup AuthServer \cup DomSignature
UserChild == Address \cup ListItem \cup UserSignature

(* A row is of one table. *)
Table == <<Organization, Relay, Domain, Alias, Destination, AuthServer,
           LDAPSettings, User, Address, ListItem, DomSignature, UserSignature>>

ASSUME DirectoryAssumption ==
    /\ \A i, j \in 1 .. 12 : i # j => Table[i] \cap Table[j] = {}
    /\ Of \in [DomainChild \cup UserChild \cup LDAPSettings \cup Relay \cup Domain -> Row]
    /\ HTML \subseteq DomSignature \cup UserSignature
    /\ \A x \in DomainChild : Of[x] \in Domain
    /\ \A x \in UserChild : Of[x] \in User
    /\ \A x \in LDAPSettings : Of[x] \in AuthServer
    /\ \A x \in Relay \cup Domain : Of[x] \in Organization
    /\ IsFiniteSet(ListItem) /\ MaxCrash \in Nat

VARIABLES db, todo, page, asked, scope, queue, disk, gaps, crashes

-----------------------------------------------------------------------------
(* The views of integration.sql and the shapes of the rulesets *)

Here(D, S) == {x \in S : D[x] # {}}
On(D, S) == {x \in S : "on" \in D[x]}
ChildrenOf(d, S) == {x \in S : Of[x] = d}

alldomains(D) ==    \* <<name, domain>>; relaydomains and ldapmaps are alike
    UNION {{<<n, d>> : n \in {d} \cup On(D, ChildrenOf(d, Alias))} : d \in On(D, Domain)}

mtasettings(D) ==   \* <<name, domain, server>>
    UNION {{<<p[1], p[2], s>> : s \in On(D, ChildrenOf(p[2], Destination))} : p \in alldomains(D)}

routedata(D) ==     \* the enabled rows; that of an alias is on with the alias
    {<<Of[s], s>> : s \in On(D, Destination)} \cup
    UNION {{<<n, s>> : n \in On(D, ChildrenOf(Of[s], Alias))} : s \in Here(D, Destination)}

ldaplookup(D) ==    \* <<domain, settings>>
    {<<Of[Of[l]], l>> : l \in Here(D, LDAPSettings)}

(* A ruleset names a domain and its active aliases, an account and its       *)
(* active addresses; the domain itself need not be active (Session.query).   *)
Names(D, x) == {x} \cup On(D, ChildrenOf(x, IF x \in Domain THEN Alias ELSE Address))
DomainLines(D, column) ==
    UNION {Names(D, d) : d \in {x \in Domain : column \in D[x]}}
UserLines(D, column) == UNION {Names(D, u) : u \in {x \in User : column \in D[x]}}
HostLines(D, column) == {y \in Relay : {"address", column} \subseteq D[y]}

(* An active account with a signature, and its addresses whether the account *)
(* is active or not; the active domains with one and their aliases.          *)
SignedBy(D, kind) ==
    LET us == {Of[g] : g \in On(D, UserSignature \cap kind)}
        ds == {Of[g] : g \in On(D, DomSignature \cap kind)}
    IN  On(D, us) \cup On(D, {m \in Address : Of[m] \in us})
          \cup {p[1] : p \in {q \in alldomains(D) : q[2] \in ds}}

-----------------------------------------------------------------------------
(* The tasks: what each one writes *)

create_relay_domains(D) == {p[1] : p \in alldomains(D)}
create_relay_hosts(D) == HostLines(D, "on")
create_relay_proto_domains(D, lmtp) ==
    {t[1] : t \in {x \in mtasettings(D) : ("lmtp" \in D[x[3]]) = lmtp}}
create_ldap_domains(D) ==
    {t[1] : t \in {x \in mtasettings(D) : "ldap_callout" \in D[x[2]]}}
create_ldap_data(D) ==
    {<<q[1][1], q[2][2], "url" \in D[q[2][2]], "url" \in D[Of[q[2][2]]]>> :
        q \in {x \in alldomains(D) \X ldaplookup(D) : x[1][2] = x[2][1]}}
create_callback_domains(D) ==
    {t[1] : t \in {x \in mtasettings(D) : "smtp_callout" \in D[x[2]]}}
create_domain_lists(D, banned) ==
    {w \in Here(D, ListItem) : ("banned" \in D[w]) = banned /\ "any" \in D[w]}
create_route_data(D) == routedata(D)
create_auth_data(D) == {y \in Relay : "username" \in D[y]}
create_by_mode(D, lmtp, nonrandom) ==
    {t[1] : t \in {x \in mtasettings(D) :
        ("lmtp" \in D[x[3]]) = lmtp /\ ("nonrandom" \in D[x[2]]) = nonrandom}}
create_smtp(D, nonrandom) == create_by_mode(D, FALSE, nonrandom)
create_lmtp(D, nonrandom) == create_by_mode(D, TRUE, nonrandom)
create_post_smtp_av(D) ==
    {p[1] : p \in {x \in alldomains(D) : "virus_checks_at_smtp" \in D[x[2]]}}
create_av_disabled(D) ==
    {p[1] : p \in {x \in alldomains(D) : "virus_checks" \in D[x[2]]}}
create_ratelimit(D) == On(D, Relay)

create_spam_checks(D) == UserLines(D, "spam_checks") \cup DomainLines(D, "spam_checks")
create_virus_checks(D) ==   \* scanned here, and not while exim has the message
    UNION {Names(D, d) : d \in {x \in Here(D, Domain) :
        "virus_checks" \notin D[x] /\ "virus_checks_at_smtp" \in D[x]}}
create_spam_actions(D) == DomainLines(D, "spam_actions") \cup HostLines(D, "spam_actions")
create_highspam_actions(D) ==
    DomainLines(D, "highspam_actions") \cup HostLines(D, "highspam_actions")
ScoreLines(D, column) ==    \* names every alias and address, active or not
    HostLines(D, column) \cup
    UNION {{x} \cup Here(D, ChildrenOf(x, Alias \cup Address)) :
            x \in {y \in Domain \cup User : column \in D[y]}}
create_spam_scores(D) == ScoreLines(D, "low_score")
create_highspam_scores(D) == ScoreLines(D, "high_score")
create_lists(D, banned) == {w \in Here(D, ListItem) : ("banned" \in D[w]) = banned}
create_message_size(D) == DomainLines(D, "message_size")
create_language_based(D) == DomainLines(D, "language")
create_sign_clean(D) == SignedBy(D, Row \ HTML)
create_text_sigs(D) == SignedBy(D, Row \ HTML)
create_html_sigs(D) == SignedBy(D, HTML)

(* A file is named by the task that makes it. *)
Content(f, D) ==
    CASE f = "create_relay_domains" -> create_relay_domains(D)
      [] f = "create_relay_hosts" -> create_relay_hosts(D)
      [] f = "create_relay_proto_domains(1)" -> create_relay_proto_domains(D, FALSE)
      [] f = "create_relay_proto_domains(2)" -> create_relay_proto_domains(D, TRUE)
      [] f = "create_ldap_domains" -> create_ldap_domains(D)
      [] f = "create_ldap_data" -> create_ldap_data(D)
      [] f = "create_callback_domains" -> create_callback_domains(D)
      [] f = "create_domain_lists(1)" -> create_domain_lists(D, FALSE)
      [] f = "create_domain_lists(2)" -> create_domain_lists(D, TRUE)
      [] f = "create_route_data" -> create_route_data(D)
      [] f = "create_auth_data" -> create_auth_data(D)
      [] f = "create_smtp(1)" -> create_smtp(D, FALSE)
      [] f = "create_smtp(2)" -> create_smtp(D, TRUE)
      [] f = "create_lmtp(1)" -> create_lmtp(D, FALSE)
      [] f = "create_lmtp(2)" -> create_lmtp(D, TRUE)
      [] f = "create_post_smtp_av" -> create_post_smtp_av(D)
      [] f = "create_av_disabled" -> create_av_disabled(D)
      [] f = "create_ratelimit" -> create_ratelimit(D)
      [] f = "create_spam_checks" -> create_spam_checks(D)
      [] f = "create_virus_checks" -> create_virus_checks(D)
      [] f = "create_spam_actions" -> create_spam_actions(D)
      [] f = "create_highspam_actions" -> create_highspam_actions(D)
      [] f = "create_spam_scores" -> create_spam_scores(D)
      [] f = "create_highspam_scores" -> create_highspam_scores(D)
      [] f = "create_lists(1)" -> create_lists(D, FALSE)
      [] f = "create_lists(2)" -> create_lists(D, TRUE)
      [] f = "create_message_size" -> create_message_size(D)
      [] f = "create_language_based" -> create_language_based(D)
      [] f = "create_sign_clean" -> create_sign_clean(D)
      [] f = "create_text_sigs" -> create_text_sigs(D)
      [] f = "create_html_sigs" -> create_html_sigs(D)

-----------------------------------------------------------------------------
(* lib/backend.py: the files published for a row with the marks m.           *)
(* force=True is a row with every mark.                                      *)

If(mark, marks, files) == IF mark \in marks THEN files ELSE {}

backend_user_update(m) ==
    If("spam_checks", m, {"create_spam_checks"})
    \cup If("low_score", m, {"create_spam_scores"})
    \cup If("high_score", m, {"create_highspam_scores"})

update_domain_backend(m) ==
    {"create_relay_domains", "create_callback_domains", "create_post_smtp_av",
     "create_av_disabled", "create_ldap_domains", "create_smtp(1)",
     "create_lmtp(1)", "create_smtp(2)", "create_lmtp(2)", "create_route_data"}
    \cup If("language", m, {"create_language_based"})
    \cup If("message_size", m, {"create_message_size"})
    \cup If("high_score", m, {"create_highspam_scores"})
    \cup If("low_score", m, {"create_spam_scores"})
    \cup If("highspam_actions", m, {"create_highspam_actions"})
    \cup If("spam_actions", m, {"create_spam_actions"})
    \cup If("virus_checks", m, {"create_virus_checks"})
    \cup If("virus_checks_at_smtp", m, {"create_virus_checks"})
    \cup If("spam_checks", m, {"create_spam_checks"})

update_relay_backend(m) ==
    {"create_relay_hosts", "create_auth_data", "create_ratelimit"}
    \cup If("high_score", m, {"create_highspam_scores"})
    \cup If("low_score", m, {"create_spam_scores"})
    \cup If("highspam_actions", m, {"create_highspam_actions"})
    \cup If("spam_actions", m, {"create_spam_actions"})

update_destination_backend(m) ==
    {"create_smtp(1)", "create_lmtp(1)", "create_smtp(2)", "create_lmtp(2)",
     "create_route_data",
     IF "lmtp" \in m THEN "create_relay_proto_domains(2)"
                     ELSE "create_relay_proto_domains(1)"}

update_auth_backend(m) == If("ldap", m, {"create_ldap_domains"})

update_lists_backend(m) ==
    IF "banned" \in m THEN {"create_lists(2)", "create_domain_lists(2)"}
                      ELSE {"create_lists(1)", "create_domain_lists(1)"}

(* an HTML signature's images are not modelled, nor their two rulesets *)
backend_sig_update(g) ==
    {"create_sign_clean", IF g \in HTML THEN "create_html_sigs" ELSE "create_text_sigs"}

update_ldap_backend == {"create_ldap_data"}

-----------------------------------------------------------------------------
(* The statements of lib/api.py                                             *)

Every == {"spam_checks", "low_score", "high_score", "spam_actions",
    "highspam_actions", "message_size", "language", "virus_checks",
    "virus_checks_at_smtp"}

Commit(change) == [kind |-> "commit", change |-> change]
ChangeBy(kind, x, gained, lost, copied, copy) ==
    Commit([kind |-> kind, row |-> x, gained |-> gained, lost |-> lost, copied |-> copied, copy |-> copy])
Change(kind, x, gained, lost) == ChangeBy(kind, x, gained, lost, x, Every)
Insert(x, marks) == Change("insert", x, marks, {})
Update(x, loaded, toggle) ==    \* the columns that differ from the loaded row
    Change("update", x, toggle \ loaded, toggle \cap loaded)
Set(x, marks, others) == Change("set", x, marks, others)    \* query().update()
Delete(x) == Change("delete", x, {}, {})
DeleteAll(x) == Change("delete_all", x, {}, {})
DeleteWith(x, y, was) ==        \* what is published goes by a deepcopy of y
    ChangeBy("delete", x, {}, {}, y, was)

(* A backend function reads the row again after the commit (Live), was given *)
(* a copy made before it, or is forced.                                      *)
Publish(call) == [kind |-> "publish", call |-> call]
Live(backend, x) == Publish([backend |-> backend, row |-> x, live |-> TRUE, marks |-> {}])
Copy(backend, x, marks) == Publish([backend |-> backend, row |-> x, live |-> FALSE, marks |-> marks])
Forced(backend, x) == Copy(backend, x, Every)

Wanted(call, D) ==
    LET m == IF call.live THEN D[call.row] ELSE call.marks
        gone == call.live /\ m = {}     \* ObjectDeletedError
    IN  CASE call.backend = "user" -> backend_user_update(m)
          [] call.backend = "domain" -> update_domain_backend(m)
          [] call.backend = "relay" -> update_relay_backend(m)
          [] call.backend = "destination" ->
                IF gone THEN {} ELSE update_destination_backend(m)
          [] call.backend = "auth" -> update_auth_backend(m)
          [] call.backend = "ldap" -> update_ldap_backend
          [] call.backend = "lists" -> IF gone THEN {} ELSE update_lists_backend(m)
          [] call.backend = "sig" -> IF gone THEN {} ELSE backend_sig_update(call.row)

create_user(u, m) == <<Insert(u, m), Live("user", u)>>
update_user(u, was, toggle) == <<Update(u, was, toggle), Live("user", u)>>
delete_user(u, was) == <<DeleteWith(u, u, was), Copy("user", u, was)>>
create_address(a, m) == <<Insert(a, m), Live("user", Of[a])>>
update_address(a, was, toggle) == <<Update(a, was, toggle), Live("user", Of[a])>>
delete_address(a, owner) == <<DeleteWith(a, Of[a], owner), Copy("user", Of[a], owner)>>
create_domain(d, m) == <<Insert(d, m), Live("domain", d)>>
update_domain(d, was, toggle) == <<Update(d, was, toggle), Forced("domain", d)>>
delete_domain(d, was) == <<DeleteWith(d, d, was), Copy("domain", d, was)>>
create_destination(s, m) == <<Insert(s, m), Live("destination", s)>>
update_destination(s, was, toggle) == <<Update(s, was, toggle), Live("destination", s)>>
delete_destination_early(s, was) ==     \* published before the commit
    <<Copy("destination", s, was), DeleteWith(s, s, was)>>
delete_destination(s, was) == <<DeleteWith(s, s, was), Copy("destination", s, was)>>
create_auth(s, m) == <<Insert(s, m), Live("auth", s)>>
edit_auth(s, was, toggle) == <<Update(s, was, toggle), Live("auth", s)>>
delete_auth(s, was) == <<Delete(s), Copy("auth", s, was)>>
create_alias(a, m) == <<Insert(a, m), Live("domain", Of[a])>>
edit_alias(a, was, toggle) == <<Update(a, was, toggle), Live("domain", Of[a])>>
delete_alias(a, parent) == <<DeleteWith(a, Of[a], parent), Copy("domain", Of[a], parent)>>
create_org(o) == <<Insert(o, {})>>
delete_org(o, delete_domains) == <<IF delete_domains THEN DeleteAll(o) ELSE Delete(o)>>
add_relay(y, m) == <<Insert(y, m), Live("relay", y)>>
edit_relay(y, was, toggle) == <<Update(y, was, toggle), Live("relay", y)>>
delete_relay(y) == <<Delete(y), Forced("relay", y)>>

-----------------------------------------------------------------------------
(* The pages: controllers/. A page reads its row, possibly from the cache    *)
(* (FromCache), and is a 404 when the row is not there. m are the marks a    *)
(* form gives a new row, or the one column it changes in an old one.         *)

Found(D, x, script) == IF D[x] = {} THEN <<>> ELSE script

accounts_index(D, u, m) ==      \* the bulk form: whatdo=enable or disable
    Found(D, u, <<IF m = {} THEN Set(u, {}, {"on"}) ELSE Set(u, {"on"}, {})>>)
accounts_add(D, u, m) == create_user(u, m)
accounts_edit(D, u, m) == Found(D, u, update_user(u, D[u], m))
accounts_delete(D, u, m) == Found(D, u, delete_user(u, D[u]))
accounts_confirm_delete(D, u, m) == Found(D, u, <<Delete(u), Forced("user", u)>>)
addaddress(D, a, m) == Found(D, Of[a], create_address(a, m))
editaddress(D, a, m) == Found(D, a, update_address(a, D[a], m))
deleteaddress(D, a, m) == Found(D, a, delete_address(a, D[Of[a]]))

domains_index(D, d, m) ==
    Found(D, d, <<IF m = {} THEN Set(d, {}, {"on"}) ELSE Set(d, {"on"}, {})>>)
domains_add(D, d, m) == create_domain(d, m)
domains_edit(D, d, m) == Found(D, d, update_domain(d, D[d], m))
domains_delete(D, d, m) == Found(D, d, delete_domain(d, D[d]))
domains_confirm_delete(D, d, m) == Found(D, d, <<Delete(d), Forced("domain", d)>>)
adddestination(D, s, m) == Found(D, Of[s], create_destination(s, m))
editdestination(D, s, m) == Found(D, s, update_destination(s, D[s], m))
deletedestination(D, s, m) == Found(D, s, delete_destination(s, D[s]))
domains_add_auth(D, s, m) == Found(D, Of[s], create_auth(s, m))
domains_edit_auth(D, s, m) == Found(D, s, edit_auth(s, D[s], m))
domains_delete_auth(D, s, m) == Found(D, s, delete_auth(s, D[s]))
auth_settings(D, l, m) ==   \* of an LDAP server: made, or its URL changed
    IF "ldap" \notin D[Of[l]] \/ (D[l] # {} /\ m = {}) THEN <<>>
    ELSE <<IF D[l] = {} THEN Insert(l, m) ELSE Update(l, D[l], m), Copy("ldap", l, {})>>
addalias(D, a, m) == Found(D, Of[a], create_alias(a, m))
editalias(D, a, m) == Found(D, a, edit_alias(a, D[a], m))
deletealias(D, a, m) == Found(D, a, delete_alias(a, D[Of[a]]))

organizations_new(D, o, m) == create_org(o)
organizations_delete(D, o, m) == Found(D, o, delete_org(o, m # {}))
organizations_add_relay(D, y, m) == Found(D, Of[y], add_relay(y, m))
organizations_edit_relay(D, y, m) == Found(D, y, edit_relay(y, D[y], m))
organizations_delete_relay(D, y, m) == Found(D, y, delete_relay(y))

(* The item, then the same sender for the user's other addresses, each in    *)
(* its own transaction. An IntegrityError of the second kind is swallowed    *)
(* without a rollback: the next statement raises.                            *)
lists_new(D, w, m) ==
    LET others == IF "add_to_alias" \in m
                  THEN SetToSeq({x \in ListItem \ {w} : Of[x] = Of[w]}) ELSE <<>>
        marks == m \ {"add_to_alias"}
        Also(x) == ChangeBy("also", x, marks, {}, w, Every)
    IN  Found(D, Of[w], <<Insert(w, marks)>>
                        \o [i \in DOMAIN others |-> Also(others[i])]
                        \o <<Live("lists", w)>>)
list_delete(D, w, m) == Found(D, w, <<DeleteWith(w, w, D[w]), Copy("lists", w, D[w])>>)

add_sigs(D, g, m) == <<Insert(g, m), Live("sig", g)>>
edit_sigs(D, g, m) == <<Update(g, D[g], m), Copy("sig", g, D[g])>>
delete_sigs(D, g, m) == <<Delete(g), Copy("sig", g, D[g])>>
add_domain_sigs(D, g, m) == Found(D, Of[g], add_sigs(D, g, m))
edit_domain_sigs(D, g, m) == Found(D, g, edit_sigs(D, g, m))
delete_domain_sigs(D, g, m) == Found(D, g, delete_sigs(D, g, m))
add_account_sigs(D, g, m) == Found(D, Of[g], add_sigs(D, g, m))
edit_account_sigs(D, g, m) == Found(D, g, edit_sigs(D, g, m))
delete_account_sigs(D, g, m) == Found(D, g, delete_sigs(D, g, m))

-----------------------------------------------------------------------------
(* What the scripts do to the rows, and where they fail                      *)

Children(xs) == {y \in DOMAIN Of \ Relay : Of[y] \in xs /\ y \notin Domain}
WithChildren(xs) == xs \cup Children(xs) \cup Children(Children(xs))
DomainsOf(o) == {d \in Domain : Of[d] = o}

Removed(change) ==
    CASE change.kind = "delete" -> WithChildren({change.row})
      [] change.kind = "delete_all" -> WithChildren({change.row} \cup DomainsOf(change.row))
      [] OTHER -> {}

ApplyUpserts(change, D) ==      \* an UPDATE that makes the row
    [D EXCEPT ![change.row] = (@ \cup change.gained) \ change.lost]

Apply(change, D) ==
    [x \in Row |->
        IF x \in Removed(change) THEN {}
        ELSE IF x # change.row THEN D[x]
        ELSE IF change.kind \in {"insert", "also"} THEN {"row"} \cup change.gained
        ELSE IF D[x] = {} THEN {}       \* an UPDATE of no row
        ELSE (D[x] \cup change.gained) \ change.lost]

(* IntegrityError, or StaleDataError for a row that has gone. No page changes *)
(* a list item: one that differs from what was loaded is a new row, which    *)
(* PostgreSQL would have given an id of its own.                             *)
Refused(change, D) ==
    CASE change.kind \in {"insert", "also"} ->
            D[change.row] # {} \/ (change.row \in DOMAIN Of \ (Relay \cup Domain)
                                   /\ D[Of[change.row]] = {})
      [] change.kind = "set" -> FALSE
      [] OTHER -> D[change.row] = {}
                  \/ (change.row \in ListItem /\ D[change.row] # change.copy)

Script(ask, D) ==
    LET p == ask.page  x == ask.row  m == ask.marks
    IN  CASE p = "accounts_index" -> accounts_index(D, x, m)
          [] p = "accounts_add" -> accounts_add(D, x, m)
          [] p = "accounts_edit" -> accounts_edit(D, x, m)
          [] p = "accounts_delete" -> accounts_delete(D, x, m)
          [] p = "accounts_confirm_delete" -> accounts_confirm_delete(D, x, m)
          [] p = "addaddress" -> addaddress(D, x, m)
          [] p = "editaddress" -> editaddress(D, x, m)
          [] p = "deleteaddress" -> deleteaddress(D, x, m)
          [] p = "domains_index" -> domains_index(D, x, m)
          [] p = "domains_add" -> domains_add(D, x, m)
          [] p = "domains_edit" -> domains_edit(D, x, m)
          [] p = "domains_delete" -> domains_delete(D, x, m)
          [] p = "domains_confirm_delete" -> domains_confirm_delete(D, x, m)
          [] p = "adddestination" -> adddestination(D, x, m)
          [] p = "editdestination" -> editdestination(D, x, m)
          [] p = "deletedestination" -> deletedestination(D, x, m)
          [] p = "domains_add_auth" -> domains_add_auth(D, x, m)
          [] p = "domains_edit_auth" -> domains_edit_auth(D, x, m)
          [] p = "domains_delete_auth" -> domains_delete_auth(D, x, m)
          [] p = "auth_settings" -> auth_settings(D, x, m)
          [] p = "addalias" -> addalias(D, x, m)
          [] p = "editalias" -> editalias(D, x, m)
          [] p = "deletealias" -> deletealias(D, x, m)
          [] p = "organizations_new" -> organizations_new(D, x, m)
          [] p = "organizations_delete" -> organizations_delete(D, x, m)
          [] p = "organizations_add_relay" -> organizations_add_relay(D, x, m)
          [] p = "organizations_edit_relay" -> organizations_edit_relay(D, x, m)
          [] p = "organizations_delete_relay" -> organizations_delete_relay(D, x, m)
          [] p = "lists_new" -> lists_new(D, x, m)
          [] p = "list_delete" -> list_delete(D, x, m)
          [] p = "add_domain_sigs" -> add_domain_sigs(D, x, m)
          [] p = "edit_domain_sigs" -> edit_domain_sigs(D, x, m)
          [] p = "delete_domain_sigs" -> delete_domain_sigs(D, x, m)
          [] p = "add_account_sigs" -> add_account_sigs(D, x, m)
          [] p = "edit_account_sigs" -> edit_account_sigs(D, x, m)
          [] p = "delete_account_sigs" -> delete_account_sigs(D, x, m)

(* BOUND: a page is asked for only when its row, or a row that goes with it, *)
(* is one the followed files are made from, and with the columns they read.  *)
EximRelay == {"create_relay_hosts", "create_auth_data", "create_ratelimit"}
EximLists == {"create_domain_lists(1)", "create_domain_lists(2)"}
EximDomains == {"create_relay_domains", "create_post_smtp_av", "create_av_disabled"}
EximRoutes == {"create_relay_proto_domains(1)", "create_relay_proto_domains(2)",
    "create_ldap_domains", "create_callback_domains", "create_route_data",
    "create_smtp(1)", "create_smtp(2)", "create_lmtp(1)", "create_lmtp(2)"}
Signing == {"create_sign_clean", "create_text_sigs", "create_html_sigs"}
Lists == {"create_lists(1)", "create_lists(2)"}
Rulesets == {"create_spam_checks", "create_virus_checks", "create_spam_actions",
    "create_highspam_actions", "create_spam_scores", "create_highspam_scores",
    "create_message_size", "create_language_based"}
File == EximRelay \cup EximLists \cup EximDomains \cup EximRoutes \cup {"create_ldap_data"}
            \cup Signing \cup Lists \cup Rulesets
ASSUME FollowedAssumption == \A f \in Followed : f \in File

RowsOf(f) ==
    CASE f \in EximRelay -> Relay
      [] f \in EximLists \cup Lists -> ListItem
      [] f \in EximDomains -> Domain \cup Alias
      [] f \in EximRoutes -> Domain \cup Alias \cup Destination
      [] f = "create_ldap_data" -> Domain \cup Alias \cup AuthServer \cup LDAPSettings
      [] f = "create_html_sigs" -> Domain \cup Alias \cup User \cup Address \cup HTML
      [] f \in Signing \ {"create_html_sigs"} -> Domain \cup Alias \cup User \cup Address
                            \cup ((DomSignature \cup UserSignature) \ HTML)
      [] f \in Rulesets -> Domain \cup Alias \cup
            (IF f \in {"create_spam_checks", "create_spam_scores", "create_highspam_scores"}
             THEN User \cup Address ELSE {}) \cup
            (IF f \in {"create_spam_checks", "create_virus_checks", "create_message_size",
                       "create_language_based"} THEN {} ELSE Relay)

ColumnOf ==
    [create_post_smtp_av |-> {"virus_checks_at_smtp"}, create_av_disabled |-> {"virus_checks"},
     create_virus_checks |-> {"virus_checks", "virus_checks_at_smtp"},
     create_ldap_domains |-> {"ldap_callout"}, create_callback_domains |-> {"smtp_callout"},
     create_auth_data |-> {"username"},
     create_spam_checks |-> {"spam_checks"}, create_message_size |-> {"message_size"},
     create_language_based |-> {"language"}, create_spam_actions |-> {"address", "spam_actions"},
     create_highspam_actions |-> {"address", "highspam_actions"},
     create_spam_scores |-> {"address", "low_score"},
     create_highspam_scores |-> {"address", "high_score"}]
ColumnsOf(f) ==
    {"on", "lmtp", "url", "ldap", "banned", "any", "add_to_alias"} \cup
    (IF f \in DOMAIN ColumnOf THEN ColumnOf[f]
     ELSE IF f \in EximRoutes THEN {"nonrandom"} ELSE {})

Column(x) ==
    CASE x \in Domain -> {"on", "nonrandom", "smtp_callout", "ldap_callout"} \cup Every
      [] x \in User -> {"on", "spam_checks", "low_score", "high_score"}
      [] x \in Relay -> {"on", "address", "username", "spam_actions",
                         "highspam_actions", "low_score", "high_score"}
      [] x \in Destination -> {"on", "lmtp"}
      [] x \in AuthServer -> {"url", "ldap"}
      [] x \in LDAPSettings -> {"url"}
      [] x \in ListItem -> {"banned", "any", "add_to_alias"}
      [] x \in Organization -> {}
      [] OTHER -> {"on"}

Asks(files) ==
    LET Col(x) == Column(x) \cap UNION {ColumnsOf(f) : f \in files}
        read == UNION {RowsOf(f) : f \in files}
        near == read \cup {x \in Row : WithChildren({x}) \cap read # {}}
                     \cup (IF read \cap (Domain \cup Relay) = {} THEN {} ELSE Organization)
        Ask(p, rows, marks(_)) ==
            UNION {{[page |-> p, row |-> x, marks |-> m] : m \in marks(x)} : x \in rows \cap near}
        New(p, rows) == Ask(p, rows, LAMBDA x : SUBSET Col(x))
        Edit(p, rows) == Ask(p, rows, LAMBDA x : {{c} : c \in Col(x) \ {"ldap"}})
        Bulk(p, rows) == Ask(p, rows, LAMBDA x : {{}, {"on"}})
        Plain(p, rows) == Ask(p, rows, LAMBDA x : {{}})
    IN  UNION {Bulk("accounts_index", User), New("accounts_add", User),
            Edit("accounts_edit", User), Plain("accounts_delete", User),
            Plain("accounts_confirm_delete", User),
            New("addaddress", Address), Edit("editaddress", Address),
            Plain("deleteaddress", Address),
            Bulk("domains_index", Domain), New("domains_add", Domain),
            Edit("domains_edit", Domain), Plain("domains_delete", Domain),
            Plain("domains_confirm_delete", Domain),
            New("adddestination", Destination), Edit("editdestination", Destination),
            Plain("deletedestination", Destination),
            New("domains_add_auth", AuthServer), Edit("domains_edit_auth", AuthServer),
            Plain("domains_delete_auth", AuthServer),
            New("auth_settings", LDAPSettings),
            New("addalias", Alias), Edit("editalias", Alias), Plain("deletealias", Alias),
            Plain("organizations_new", Organization),
            Bulk("organizations_delete", Organization),
            New("organizations_add_relay", Relay), Edit("organizations_edit_relay", Relay),
            Plain("organizations_delete_relay", Relay),
            New("lists_new", ListItem), Plain("list_delete", ListItem),
            New("add_domain_sigs", DomSignature), Edit("edit_domain_sigs", DomSignature),
            Plain("delete_domain_sigs", DomSignature),
            New("add_account_sigs", UserSignature), Edit("edit_account_sigs", UserSignature),
            Plain("delete_account_sigs", UserSignature)}

(* What the pages do not publish. The rulesets of signatures are made only   *)
(* by the signature pages, LDAP data only by auth_settings, the domains of a *)
(* protocol only by the pages of destination servers, which on the other     *)
(* hand forget the callout files, and the protocol a server had before. The  *)
(* bulk form of the domains and the deletion of an organization publish      *)
(* nothing, that of an account no lists. An account's or a relay's column    *)
(* that goes back to its default is taken for one that was not used, and a   *)
(* deletion goes by the copy of the row (or of its parent) that it loaded.   *)
(* List items that are added along with a first one are published by its     *)
(* type, which is read again and is not there when someone has deleted it.   *)
SignaturePages == {"add_domain_sigs", "edit_domain_sigs", "delete_domain_sigs",
                   "add_account_sigs", "edit_account_sigs", "delete_account_sigs"}
DestinationPages == {"adddestination", "editdestination", "deletedestination"}
Protocol(lmtp) == {IF lmtp THEN "create_relay_proto_domains(2)" ELSE "create_relay_proto_domains(1)"}
Leaves(p, change, D) ==
    (IF p \in SignaturePages THEN {} ELSE Signing)
    \cup (IF p = "auth_settings" THEN {} ELSE {"create_ldap_data"})
    \cup (IF p \in DestinationPages THEN {"create_callback_domains", "create_ldap_domains"}
          ELSE Protocol(TRUE) \cup Protocol(FALSE))
    \cup (IF \/ p = "editdestination"
             \/ /\ p = "deletedestination"
                /\ ("lmtp" \in change.copy) # ("lmtp" \in D[change.row])
          THEN Protocol("lmtp" \in D[change.row]) ELSE {})
    \cup (IF p \in {"domains_index", "organizations_delete"} THEN File ELSE {})
    \cup (IF p \in {"accounts_delete", "accounts_confirm_delete"} THEN Lists \cup EximLists ELSE {})
    \cup (IF p \in {"accounts_edit", "organizations_edit_relay"}
          THEN {f \in Rulesets : ColumnOf[f] \cap change.lost # {}} ELSE {})
    \cup {f \in Rulesets : ColumnOf[f] \cap (D[change.copied] \ change.copy) # {}}
    \cup (IF change.kind = "also" /\ D[change.copied] # {"row"} \cup change.gained
          THEN Lists \cup EximLists ELSE {})

(* A task makes its file anew from the rows; no page reads them again. *)
Target(task) == task
Made(task, D, old) == Content(task, D)
Right(f, content, D) == content = Content(f, D)
Then(call, D) == <<>>

INSTANCE Backend

(* BOUND: at first there is nothing, or everything, active and otherwise at   *)
(* its defaults, or with every column set.                                   *)
Init ==
    \E f \in Followed, rows \in {[x \in Row |-> {}], [x \in Row |-> {"row"} \cup (Column(x) \cap {"on", "ldap"})],
                             [x \in Row |-> {"row"} \cup Column(x)],
                             [x \in Row |-> IF x \in ListItem THEN {} ELSE {"row"}]} :
        InitWith(rows, {f}, [g \in {f} |-> Content(g, rows)])

Spec == Init /\ [][Next]_vars

(* The rows are of their tables, and what is pending is about followed files. *)
TypeOK ==
    /\ \A x \in Row : db[x] = {} \/ ("row" \in db[x] /\ db[x] \subseteq {"row", "on"} \cup Column(x))
    /\ queue \subseteq scope /\ gaps \subseteq scope /\ scope \subseteq File
    /\ asked \subseteq Request /\ \A r \in Request \ asked : todo[r] = <<>>

(* A file that is not what the rows say is about to be put right, whichever  *)
(* pages of controllers/domains, accounts, organizations, lists and settings *)
(* (signatures) are used at once (see Backend).                              *)
DirectoryFilesSettle == DOMAIN db = Row => StaleIsPending
=============================================================================
