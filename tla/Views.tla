-------------------------------- MODULE Views ---------------------------------
(***************************************************************************)
(* What the pages show a person: the lists of messages, of queued mail, of *)
(* domains and of accounts, the counts at the top of every page, what a    *)
(* search finds, and what opens. Each page works out anew, in a query of   *)
(* its own, what concerns the person: nothing is stored but the            *)
(* organizations, the accounts and the status of the domains, which people *)
(* edit in any order.                                                      *)
(*                                                                         *)
(* The indexes of the search server are taken as they are when they have   *)
(* just been made (SearchIndex is about those of the messages). Filters    *)
(* that a person has set are Filters'. All messages are of today.          *)
(***************************************************************************)
EXTENDS Naturals, FiniteSets

CONSTANTS
    Super,          \* the system administrator
    Admin, User,    \* domain administrators, and ordinary users
    Org, Domain, Alias,
    AliasOf,        \* the domain of an alias
    Address,        \* of mail
    Entry,          \* what an account lists: addresses, and tagged patterns
    Covers,         \* the addresses that an entry stands for
    DomainOf,       \* the name behind the @ of an address or entry
    Row,            \* of the tables mailq, messages and archive
    From, To,       \* its addresses
    Item, ItemOf    \* of the approved and banned lists, and who made it

ViewsAssumption ==
    /\ Super \notin Admin \cup User /\ Admin \cap User = {}
    /\ Domain \cap Alias = {} /\ AliasOf \in [Alias -> Domain]
    /\ IsFiniteSet(Org) /\ IsFiniteSet(Domain) /\ IsFiniteSet(Alias)
    /\ Address \subseteq Entry /\ Covers \in [Entry -> SUBSET Address]
    /\ \A x \in Address : Covers[x] = {x}
    /\ From \in [Row -> Address] /\ To \in [Row -> Address]
    /\ ItemOf \in [Item -> {Super} \cup Admin \cup User]

VARIABLES
    owns,       \* domain_owners: the domains of an organization
    admins,     \* organizations_admins: the administrators of one
    status,     \* the domains and aliases that are enabled
    account,    \* of a user: email, domain_users, addresses
    place       \* the table that a row is in

viewsVars == <<owns, admins, status, account, place>>

Person == {Super} \cup Admin \cup User
NoAccount == [email |-> {}, domains |-> {}, addresses |-> {}]
Accounts == {v \in User : account[v] # NoAccount}
Rows(table) == {r \in Row : place[r] = table}

ViewsInit ==
    /\ owns = [o \in Org |-> {}] /\ admins = [o \in Org |-> {}]
    /\ status = Domain \cup Alias
    /\ account = [v \in User |-> NoAccount]
    /\ place = [r \in Row |-> "none"]

-----------------------------------------------------------------------------
(* Whose domain it is. A join with both tables has a row for each            *)
(* organization that gives the domain to the administrator.                  *)
Owners(u, d) == {o \in Org : u \in admins[o] /\ d \in owns[o]}
Owned(u) == UNION {owns[o] : o \in {o \in Org : u \in admins[o]}}
check_domain_ownership(u, d) == Owners(u, d) # {}
OnlySuperUsers(u) == u = Super
OnlyAdminUsers(u) == u \in {Super} \cup Admin
OwnsDomain(u, d) == u = Super \/ check_domain_ownership(u, d)

(* UserFilter and MailQueue leave disabled domains out, and disabled         *)
(* aliases; DailyTotals the former; get_dom_crcs the latter.                 *)
WithAliases(ds, as) == ds \cup {a \in as : AliasOf[a] \in ds}
FilterNames(u) == WithAliases(Owned(u) \cap status, Alias \cap status)
TotalsNames(u) == WithAliases(Owned(u) \cap status, Alias)
get_dom_crcs_domains(u) == Owned(u)     \* a mutant: without the aliases
get_dom_crcs(u) == WithAliases(Owned(u), Alias \cap status)

Mine(u) == UNION {Covers[e] : e \in account[u].email \cup account[u].addresses}
InDomains(r, names) == {DomainOf[From[r]], DomainOf[To[r]]} \cap names # {}
Concerns(r, addresses) == {From[r], To[r]} \cap addresses # {}

UserFilter(u, r) ==
    /\ u \in Admin => InDomains(r, FilterNames(u))
    /\ u \in User => Concerns(r, Mine(u))

-----------------------------------------------------------------------------
(* Messages.                                                                 *)
listing(u) == {r \in Rows("messages") : UserFilter(u, r)}
archive(u) == {r \in Rows("archive") : UserFilter(u, r)}

(* A message opens where it is listed, but an archived one: its query has    *)
(* the columns of the other table in its conditions, and returns the         *)
(* archived row for each live one that the person may see.                   *)
_get_msg(u, archived) ==
    IF ~archived THEN listing(u)
    ELSE {r \in Rows("archive") : u = Super \/ listing(u) # {}}

(* The addresses of his that are in some row of messages; without any, the   *)
(* search server refuses the query.                                          *)
get_tagged_addrs(u) ==
    Mine(u) \cap {x \in Address : \E r \in Rows("messages") : x \in {From[r], To[r]}}
filter_sphinx(u, r) ==
    /\ u \in Admin => InDomains(r, get_dom_crcs(u))
    /\ u \in User => Concerns(r, get_tagged_addrs(u))
search(u, table) == {r \in Rows(table) : filter_sphinx(u, r) /\ UserFilter(u, r)}

-----------------------------------------------------------------------------
(* The queue, and what stands at the top of every page.                      *)
mailq(u) == {r \in Rows("mailq") : UserFilter(u, r)}
mailq_detail(u, r) == r \in Rows("mailq") /\ UserFilter(u, r)
MailQueue(u) ==
    {r \in Rows("mailq") :
        /\ u \in Admin => InDomains(r, FilterNames(u))
        /\ u \in User => Concerns(r, Mine(u))}
DailyTotals(u) ==
    {r \in Rows("messages") :
        /\ u \in Admin => InDomains(r, TotalsNames(u))
        /\ u \in User => Concerns(r, Mine(u))}
TopOfPage(u) ==
    [totals |-> Cardinality(DailyTotals(u)), queued |-> Cardinality(MailQueue(u))]

-----------------------------------------------------------------------------
(* Domains: the list, the count that its pager goes by, the search, and what *)
(* the API returns.                                                          *)
domains(u) == IF u = Super THEN Domain ELSE {d \in Domain : Owners(u, d) # {}}
domcount(u) ==
    IF u = Super THEN Cardinality(Domain)
    ELSE Cardinality({p \in Org \X Domain : u \in admins[p[1]] /\ p[2] \in owns[p[1]]})
domains_search(u) == {d \in Domain : u = Super \/ d \in get_dom_crcs(u)}
get_domain(u, d) == u = Super \/ \E o \in Org : d \in owns[o] /\ u \in admins[o]

(* Parts of a domain (aliases, servers and their settings): what the API     *)
(* returns, of one that is the domain's, and the count of the pager.         *)
get_part(u, d) ==
    u = Super \/ \E p \in Org \X Org : p[1] = p[2] /\ u \in admins[p[1]] /\ d \in owns[p[2]]
pager_filter(u, d, parts) ==
    Cardinality(IF u = Super THEN parts ELSE Owners(u, d) \X parts)

(* Accounts: the list, the search, what the API returns, and what opens.     *)
accounts(u) ==
    IF u = Super THEN Accounts
    ELSE {v \in Accounts : \E d \in account[v].domains : Owners(u, d) # {}}
accounts_search(u) ==
    {v \in Accounts : u = Super \/ account[v].domains \cap Owned(u) # {}}
get_user(u, v) ==
    /\ v \in Accounts
    /\ \/ u \in {Super, v}
       \/ \E o \in Org : u \in admins[o] /\ owns[o] \cap account[v].domains # {}

(* The API returns an address by the account that has it.                    *)
get_address(u, v) ==
    u = Super \/ \E d \in account[v].domains, o \in Org : d \in owns[o] /\ u \in admins[o]

(* A username is taken as one without an @.                                  *)
_get_user(v) == v \in Accounts
CanAccessAccount(u, v) ==
    /\ _get_user(v)
    /\ \/ u \in {Super, v}
       \/ /\ u \in Admin
          /\ \E e \in account[v].email \cup account[v].addresses : DomainOf[e] \in Owned(u)

(* Organizations, and items of lists: the lists, and what a search for all   *)
(* of them finds.                                                            *)
organizations(u) == IF OnlySuperUsers(u) THEN Org ELSE {}
organizations_search(u) == {o \in Org : OnlySuperUsers(u)}
lists(u) == IF u = Super THEN Item ELSE {i \in Item : ItemOf[i] = u}
lists_search(u) == {i \in Item : u # Super => ItemOf[i] = u}

-----------------------------------------------------------------------------
(* What people do.                                                           *)

(* The form of an organization offers all domains and all administrators.    *)
org_add_form == [domains |-> Domain, admins |-> Admin]
EditOrg(u, o) ==
    /\ OnlySuperUsers(u)
    /\ \E ds \in SUBSET org_add_form.domains, as \in SUBSET org_add_form.admins :
        owns' = [owns EXCEPT ![o] = ds] /\ admins' = [admins EXCEPT ![o] = as]
    /\ UNCHANGED <<status, account, place>>

SetStatus(n) ==
    /\ status' = (status \ {n}) \cup ({n} \ status)
    /\ UNCHANGED <<owns, admins, account, place>>

(* The form of an account offers its editor's domains. One that comes back   *)
(* from an administrator drops those of others.                              *)
FormDomains(u) == IF u = Super THEN Domain ELSE Owned(u)
Saved(v, entry) ==
    /\ account' = [account EXCEPT ![v] = entry]
    /\ UNCHANGED <<owns, admins, status, place>>
AddAccount(u, v) ==
    /\ OnlyAdminUsers(u)
    /\ v \notin Accounts
    /\ \E ds \in (SUBSET FormDomains(u)) \ {{}}, x \in Address :
        Saved(v, [email |-> {x}, domains |-> ds, addresses |-> {}])
EditAccount(u, v) ==
    /\ CanAccessAccount(u, v)
    /\ \E ds \in SUBSET FormDomains(u), x \in Address :
        Saved(v, [account[v] EXCEPT !.email = {x}, !.domains = ds])
DeleteAccount(u, v) == CanAccessAccount(u, v) /\ Saved(v, NoAccount)

(* An address is of a domain or alias that is known; an administrator gives  *)
(* those of his own, in one organization: .one() raises at two as at none.   *)
check_domain(e) == DomainOf[e] \in Domain \cup Alias
MayGive(u, e) ==
    LET own == IF DomainOf[e] \in Alias THEN AliasOf[DomainOf[e]] ELSE DomainOf[e]
    IN  u = Super \/ Cardinality(Owners(u, own)) = 1
create_address(u, v, e) ==
    /\ CanAccessAccount(u, v) /\ check_domain(e) /\ MayGive(u, e)
    /\ Saved(v, [account[v] EXCEPT !.addresses = @ \cup {e}])
update_address(u, v, old, e) ==
    /\ CanAccessAccount(u, v) /\ old \in account[v].addresses
    /\ check_domain(e) /\ MayGive(u, e)
    /\ Saved(v, [account[v] EXCEPT !.addresses = (@ \ {old}) \cup {e}])
delete_address(u, v, e) ==
    /\ CanAccessAccount(u, v) /\ e \in account[v].addresses
    /\ Saved(v, [account[v] EXCEPT !.addresses = @ \ {e}])

(* The logger, the refresh of the queue, and the database cleaner.           *)
MoveRow(r) ==
    /\ \E t \in {"none", "mailq", "messages", "archive"} :
        /\ <<place[r], t>> \in {<<"none", "mailq">>, <<"none", "messages">>,
                <<"messages", "archive">>, <<"mailq", "none">>, <<"archive", "none">>}
        /\ place' = [place EXCEPT ![r] = t]
    /\ UNCHANGED <<owns, admins, status, account>>

ViewsNext ==
    \/ \E u \in Person, o \in Org : EditOrg(u, o)
    \/ \E n \in Domain \cup Alias : SetStatus(n)
    \/ \E u \in {Super} \cup Admin, v \in User :
        \/ AddAccount(u, v) \/ EditAccount(u, v) \/ DeleteAccount(u, v)
        \/ \E e \in Entry : create_address(u, v, e) \/ delete_address(u, v, e)
        \/ \E old, e \in Entry : update_address(u, v, old, e)
    \/ \E r \in Row : MoveRow(r)

ViewsSpec == ViewsInit /\ [][ViewsNext]_viewsVars

ViewsTypeOK ==
    /\ owns \in [Org -> SUBSET Domain] /\ admins \in [Org -> SUBSET Admin]
    /\ status \subseteq Domain \cup Alias
    /\ account \in [User -> [email : SUBSET Address, domains : SUBSET Domain,
                             addresses : SUBSET Entry]]
    /\ place \in [Row -> {"none", "mailq", "messages", "archive"}]

-----------------------------------------------------------------------------
(* The search finds a person's messages, all that are listed and no others;  *)
(* of the archive not for an ordinary user, whose addresses it takes from    *)
(* the table messages (query.py:653-681).                                    *)
SearchFindsListed ==
    \A u \in Person :
        /\ search(u, "messages") = listing(u)
        /\ u \notin User => search(u, "archive") = archive(u)

(* The counts at the top are those of the lists, but for mail of an alias    *)
(* that is disabled, which is counted and not listed (query.py:357-367).     *)
CountsAreOfLists ==
    \A u \in Person :
        /\ TopOfPage(u).queued = Cardinality(mailq(u))
        /\ \A r \in Row : r \in mailq(u) <=> mailq_detail(u, r)
        /\ listing(u) \subseteq DailyTotals(u)
        /\ TotalsNames(u) = FilterNames(u) =>
            TopOfPage(u).totals = Cardinality(listing(u))

(* A listed message opens; an archived one to an administrator who may see   *)
(* some live message as well (messages.py:151-165).                          *)
ListedOpens ==
    \A u \in Person : listing(u) # {} => archive(u) \subseteq _get_msg(u, TRUE)

(* The domains and accounts of the lists, of the search and of the API are   *)
(* the same, and a domain that is listed opens, with its parts. The pager    *)
(* counts each once for every organization that has it (domains.py:157-169). *)
DirectoryAgrees ==
    \A u \in {Super} \cup Admin :
        /\ domains(u) = domains_search(u)
        /\ \A d \in Domain : d \in domains(u) <=>
            OwnsDomain(u, d) /\ get_domain(u, d) /\ get_part(u, d)
        /\ domcount(u) >= Cardinality(domains(u))
        /\ (\A d \in Domain : Cardinality(Owners(u, d)) <= 1) =>
            /\ domcount(u) = Cardinality(domains(u))
            /\ \A d \in domains(u) : pager_filter(u, d, Alias) = Cardinality(Alias)
        /\ accounts(u) = accounts_search(u)
        /\ \A v \in User : v \in accounts(u) <=> get_user(u, v) /\ get_address(u, v)

(* The same of organizations and of items of lists.                          *)
ListsAgree ==
    \A u \in Person :
        /\ organizations(u) = organizations_search(u)
        /\ lists(u) = lists_search(u)

(* The administrator of all the names of a user's addresses sees all that    *)
(* the user sees.                                                            *)
AdminsSeeTheirUsers ==
    \A u \in Admin, v \in Accounts :
        (\A x \in Mine(v) : DomainOf[x] \in FilterNames(u)) =>
            /\ listing(v) \subseteq listing(u)
            /\ archive(v) \subseteq archive(u)
            /\ mailq(v) \subseteq mailq(u)

(***************************************************************************)
(* Whatever has been edited, the pages agree: each of the queries that     *)
(* work out for themselves what concerns a person comes to what the others *)
(* come to, but where it is said above that it does not.                   *)
(***************************************************************************)
PagesAgree ==
    /\ SearchFindsListed
    /\ CountsAreOfLists
    /\ ListedOpens
    /\ DirectoryAgrees
    /\ ListsAgree
    /\ AdminsSeeTheirUsers
=============================================================================
