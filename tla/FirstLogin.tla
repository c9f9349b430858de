------------------------------ MODULE FirstLogin ------------------------------
(***************************************************************************)
(* The first login of a user whom an external server authenticates. The    *)
(* authenticators are tried in turn until one accepts him. If he has no    *)
(* account yet, loggedin makes one and then collects his other addresses:  *)
(* from the directory, in several steps that may fail, or one for each     *)
(* alias of his domain. The account is committed first, then each address  *)
(* in a transaction of its own. He may log in from two browsers at once,   *)
(* and an administrator may see the account and add an address to it.      *)
(***************************************************************************)
EXTENDS Naturals, Sequences, Functions, FiniteSets

CONSTANTS
    Login,          \* the requests
    Plugin,         \* the authenticators, in order
    Directory,      \* the one whose logins are looked up in the directory
    Mailbox,
    Found,          \* [{"alias", "mail", "proxy", "group"} -> Seq(Address)]
    MaxDeaths       \* BOUND: requests that die

FirstLoginAssumption ==
    /\ Plugin \in Seq(Range(Plugin))
    /\ Found \in [{"alias", "mail", "proxy", "group"} -> Seq(Mailbox)] /\ MaxDeaths \in Nat

VARIABLES
    accepts,        \* the authenticators that accept his password: fixed
    registered,     \* the user has a row
    profile,        \* his names are taken over from the directory
    addresses,      \* of his account
    next,           \* of a request: its next step
    by,             \* the authenticators it has yet to ask, or has stopped at
    unsaved,        \* the addresses it has collected
    maker,          \* history: the requests that made the account
    failed,         \* history: the directory failed, or a request died
    deaths

loginVars == <<accepts, registered, profile, addresses, next, by, unsaved, maker, failed, deaths>>

LoginInit ==
    /\ accepts \in SUBSET Range(Plugin)
    /\ registered = FALSE /\ profile = FALSE /\ addresses = {}
    /\ next = [l \in Login |-> "authenticate"] /\ by = [l \in Login |-> Plugin]
    /\ unsaved = [l \in Login |-> <<>>]
    /\ maker = {} /\ failed = FALSE /\ deaths = 0

Turns(l, to) == next' = [next EXCEPT ![l] = to]

-----------------------------------------------------------------------------
authenticate(l) ==
    /\ next[l] = "authenticate"
    /\ IF by[l] = <<>> THEN Turns(l, "refused") /\ UNCHANGED by
       ELSE IF Head(by[l]) \in accepts THEN Turns(l, "loggedin") /\ UNCHANGED by
       ELSE by' = [by EXCEPT ![l] = Tail(@)] /\ UNCHANGED next
    /\ UNCHANGED <<accepts, registered, profile, addresses, unsaved, maker, failed, deaths>>

loggedin(l) ==
    /\ next[l] = "loggedin"
    /\ Turns(l, IF registered THEN "update_login" ELSE "add_user")
    /\ UNCHANGED <<accepts, registered, profile, addresses, by, unsaved, maker, failed, deaths>>

(* The second of two that make the account is sent to the logout page.       *)
add_user(l) ==
    /\ next[l] = "add_user"
    /\ IF registered THEN Turns(l, "logout") /\ UNCHANGED <<accepts, registered, maker>>
       ELSE /\ registered' = TRUE /\ maker' = maker \cup {l}
            /\ Turns(l, IF Head(by[l]) = Directory THEN "mail" ELSE "alias")
    /\ UNCHANGED <<accepts, profile, addresses, by, unsaved, failed, deaths>>

-----------------------------------------------------------------------------
(* Collecting: one answer of the directory each                              *)

AfterThat == [mail |-> "profile", proxy |-> "group", group |-> "save", alias |-> "save"]

Collect(l) ==
    /\ next[l] \in DOMAIN AfterThat
    /\ unsaved' = [unsaved EXCEPT ![l] = @ \o Found[next[l]]]
    /\ Turns(l, AfterThat[next[l]])
    /\ UNCHANGED <<accepts, registered, profile, addresses, by, maker, failed, deaths>>

update_attrs(l) ==
    /\ next[l] = "profile"
    /\ profile' = TRUE
    /\ Turns(l, "proxy")
    /\ UNCHANGED <<accepts, registered, addresses, by, unsaved, maker, failed, deaths>>

(* LDAPError is passed over and he is logged in; a failed upgrade to TLS, or *)
(* an entry without mail, raises what nothing catches. Either way the next   *)
(* login finds the account and does not ask again.                           *)
DirectoryFails(l) ==
    /\ next[l] \in {"mail", "group"}
    /\ \E to \in {"update_login", "raised"} : Turns(l, to)
    /\ failed' = TRUE
    /\ UNCHANGED <<accepts, registered, profile, addresses, by, unsaved, maker, deaths>>

SaveThen(l, saved, rest) ==
    /\ next[l] = "save"
    /\ IF unsaved[l] = <<>>
       THEN Turns(l, "update_login") /\ UNCHANGED <<addresses, unsaved>>
       ELSE /\ addresses' = addresses \cup saved
            /\ unsaved' = [unsaved EXCEPT ![l] = rest]
            /\ UNCHANGED next
    /\ UNCHANGED <<accepts, registered, profile, by, maker, failed, deaths>>
(* A mutant: one transaction for them all. An address that he has already,   *)
(* or that is found twice, is refused and takes the others with it.          *)
SaveAddress_all(l) ==
    SaveThen(l, IF IsInjective(unsaved[l]) /\ Range(unsaved[l]) \cap addresses = {}
                THEN Range(unsaved[l]) ELSE {}, <<>>)
SaveAddress(l) == SaveThen(l, {Head(unsaved[l])}, Tail(unsaved[l]))

update_login(l) ==
    /\ next[l] = "update_login"
    /\ Turns(l, "done")
    /\ UNCHANGED <<accepts, registered, profile, addresses, by, unsaved, maker, failed, deaths>>

-----------------------------------------------------------------------------
AddAddress(a) ==
    /\ registered
    /\ addresses' = addresses \cup {a}
    /\ UNCHANGED <<accepts, registered, profile, next, by, unsaved, maker, failed, deaths>>

Ends == {"refused", "logout", "raised", "done"}

Dies(l) ==
    /\ next[l] \notin Ends /\ deaths < MaxDeaths
    /\ deaths' = deaths + 1
    /\ Turns(l, "raised")
    /\ failed' = TRUE
    /\ UNCHANGED <<accepts, registered, profile, addresses, by, unsaved, maker>>

LoginStep(l) ==
    \/ authenticate(l) \/ loggedin(l) \/ add_user(l) \/ Collect(l) \/ update_attrs(l)
    \/ DirectoryFails(l) \/ SaveAddress(l) \/ update_login(l) \/ Dies(l)
LoginNext == (\E l \in Login : LoginStep(l)) \/ (\E a \in Mailbox : AddAddress(a))
LoginSpec == LoginInit /\ [][LoginNext]_loginVars

-----------------------------------------------------------------------------
LoginTypeOK ==
    /\ accepts \subseteq Range(Plugin) /\ registered \in BOOLEAN /\ profile \in BOOLEAN /\ failed \in BOOLEAN
    /\ addresses \subseteq Mailbox /\ maker \subseteq Login /\ deaths \in 0 .. MaxDeaths
    /\ next \in [Login -> {"authenticate", "loggedin", "add_user", "save", "profile",
                         "update_login"} \cup DOMAIN Found \cup Ends]
    /\ by \in [Login -> {SubSeq(Plugin, i, Len(Plugin)) : i \in 1 .. Len(Plugin) + 1}]
    /\ unsaved \in [Login -> Seq(Mailbox)]

(* When the request that made the account has ended, the account has every   *)
(* address found for its user, and his names if he came by the directory,    *)
(* whatever an administrator or a second browser did meanwhile, and unless   *)
(* the directory failed or a request died: nothing completes it then         *)
(* (accounts.py:155-168, api.py:109-218).                                    *)
AccountComplete ==
    /\ Cardinality(maker) <= 1
    /\ \A l \in maker : next[l] \in Ends /\ ~failed =>
        IF Head(by[l]) = Directory
        THEN profile /\ UNION {Range(Found[k]) : k \in {"mail", "proxy", "group"}} \subseteq addresses
        ELSE Range(Found["alias"]) \subseteq addresses
=============================================================================
