------------------------------ MODULE Passwords -------------------------------
(***************************************************************************)
(* The password of a user, and how he gets a new one when he has forgotten *)
(* it: the reset page mails a link with a token, unless he has one that is *)
(* not used; the link, for twenty minutes, sets a password and mails it.   *)
(* Both commit first and mail afterwards, and the page says that the mail  *)
(* was sent in either case. The user, his administrator and any number of  *)
(* these requests act at once.                                             *)
(***************************************************************************)
EXTENDS Naturals, FiniteSets

CONSTANTS
    Asker, Visitor,     \* requests of the reset page and of a link
    Token, NoToken,
    Own, Admin,         \* the other makers of a password
    MaxForgotten,       \* BOUND: times the user forgets his passwords
    MaxAged,            \* BOUND: tokens that grow old
    MaxMailsLost        \* BOUND: mails lost

PasswordsAssumption ==
    /\ NoToken \notin Token /\ Own \notin Visitor /\ Admin \notin Visitor
    /\ MaxForgotten \in Nat /\ MaxAged \in Nat /\ MaxMailsLost \in Nat

VARIABLES
    account,            \* "local", "external" or "superadmin": fixed
    password,           \* who made the one in force
    known,              \* the passwords that the user knows
    tokens,             \* the rows of passwdtokens: fresh or more than 20 minutes old
    links,              \* the tokens that the user has in a mail
    asking, minted,     \* of a request: its state, its token
    visiting, link,
    stuck,              \* history: the mail of a token's link was lost
    forgotten, aged, mailsLost

pages == <<asking, minted, visiting, link>>
counters == <<forgotten, aged, mailsLost>>
passwordVars == <<account, password, known, tokens, links, pages, stuck, counters>>

Rows == {t \in Token : tokens[t] # "none"}

PasswordsInit ==
    /\ account \in {"local", "external", "superadmin"}
    /\ password = Own /\ known = {Own}
    /\ tokens = [t \in Token |-> "none"] /\ links = {} /\ stuck = {}
    /\ asking = [a \in Asker |-> "idle"] /\ minted = [a \in Asker |-> NoToken]
    /\ visiting = [v \in Visitor |-> "idle"] /\ link = [v \in Visitor |-> NoToken]
    /\ forgotten = 0 /\ aged = 0 /\ mailsLost = 0

-----------------------------------------------------------------------------
(* The reset page                                                            *)

AskTurns(a, to, t) ==
    asking' = [asking EXCEPT ![a] = to] /\ minted' = [minted EXCEPT ![a] = t]
PasswordWorks == password \in known

(* Somebody who knows his password does not ask, nor does one whose click on *)
(* a link is not answered. With an unused token, be it old, the page says    *)
(* that it has sent a mail and sends nothing.                                *)
AskChecks(a) ==
    /\ asking[a] = "idle" /\ ~PasswordWorks /\ account # "external"
    /\ \A v \in Visitor : visiting[v] = "idle"
    /\ Rows = {}
    /\ AskTurns(a, "checked", NoToken)
    /\ UNCHANGED <<account, password, known, tokens, links, visiting, link, stuck, counters>>

(* The token is a digest of the address and of the second: two requests of   *)
(* the same second make the same, and the second of them is refused.         *)
AskInserts(a) ==
    /\ asking[a] = "checked"
    /\ \E t \in Token :
        /\ t \notin links \cup stuck \cup {link[v] : v \in Visitor}
        /\ IF tokens[t] = "none"
           THEN tokens' = [tokens EXCEPT ![t] = "fresh"] /\ AskTurns(a, "inserted", t)
           ELSE UNCHANGED tokens /\ AskTurns(a, "idle", NoToken)
    /\ UNCHANGED <<account, password, known, links, visiting, link, stuck, counters>>

AskMails(a) ==
    /\ asking[a] = "inserted"
    /\ AskTurns(a, "idle", NoToken)
    /\ links' = links \cup {minted[a]}
    /\ UNCHANGED <<account, password, known, tokens, visiting, link, stuck, counters>>

(* The mail server refuses it, or the process dies.                          *)
AskMailLost(a) ==
    /\ asking[a] = "inserted" /\ mailsLost < MaxMailsLost
    /\ AskTurns(a, "idle", NoToken)
    /\ stuck' = stuck \cup {minted[a]} /\ mailsLost' = mailsLost + 1
    /\ UNCHANGED <<account, password, known, tokens, links, visiting, link, forgotten, aged>>

-----------------------------------------------------------------------------
(* The link                                                                  *)

VisitTurns(v, to, t) ==
    visiting' = [visiting EXCEPT ![v] = to] /\ link' = [link EXCEPT ![v] = t]

Visit(v) ==
    /\ visiting[v] = "idle" /\ ~PasswordWorks
    /\ \E t \in links :
        IF tokens[t] = "none"           \* "is invalid or does not exist"
        THEN links' = links \ {t} /\ UNCHANGED <<visiting, link>>
        ELSE UNCHANGED links /\ VisitTurns(v, tokens[t], t)
    /\ UNCHANGED <<account, password, known, tokens, asking, minted, stuck, counters>>

TokenExpiredThen(v, rows) ==
    /\ visiting[v] = "stale"
    /\ VisitTurns(v, "idle", NoToken)
    /\ tokens' = rows
    /\ UNCHANGED <<account, password, known, links, asking, minted, stuck, counters>>
TokenExpired_kept(v) == TokenExpiredThen(v, tokens)       \* a mutant: raised before the commit
TokenExpired(v) == TokenExpiredThen(v, [tokens EXCEPT ![link[v]] = "none"])

(* The token of a superadmin stays. Another request may have used the token  *)
(* meanwhile: this one sets a password again, and deletes nothing.           *)
SetPassword(v) ==
    /\ visiting[v] = "fresh"
    /\ IF account = "superadmin"
       THEN VisitTurns(v, "idle", NoToken) /\ UNCHANGED <<password, known, tokens>>
       ELSE /\ VisitTurns(v, "set", NoToken)
            /\ password' = v /\ known' = known \ {v}
            /\ tokens' = [tokens EXCEPT ![link[v]] = "none"]
    /\ UNCHANGED <<account, links, asking, minted, stuck, counters>>

VisitMails(v) ==
    /\ visiting[v] = "set"
    /\ VisitTurns(v, "idle", NoToken)
    /\ known' = known \cup {v}
    /\ UNCHANGED <<account, password, tokens, links, asking, minted, stuck, counters>>

VisitMailLost(v) ==
    /\ visiting[v] = "set" /\ mailsLost < MaxMailsLost
    /\ VisitTurns(v, "idle", NoToken)
    /\ mailsLost' = mailsLost + 1
    /\ UNCHANGED <<account, password, known, tokens, links, asking, minted, stuck, forgotten, aged>>

-----------------------------------------------------------------------------
(* upwchange asks for the old password, pwchange is the administrator's.     *)
ChangePassword(who) ==
    /\ account = "local" /\ (who = Own => PasswordWorks)
    /\ password' = who /\ known' = known \cup {who}
    /\ UNCHANGED <<account, tokens, links, pages, stuck, counters>>

Forget ==
    /\ forgotten < MaxForgotten /\ forgotten' = forgotten + 1
    /\ known' = {}
    /\ UNCHANGED <<account, password, tokens, links, pages, stuck, aged, mailsLost>>

GrowsOld(t) ==
    /\ tokens[t] = "fresh" /\ aged < MaxAged /\ aged' = aged + 1
    /\ tokens' = [tokens EXCEPT ![t] = "stale"]
    /\ UNCHANGED <<account, password, known, links, pages, stuck, forgotten, mailsLost>>

AskStep(a) == AskChecks(a) \/ AskInserts(a) \/ AskMails(a) \/ AskMailLost(a)
VisitStep(v) == Visit(v) \/ TokenExpired(v) \/ SetPassword(v) \/ VisitMails(v) \/ VisitMailLost(v)

PasswordsNext ==
    \/ \E a \in Asker : AskStep(a)
    \/ \E v \in Visitor : VisitStep(v)
    \/ \E who \in {Own, Admin} : ChangePassword(who)
    \/ Forget \/ \E t \in Token : GrowsOld(t)

PasswordsSpec == PasswordsInit /\ [][PasswordsNext]_passwordVars

(* The user asks and follows the links that he gets.                         *)
PasswordsFairness ==
    /\ \A a \in Asker : WF_passwordVars(AskStep(a))
    /\ \A v \in Visitor : WF_passwordVars(VisitStep(v))
PasswordsFairSpec == PasswordsSpec /\ PasswordsFairness

-----------------------------------------------------------------------------
PasswordsTypeOK ==
    /\ account \in {"local", "external", "superadmin"}
    /\ password \in Visitor \cup {Own, Admin} /\ known \subseteq Visitor \cup {Own, Admin}
    /\ tokens \in [Token -> {"none", "fresh", "stale"}]
    /\ links \subseteq Token /\ stuck \subseteq Token
    /\ asking \in [Asker -> {"idle", "checked", "inserted"}] /\ minted \in [Asker -> Token \cup {NoToken}]
    /\ visiting \in [Visitor -> {"idle", "fresh", "stale", "set"}] /\ link \in [Visitor -> Token \cup {NoToken}]
    /\ forgotten \in 0 .. MaxForgotten /\ aged \in 0 .. MaxAged /\ mailsLost \in 0 .. MaxMailsLost

(* A user who has forgotten his password, and asks again and follows what    *)
(* links he gets, comes to know the one in force, though links grow old,     *)
(* requests overlap and mails of passwords are lost. Three things are        *)
(* excepted: an external account, a superadmin, and a lost mail of a link,   *)
(* after which the page claims to have sent mail and never does again, as    *)
(* nothing but a visit removes a token (accounts.py:215-243, 246-284).       *)
ResetWorks ==
    []<>(PasswordWorks \/ account # "local" \/ stuck \cap Rows # {})
=============================================================================
