------------------------------ MODULE Signatures ------------------------------
(***************************************************************************)
(* The signature that MailScanner puts under the messages of a domain, as  *)
(* files of a node: a text in the directory of the domain, a link to that  *)
(* directory for each alias of the domain, and the ruleset that says, for  *)
(* the domain and for each alias, where its file is. (For a user and his   *)
(* addresses the code does the same.) The worker makes them in tasks that  *)
(* it starts in any order and that take turns at each query.               *)
(*                                                                         *)
(* The ruleset is made for all domains at once, when a signature of any of *)
(* them changes; the links of a domain only when its own is saved. That a  *)
(* page commits first and publishes its tasks afterwards is one step here: *)
(* Directory takes the two apart.                                          *)
(***************************************************************************)
EXTENDS Naturals, FiniteSets

CONSTANTS
    TheDomain,
    ItsAlias,           \* the aliases it may have
    MaxEdits            \* BOUND: changes of the signature

SignaturesAssumption == TheDomain \notin ItsAlias /\ MaxEdits \in Nat

VARIABLES
    signature,          \* in the database: 0 when there is none, else its text
    enabled,
    html,               \* the domain has a signature of the other kind: fixed
    aliases,            \* the domain's aliases in the database
    tasks,              \* queued: [do, n]; "n" is the text of the time
    saving,             \* what running saves have read: [at, text]
    dir, file, links,   \* of the node; the file is 0 or a text
    rules,              \* the names in text.sigs.rules
    edits,
    crossed,            \* history: two tasks about the file were there at once
    bare                \* history: aliases added after the signature was saved

database == <<signature, enabled, html, aliases>>
files == <<dir, file, links>>
signatureVars == <<database, tasks, saving, files, rules, edits, crossed, bare>>

SignaturesInit ==
    /\ signature = 0 /\ enabled = FALSE /\ html \in BOOLEAN /\ aliases \in SUBSET ItsAlias
    /\ tasks = {} /\ saving = {}
    /\ dir = FALSE /\ file = 0 /\ links = {} /\ rules = {}
    /\ edits = 0 /\ crossed = FALSE /\ bare = {}

-----------------------------------------------------------------------------
(* The pages                                                                 *)

(* "remove": the file, and with the last signature the links too.            *)
Publishes(do, removed) ==
    /\ tasks' = tasks \cup {[do |-> "rules", n |-> 0, links |-> {}],
                            [do |-> do, n |-> edits', links |-> removed]}
    /\ crossed' = (crossed \/ saving # {} \/ \E t \in tasks : t.do # "rules")

SaveSignature ==
    /\ edits < MaxEdits /\ edits' = edits + 1
    /\ signature' = edits' /\ enabled' \in BOOLEAN
    /\ Publishes("save", {})
    /\ UNCHANGED <<html, aliases, saving, files, rules, bare>>

DeleteSignature ==
    /\ signature # 0
    /\ edits < MaxEdits /\ edits' = edits + 1
    /\ signature' = 0 /\ enabled' = FALSE
    /\ Publishes("delete", IF html THEN {} ELSE aliases)
    /\ UNCHANGED <<html, aliases, saving, files, rules, bare>>

(* The pages of aliases publish nothing about signatures.                    *)
AddAlias(a) ==
    /\ a \notin aliases
    /\ aliases' = aliases \cup {a}
    /\ bare' = IF signature = 0 THEN bare ELSE bare \cup {a}
    /\ UNCHANGED <<signature, enabled, html, tasks, saving, files, rules, edits, crossed>>

DropAlias(a) ==
    /\ a \in aliases
    /\ aliases' = aliases \ {a} /\ bare' = bare \ {a}
    /\ UNCHANGED <<signature, enabled, html, tasks, saving, files, rules, edits, crossed>>

(* The signature of another domain, or of a user, is saved or deleted.       *)
OtherSignature ==
    /\ tasks' = tasks \cup {[do |-> "rules", n |-> 0, links |-> {}]}
    /\ UNCHANGED <<database, saving, files, rules, edits, crossed, bare>>

-----------------------------------------------------------------------------
(* The worker                                                                *)

Takes(do, t) == t \in tasks /\ t.do = do /\ tasks' = tasks \ {t}

(* A signature that is gone or disabled is left as it is on the disk.        *)
ReadSignature(t) ==
    /\ Takes("save", t)
    /\ saving' = IF signature = 0 \/ ~enabled THEN saving
                 ELSE saving \cup {[at |-> "write", n |-> t.n, text |-> signature]}
    /\ UNCHANGED <<database, files, rules, edits, crossed, bare>>

WriteThen(s, linked) ==
    /\ s \in saving /\ s.at = "write"
    /\ dir' = TRUE /\ file' = s.text
    /\ saving' = (saving \ {s}) \cup (IF linked THEN {[s EXCEPT !.at = "link"]} ELSE {})
    /\ UNCHANGED <<database, tasks, links, rules, edits, crossed, bare>>
WriteFile_once(s) == WriteThen(s, ~dir)     \* a mutant: the links with the directory
WriteFile(s) == WriteThen(s, TRUE)

mksymlinks(s) ==
    /\ s \in saving /\ s.at = "link"
    /\ links' = links \cup aliases /\ bare' = bare \ aliases
    /\ saving' = saving \ {s}
    /\ UNCHANGED <<database, tasks, dir, file, rules, edits, crossed>>

(* unlink removes the file and the links, and fails on the directory.        *)
delete_sig(t) ==
    /\ Takes("delete", t)
    /\ file' = 0 /\ links' = links \ t.links
    /\ UNCHANGED <<database, saving, dir, rules, edits, crossed, bare>>

create_text_sigs(t) ==
    /\ Takes("rules", t)
    /\ rules' = IF signature # 0 /\ enabled THEN {TheDomain} \cup aliases ELSE {}
    /\ UNCHANGED <<database, saving, files, edits, crossed, bare>>

SignaturesNext ==
    \/ SaveSignature \/ DeleteSignature \/ OtherSignature
    \/ \E a \in ItsAlias : AddAlias(a) \/ DropAlias(a)
    \/ \E t \in tasks : ReadSignature(t) \/ delete_sig(t) \/ create_text_sigs(t)
    \/ \E s \in saving : WriteFile(s) \/ mksymlinks(s)
SignaturesSpec == SignaturesInit /\ [][SignaturesNext]_signatureVars

-----------------------------------------------------------------------------
Texts == 1 .. MaxEdits

SignaturesTypeOK ==
    /\ signature \in {0} \cup Texts /\ enabled \in BOOLEAN /\ html \in BOOLEAN
    /\ aliases \subseteq ItsAlias /\ links \subseteq ItsAlias /\ bare \subseteq aliases
    /\ tasks \subseteq [do : {"save", "delete", "rules"}, n : 0 .. MaxEdits, links : SUBSET ItsAlias]
    /\ saving \subseteq [at : {"write", "link"}, n : Texts, text : Texts]
    /\ dir \in BOOLEAN /\ file \in {0} \cup Texts /\ rules \subseteq {TheDomain} \cup ItsAlias
    /\ edits \in 0 .. MaxEdits /\ crossed \in BOOLEAN

(* When the worker has nothing left to do, the file that the ruleset names   *)
(* for the domain or for an alias is there and holds the signature, through  *)
(* deletions, new signatures and changes of the aliases. Excepted are an     *)
(* alias added after the signature was saved, which the ruleset names as     *)
(* soon as another domain's signature is saved, and two changes whose tasks  *)
(* met at the node (tasks/settings.py:200-262, 330-352, 493-507).            *)
SignatureServed ==
    tasks = {} /\ saving = {} /\ ~crossed =>
        \A n \in rules \cap ({TheDomain} \cup aliases) :
            /\ signature # 0 /\ file = signature /\ dir
            /\ n \in {TheDomain} \cup links \cup bare
=============================================================================
