----------------------------- MODULE ConfigSync -----------------------------
(***************************************************************************)
(* How a setting that is changed on the web reaches the MailScanner of     *)
(* every node (lib/api.py, lib/backend.py, tasks/settings.py):             *)
(*                                                                         *)
(*   - the web process commits the change, then publishes to the fanout    *)
(*     exchange a create task for the ruleset and an update-serial task;   *)
(*   - the celery worker of each node, whose tasks are green threads that  *)
(*     switch at every query, reads the database and writes the ruleset,   *)
(*     and reads, increments and writes back the one serial number that    *)
(*     all nodes share;                                                    *)
(*   - MailScanner loads its rulesets again when it finds another serial   *)
(*     number, and when it restarts, every "Restart Every" seconds.        *)
(*                                                                         *)
(* One setting (the spam score of an account) and its ruleset stand for    *)
(* the others, which are published and written the same way, each apart.   *)
(***************************************************************************)
EXTENDS Naturals, FiniteSets

CONSTANTS
    Node,       \* the scanning nodes
    Req,        \* BOUND: the changes made
    Score,      \* the score a change sets; 0 asks for the default
    Forced,     \* the pages of domains force the update, those of accounts do not
    MaxCrash    \* BOUND: crashes, of the web process or of a worker

Initial == "initial"    \* the settings before any change

ASSUME ConstantsAssumption ==
    /\ Initial \notin Req
    /\ Score \in [Req -> Nat]
    /\ Forced \in BOOLEAN
    /\ MaxCrash \in Nat

VARIABLES
    db,         \* the settings in the database, named after their last change
    web,        \* the web request of a change
    rules,      \* the create task of a change, on a node
    snap,       \* the settings it has read
    ser,        \* the update-serial task of a change, on a node
    got,        \* the number it has read
    file,       \* the settings a node's ruleset was made from
    serial,     \* confserialnumber
    loaded,     \* the settings a node's MailScanner works with
    late,       \* history: nodes where a create task was under way, with what
                \* it had read, when the last change was committed
    base,       \* history: the serial number at that moment
    slate,      \* history: an update-serial task was under way at that moment
    crashes

Task == Req \X Node

tasks == <<rules, snap, ser, got>>
history == <<late, base, slate>>
vars == <<db, web, tasks, file, serial, loaded, history, crashes>>

Init ==
    /\ db = Initial
    /\ web = [q \in Req |-> "idle"]
    /\ rules = [t \in Task |-> "none"]
    /\ snap = [t \in Task |-> Initial]
    /\ ser = [t \in Task |-> "none"]
    /\ got = [t \in Task |-> 0]
    /\ file = [n \in Node |-> Initial]
    /\ serial = 1
    /\ loaded = [n \in Node |-> Initial]
    /\ late = {} /\ base = 1 /\ slate = FALSE
    /\ crashes = 0

(***************************************************************************)
(* The web process.                                                        *)
(***************************************************************************)
Commit(q) ==
    /\ web[q] = "idle"
    /\ web' = [web EXCEPT ![q] = "committed"]
    /\ db' = q
    /\ late' = {n \in Node : \E p \in Req : rules[<<p, n>>] = "read"}
    /\ base' = serial
    /\ slate' = (\E t \in Task : ser[t] = "read")
    /\ UNCHANGED <<tasks, file, serial, loaded, crashes>>

(* "if force or user.low_score > 0".                                       *)
Publishes(q) == Forced \/ Score[q] > 0

Queued(state, q) ==
    [t \in Task |-> IF t[1] = q THEN "queued" ELSE state[t]]

(* Mutant of PublishRules: "if user.low_score > 0".                        *)
PublishRulesUnforced(q) ==
    /\ web[q] = "committed"
    /\ IF Score[q] > 0
         THEN /\ rules' = Queued(rules, q)
              /\ web' = [web EXCEPT ![q] = "rules"]
         ELSE web' = [web EXCEPT ![q] = "done"] /\ UNCHANGED rules
    /\ UNCHANGED <<db, snap, ser, got, file, serial, loaded, history, crashes>>

PublishRules(q) ==
    /\ web[q] = "committed"
    /\ IF Publishes(q)
         THEN /\ rules' = Queued(rules, q)
              /\ web' = [web EXCEPT ![q] = "rules"]
         ELSE web' = [web EXCEPT ![q] = "done"] /\ UNCHANGED rules
    /\ UNCHANGED <<db, snap, ser, got, file, serial, loaded, history, crashes>>

PublishSerial(q) ==
    /\ web[q] = "rules"
    /\ ser' = Queued(ser, q)
    /\ web' = [web EXCEPT ![q] = "done"]
    /\ UNCHANGED <<db, rules, snap, got, file, serial, loaded, history, crashes>>

(* The process dies, or the broker cannot be reached, after the commit.    *)
WebCrash(q) ==
    /\ web[q] \in {"committed", "rules"}
    /\ crashes < MaxCrash
    /\ crashes' = crashes + 1
    /\ web' = [web EXCEPT ![q] = "dead"]
    /\ UNCHANGED <<db, tasks, file, serial, loaded, history>>

(***************************************************************************)
(* The workers. Files are written without giving way to another thread.    *)
(***************************************************************************)
(* The queries of create_spam_scores, those of the rendering included.     *)
RulesRead(t) ==
    /\ rules[t] = "queued"
    /\ rules' = [rules EXCEPT ![t] = "read"]
    /\ snap' = [snap EXCEPT ![t] = db]
    /\ UNCHANGED <<db, web, ser, got, file, serial, loaded, history, crashes>>

(* Mutant of RulesWrite: a ruleset that exists is not written again.       *)
RulesWriteNew(t) ==
    /\ rules[t] = "read"
    /\ rules' = [rules EXCEPT ![t] = "done"]
    /\ snap' = [snap EXCEPT ![t] = Initial]
    /\ file' = [file EXCEPT ![t[2]] = IF @ = Initial THEN snap[t] ELSE @]
    /\ UNCHANGED <<db, web, ser, got, serial, loaded, history, crashes>>

RulesWrite(t) ==
    /\ rules[t] = "read"
    /\ rules' = [rules EXCEPT ![t] = "done"]
    /\ snap' = [snap EXCEPT ![t] = Initial]
    /\ file' = [file EXCEPT ![t[2]] = snap[t]]
    /\ UNCHANGED <<db, web, ser, got, serial, loaded, history, crashes>>

SerialRead(t) ==
    /\ ser[t] = "queued"
    /\ ser' = [ser EXCEPT ![t] = "read"]
    /\ got' = [got EXCEPT ![t] = serial]
    /\ UNCHANGED <<db, web, rules, snap, file, serial, loaded, history, crashes>>

(* Mutant of SerialWrite: written back as it was read.                     *)
SerialWriteSame(t) ==
    /\ ser[t] = "read"
    /\ ser' = [ser EXCEPT ![t] = "done"]
    /\ got' = [got EXCEPT ![t] = 0]
    /\ serial' = got[t]
    /\ UNCHANGED <<db, web, rules, snap, file, loaded, history, crashes>>

(* UPDATE configurations SET value = (what was read) + 1.                  *)
SerialWrite(t) ==
    /\ ser[t] = "read"
    /\ ser' = [ser EXCEPT ![t] = "done"]
    /\ got' = [got EXCEPT ![t] = 0]
    /\ serial' = got[t] + 1
    /\ UNCHANGED <<db, web, rules, snap, file, loaded, history, crashes>>

(* A task is acknowledged before it runs: those that run die with the      *)
(* worker, those that are queued wait for the next one.                    *)
WorkerCrash(n) ==
    /\ crashes < MaxCrash
    /\ \E t \in Req \X {n} : rules[t] = "read" \/ ser[t] = "read"
    /\ crashes' = crashes + 1
    /\ rules' = [t \in Task |->
                    IF t[2] = n /\ rules[t] = "read" THEN "dead" ELSE rules[t]]
    /\ ser' = [t \in Task |->
                    IF t[2] = n /\ ser[t] = "read" THEN "dead" ELSE ser[t]]
    /\ snap' = [t \in Task |-> IF t[2] = n THEN Initial ELSE snap[t]]
    /\ got' = [t \in Task |-> IF t[2] = n THEN 0 ELSE got[t]]
    /\ UNCHANGED <<db, web, file, serial, loaded, history>>

(***************************************************************************)
(* MailScanner, outside of this repository, reads its rulesets again when  *)
(* it finds another serial number and every "Restart Every" seconds: at    *)
(* any time, that is, for it may look at the number before a slower create *)
(* task of the same change has written.                                    *)
(***************************************************************************)
Load(n) ==
    /\ loaded' = [loaded EXCEPT ![n] = file[n]]
    /\ UNCHANGED <<db, web, tasks, file, serial, history, crashes>>

WebStep == \E q \in Req : Commit(q) \/ PublishRules(q) \/ PublishSerial(q)

TaskStep(t) == RulesRead(t) \/ RulesWrite(t) \/ SerialRead(t) \/ SerialWrite(t)

Next ==
    \/ WebStep \/ (\E q \in Req : WebCrash(q))
    \/ (\E t \in Task : TaskStep(t)) \/ (\E n \in Node : WorkerCrash(n))
    \/ \E n \in Node : Load(n)

Spec == Init /\ [][Next]_vars

(* The web server goes on with what it has begun, the workers run, and     *)
(* MailScanner restarts.                                                   *)
FairSpec ==
    /\ Spec
    /\ WF_vars(\E q \in Req : PublishRules(q) \/ PublishSerial(q))
    /\ WF_vars(\E t \in Task : TaskStep(t))
    /\ \A n \in Node : WF_vars(Load(n))

-----------------------------------------------------------------------------
(* The state has its types.                                                *)
Settings == Req \cup {Initial}
States == {"none", "queued", "read", "done", "dead"}

TypeOK ==
    /\ db \in Settings
    /\ web \in [Req -> {"idle", "committed", "rules", "done", "dead"}]
    /\ rules \in [Task -> States] /\ snap \in [Task -> Settings]
    /\ ser \in [Task -> States] /\ got \in [Task -> Nat]
    /\ file \in [Node -> Settings]
    /\ serial \in Nat
    /\ loaded \in [Node -> Settings]
    /\ late \subseteq Node /\ base \in Nat /\ slate \in BOOLEAN
    /\ crashes \in Nat

(* Once the create task of the last change has run on a node, the ruleset  *)
(* there is the database's and stays so, whatever older or newer tasks do, *)
(* whatever died before: unless, at the commit, an older task of that node *)
(* was between its queries and the write (tasks/settings.py:606-616).      *)
RulesetCurrent ==
    db \in Req => \A n \in Node \ late : rules[<<db, n>>] = "done" => file[n] = db

(* One update-serial task of the last change, on any node, is enough to    *)
(* move the serial number past what it was at the commit, though the nodes *)
(* increment it without a lock: again unless such a task was under way at  *)
(* the commit (tasks/settings.py:94-109).                                  *)
SerialMoves ==
    (db \in Req /\ ~slate) =>
        \A n \in Node : ser[<<db, n>>] = "done" => serial > base

(* A change that is published is what every MailScanner works with in the  *)
(* end, unless another follows, a process dies or an older task overtakes. *)
Applied ==
    \A q \in Req, n \in Node :
        (db = q /\ Publishes(q))
            ~> (loaded[n] = q \/ db # q \/ n \in late \/ crashes > 0)

(* "Setting 0.0 makes Baruwa use the Domain or system defaults"            *)
(* (docs/source/guide/user/personalize.rst:63): when all tasks have ended, *)
(* none of them dead or late, the rulesets have the score that was set.    *)
ScoreOf(s) == IF s = Initial THEN 0 ELSE Score[s]

Quiet ==
    /\ \A q \in Req : web[q] \in {"idle", "done"}
    /\ \A t \in Task : {rules[t], ser[t]} \subseteq {"none", "done"}

ResetApplies ==
    Quiet => \A n \in Node \ late : ScoreOf(file[n]) = ScoreOf(db)
=============================================================================
