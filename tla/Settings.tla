------------------------------- MODULE Settings -------------------------------
(***************************************************************************)
(* Content protection policies and their rules, the settings that name     *)
(* them (controllers/settings.py over lib/api.py), DKIM keys, MTA          *)
(* settings, local scores and the settings of the scanning servers, and    *)
(* the files and local tables that tasks/settings.py makes of them.        *)
(*                                                                         *)
(* One policy type stands for the four, one domain for all; a policy row   *)
(* of the domain is one of DomainRow, as nothing makes domain_id unique. A *)
(* rule is its enabled flag and its ordering.                              *)
(***************************************************************************)
EXTENDS Naturals, Sequences, FiniteSets, FiniteSetsExt, SequencesExt

CONSTANTS
    Policy, Name, Rule, DomainRow,  \* ids of rows; the names of policies
    Setting,        \* what an MTA setting, a local score, a field of a server sets
    Of,             \* the policy of a rule
    None,           \* no policy: 'Use Default'
    Absent,         \* no row, no file
    Followed,       \* the sets of files that are followed, one per behaviour
    Request, MaxCrash

VARIABLES db, todo, page, asked, scope, queue, disk, gaps, crashes

(* db: the policies, their rules, the global setting, the domain's, its DKIM  *)
(* key; for each kind the settings that are set; whether the server is on.    *)
Here(rows) == {x \in DOMAIN rows : rows[x].there}
RulesOf(D, p) == {k \in Here(D.rule) : Of[k] = p}
get_policy_rules(D, p) == {k \in RulesOf(D, p) : D.rule[k].on}     \* only_enabled
Named(D, n) == {p \in Here(D.policy) : D.policy[p].name = n}
PolicyRow(n, on) == [there |-> TRUE, on |-> on, name |-> n]
RuleRow(on, order) == [there |-> TRUE, on |-> on, order |-> order]

-----------------------------------------------------------------------------
(* The files and the tasks that make them                                    *)

Rules(n) == <<"rules", n>>      \* baruwa/rules/<name>.conf
Ruleset == <<"ruleset">>        \* the ruleset of the policy type
Dkim == <<"dkim">>
Plain(kind) == <<kind>>         \* "mta", "scores" or "quickpeek"
PlainKind == {"mta", "scores", "quickpeek"}
SettingsFile == {Rules(n) : n \in Name} \cup {Ruleset, Dkim} \cup {Plain(kind) : kind \in PlainKind}

SettingsAssumption ==     \* of the constants
    /\ Of \in [Rule -> Policy]
    /\ None \notin Policy \cup Name /\ Absent \notin Policy \cup {None}
    /\ IsFiniteSet(Rule) /\ IsFiniteSet(DomainRow) /\ IsFiniteSet(Setting) /\ IsFiniteSet(Request)
    /\ \A s \in Setting : \E t \in Setting : t # s
    /\ \A files \in Followed : files \subseteq SettingsFile
    /\ MaxCrash \in Nat

Task(f, do, of) == [file |-> f, do |-> do, of |-> of]
Target(task) == task.file

(* MailScanner reads the rules from the last to the first ordering           *)
RuleLines(D, p) == {<<k, D.rule[k].order>> : k \in get_policy_rules(D, p)}

(* A policy that is set but has gone makes query(...).one() raise.           *)
Dangling(D) ==
    ({D.global} \cup {D.domain[g] : g \in DomainRow}) \ ({None, Absent} \cup Here(D.policy))
RulesetLines(D) ==      \* a line of the domain only where it differs
    {<<g, D.policy[D.domain[g]].name>> :
        g \in {x \in DomainRow : D.domain[x] \notin {None, Absent, D.global}}}
    \cup (IF D.global = None THEN {} ELSE {<<"default", D.policy[D.global].name>>})

create_content_rules(task, D, old) ==   \* writes nothing when there is no rule
    IF task.do = "remove" THEN Absent
    ELSE IF get_policy_rules(D, task.of) = {} THEN old
    ELSE RuleLines(D, task.of)
create_content_ruleset(D, old) == IF Dangling(D) # {} THEN old ELSE RulesetLines(D)
save_dkim_key(task) == task.of
delete_dkim_key == Absent
create_from_rows(kind, D) ==    \* create_mta_settings, _local_scores, _ms_settings
    IF kind = "quickpeek" /\ D.server # "enabled" THEN {} ELSE D[kind]

Made(task, D, old) ==
    CASE task.file = Ruleset -> create_content_ruleset(D, old)
      [] task.file = Dkim -> IF task.do = "save" THEN save_dkim_key(task) ELSE delete_dkim_key
      [] task.file \in {Plain(kind) : kind \in PlainKind} -> create_from_rows(task.file[1], D)
      [] OTHER -> create_content_rules(task, D, old)

(* What a file should say. The file of a policy that is not enabled is never *)
(* read, and nothing is right for a setting whose policy has gone.           *)
Read_(f, D) == f[1] # "rules" \/ \E p \in Named(D, f[2]) : D.policy[p].on
Said(f, D) ==
    CASE f = Ruleset -> RulesetLines(D)
      [] f = Dkim -> IF D.dkim.on THEN D.dkim.key ELSE Absent
      [] f \in {Plain(kind) : kind \in PlainKind} -> create_from_rows(f[1], D)
      [] OTHER -> RuleLines(D, CHOOSE p \in Named(D, f[2]) : TRUE)
Right(f, content, D) ==
    Read_(f, D) => (f # Ruleset \/ Dangling(D) = {}) /\ content = Said(f, D)

-----------------------------------------------------------------------------
(* lib/backend.py. The name of a policy is the one that was loaded, or after  *)
(* a commit (None) the one the row has then.                                  *)

Publish(do, p, n) == [kind |-> "publish", call |-> [do |-> do, policy |-> p, name |-> n]]
backend_create_content_rules(p, n) == Publish("make", p, n)
backend_remove_content_rules(p, n) == Publish("remove", p, n)
backend_create_content_ruleset == Publish("ruleset", None, None)
backend_of(do) == Publish(do, None, None)

Wanted(call, D) ==
    CASE call.do \in {"make", "remove"} ->
            IF call.name # None THEN {Task(Rules(call.name), call.do, call.policy)}
            ELSE {Task(Rules(D.policy[p].name), call.do, p) : p \in {call.policy} \cap Here(D.policy)}
      [] call.do = "ruleset" -> {Task(Ruleset, "make", None)}
      [] call.do = "save" -> {Task(Dkim, "save", D.dkim.key)}
      [] call.do = "delete" -> {Task(Dkim, "delete", None)}
      [] call.do \in PlainKind -> {Task(Plain(call.do), "make", None)}

-----------------------------------------------------------------------------
(* lib/api.py and model/settings.py, in scripts. SQLAlchemy sends every      *)
(* change made so far with the first commit that follows it.                 *)

Read(what, p) == [kind |-> "read", call |-> [what |-> what, policy |-> p]]
Change(do, x) == [do |-> do, row |-> x, to |-> None, clears |-> FALSE, next |-> None]
Commit(change) == [kind |-> "commit", change |-> change]
CommitTo(do, x, value) == Commit([Change(do, x) EXCEPT !.to = value])

(* get_policy_setting(); what it clears goes with a commit of its own, or    *)
(* (disable_domain_policies) with the first one of a domain's row            *)
get_policy_setting(p) == Read("setting", p)
disable_domain_policies(p) == Read("domain", p)

DomainRowsOf(D, p) == SetToSeq({g \in DomainRow : D.domain[g] = p})
Then(call, D) ==
    LET p == call.policy
        rows == DomainRowsOf(D, p)
        Cleared(i) == CommitTo("domain", rows[i], None)
    IN  CASE call.what = "setting" ->
                IF D.global = p THEN <<CommitTo("global", p, None)>> ELSE <<>>
          [] call.what = "domain" -> [i \in DOMAIN rows |-> Cleared(i)]
          [] call.what = "delete" ->
                LET clears == D.global = p
                IN  [i \in DOMAIN rows |->
                        [Cleared(i) EXCEPT !.change.clears = (clears /\ i = 1)]]
                    \o <<backend_create_content_ruleset>>
                    \o (IF clears /\ rows = <<>> THEN <<CommitTo("global", p, None)>> ELSE <<>>)

add_policy(p, n) == <<CommitTo("add_policy", p, n)>>

update_policy(D, p, n, on) ==
    IF D.policy[p].name = n /\ D.policy[p].on = on THEN <<>>
    ELSE IF on THEN <<CommitTo("enable", p, n), backend_create_content_rules(p, None)>>
    ELSE <<[CommitTo("disable", p, n) EXCEPT !.change.clears = (D.global = p)],
           disable_domain_policies(p),
           backend_remove_content_rules(p, None), backend_create_content_ruleset>>

delete_policy(D, p) ==
    <<backend_remove_content_rules(p, D.policy[p].name),
      Read("delete", p), Commit(Change("delete_policy", p))>>

(* add_policy, then a rule for each line of the shipped file, which the node *)
(* sends within 30 seconds or TimeoutError ends the request                  *)
clone_policy(p, n, answered) ==
    LET rules == IF answered THEN SetToSeq({k \in Rule : Of[k] = p}) ELSE <<>>
    IN  add_policy(p, n) \o [i \in DOMAIN rules |-> CommitTo("clone_rule", rules[i], i - 1)]

add_rule(D, k, on) ==
    LET p == Of[k]
        orders == {D.rule[x].order : x \in RulesOf(D, p)}
        order == IF orders = {} THEN 0 ELSE Max(orders) + 1
    IN  <<CommitTo(IF on THEN "add_rule" ELSE "add_rule_off", k, order),
          backend_create_content_rules(p, None)>>

(* The only rule of a policy takes the policy with it. Otherwise the file is *)
(* asked for before the commit.                                              *)
update_rule(D, k, on) ==
    LET p == Of[k]
    IN  IF D.rule[k].on = on THEN <<>>
        ELSE IF ~ on /\ RulesOf(D, p) = {k}
        THEN <<CommitTo("set_only_rule", k, on), get_policy_setting(p),
               backend_remove_content_rules(p, None), disable_domain_policies(p),
               backend_create_content_ruleset>>
        ELSE <<backend_create_content_rules(p, D.policy[p].name),
               CommitTo("set_rule", k, on)>>

delete_rule(D, k) ==
    LET p == Of[k]
    IN  (IF RulesOf(D, p) # {k} THEN <<>>
         ELSE <<Commit(Change("policy_off", p)), get_policy_setting(p),
                disable_domain_policies(p), backend_remove_content_rules(p, None),
                backend_create_content_ruleset>>)
        \o <<CommitTo("delete_rule", k, D.policy[p].name), backend_create_content_rules(p, D.policy[p].name)>>

(* Both orderings go with the first of the two commits of swap_order.        *)
swap_order(D, k, next) ==
    <<[CommitTo("swap_order", k, D.rule[next].order) EXCEPT
        !.change.next = [rule |-> next, order |-> D.rule[k].order]]>>
Beyond(D, k, up) ==
    {x \in RulesOf(D, Of[k]) : IF up THEN D.rule[x].order > D.rule[k].order
                                    ELSE D.rule[x].order < D.rule[k].order}
move_rule_to(D, k, up) ==
    LET far == Beyond(D, k, up)
        order == IF up THEN Min({D.rule[x].order : x \in far})
                       ELSE Max({D.rule[x].order : x \in far})
    IN  IF far = {} THEN <<>>
        ELSE swap_order(D, k, CHOOSE x \in far : D.rule[x].order = order)

(* The row of the domain is the one that was loaded, or a new one.           *)
save_policy_settings_early(D, p) ==     \* published before the commit
    <<backend_create_content_ruleset>>
    \o (IF D.global = p THEN <<>> ELSE <<CommitTo("global", None, p)>>)
save_policy_settings(D, p) ==
    (IF D.global = p THEN <<>> ELSE <<CommitTo("global", None, p)>>)
    \o <<backend_create_content_ruleset>>
save_domain_policy_settings(D, p) ==
    LET rows == {g \in DomainRow : D.domain[g] # Absent}
    IN  IF Cardinality(rows) > 1 THEN <<>>      \* MultipleResultsFound
        ELSE (IF \E g \in rows : D.domain[g] = p THEN <<>>
              ELSE IF rows = {} THEN <<CommitTo("add_domain", None, p)>>
              ELSE <<CommitTo("domain", CHOOSE g \in rows : TRUE, p)>>)
             \o <<backend_create_content_ruleset>>

create_mta_setting(s) == <<CommitTo("set", s, "mta"), backend_of("mta")>>
update_mta_setting(s, t) ==     \* another address in the same row
    <<[CommitTo("replace", s, "mta") EXCEPT !.change.next = t], backend_of("mta")>>
delete_mta_setting(s) == <<CommitTo("unset", s, "mta"), backend_of("mta")>>
update_local_score(D, s) ==
    <<CommitTo(IF s \in D.scores THEN "unset" ELSE "set", s, "scores"), backend_of("scores")>>

-----------------------------------------------------------------------------
(* The pages. What a page is asked for: a row, and what the form has.        *)

Loaded(rows, x, script) == IF rows[x].there THEN script ELSE <<>>     \* 404

settings_add_policy(p, n) == add_policy(p, n)
(* The form has no "enabled" while no rule is enabled, and then              *)
(* form.enabled.data is an AttributeError.                                   *)
settings_edit_policy(D, p, n, on) ==
    Loaded(D.policy, p, IF get_policy_rules(D, p) = {} THEN <<>> ELSE update_policy(D, p, n, on))
settings_delete_policy(D, p) == Loaded(D.policy, p, delete_policy(D, p))
settings_clone_policy(p, n, answered) == clone_policy(p, n, answered)
settings_add_rule(D, k, on) == Loaded(D.policy, Of[k], add_rule(D, k, on))
settings_edit_rule(D, k, on) == Loaded(D.rule, k, update_rule(D, k, on))
settings_delete_rule(D, k) == Loaded(D.rule, k, delete_rule(D, k))
settings_move_rule(D, k, up) == Loaded(D.rule, k, move_rule_to(D, k, up))

(* Only enabled policies are valid choices.                                  *)
set_policy_form_opts(D) == {None} \cup {p \in Here(D.policy) : D.policy[p].on}
global_policies(D, p) ==
    IF p \in set_policy_form_opts(D) THEN save_policy_settings(D, p) ELSE <<>>
domain_policies(D, p) ==
    IF p \in set_policy_form_opts(D) THEN save_domain_policy_settings(D, p) ELSE <<>>

domain_dkim_generate == <<Commit(Change("dkim_generate", None))>>
domain_dkim_enable(D, on) ==
    IF ~ D.dkim.there \/ D.dkim.on = on THEN <<>>
    ELSE <<CommitTo("dkim_enable", None, on), backend_of(IF on THEN "save" ELSE "delete")>>

add_mta_setting(s) == create_mta_setting(s)
edit_mta_setting(D, s) ==       \* to any other address that the form has
    IF s \notin D.mta THEN <<>> ELSE update_mta_setting(s, CHOOSE t \in Setting : t # s)
del_mta_setting(D, s) == IF s \in D.mta THEN delete_mta_setting(s) ELSE <<>>
edit_local_scores(D, s) == update_local_score(D, s)

(* One transaction for each field that differs from what is stored           *)
section(D, fields) ==
    LET q == SetToSeq(fields)
        Field(s) == CommitTo(IF s \in D.quickpeek THEN "unset" ELSE "set", s, "quickpeek")
    IN  IF D.server = "none" THEN <<>>
        ELSE [i \in DOMAIN q |-> Field(q[i])] \o <<backend_of("quickpeek")>>
(* of these, edit and delete publish the serial number and nothing else      *)
new_server(on) == <<CommitTo("new_server", None, on)>>
edit_server(D, on) == IF D.server \in {"none", on} THEN <<>> ELSE <<CommitTo("server", None, on)>>
delete_server(D) == IF D.server = "none" THEN <<>> ELSE <<CommitTo("server", None, "none")>>

Script(ask, D) ==
    LET x == ask.row  n == ask.name  on == ask.on  p == ask.page
        state == IF on THEN "enabled" ELSE "disabled"
    IN  CASE p = "add_policy" -> settings_add_policy(x, n)
          [] p = "edit_policy" -> settings_edit_policy(D, x, n, on)
          [] p = "delete_policy" -> settings_delete_policy(D, x)
          [] p = "clone_policy" -> settings_clone_policy(x, n, on)
          [] p = "add_rule" -> settings_add_rule(D, x, on)
          [] p = "edit_rule" -> settings_edit_rule(D, x, on)
          [] p = "delete_rule" -> settings_delete_rule(D, x)
          [] p = "move_rule" -> settings_move_rule(D, x, on)
          [] p = "global_policies" -> global_policies(D, x)
          [] p = "domain_policies" -> domain_policies(D, x)
          [] p = "domain_dkim_generate" -> domain_dkim_generate
          [] p = "domain_dkim_enable" -> domain_dkim_enable(D, on)
          [] p = "add_mta_setting" -> add_mta_setting(x)
          [] p = "edit_mta_setting" -> edit_mta_setting(D, x)
          [] p = "del_mta_setting" -> del_mta_setting(D, x)
          [] p = "edit_local_scores" -> edit_local_scores(D, x)
          [] p = "section" -> section(D, x)
          [] p = "new_server" -> new_server(state)
          [] p = "edit_server" -> edit_server(D, state)
          [] p = "delete_server" -> delete_server(D)

-----------------------------------------------------------------------------
(* What the scripts do to the rows, and where they fail                      *)

Apply(c, D) ==
    LET Cleared(E) == IF c.clears THEN [E EXCEPT !.global = None] ELSE E
        NewRow == CHOOSE g \in DomainRow : D.domain[g] = Absent
    IN  CASE c.do = "add_policy" -> [D EXCEPT !.policy[c.row] = PolicyRow(c.to, FALSE)]
          [] c.do = "enable" -> [D EXCEPT !.policy[c.row] = PolicyRow(c.to, TRUE)]
          [] c.do = "disable" -> Cleared([D EXCEPT !.policy[c.row] = PolicyRow(c.to, FALSE)])
          [] c.do = "policy_off" -> [D EXCEPT !.policy[c.row].on = FALSE]
          [] c.do = "delete_policy" ->      \* cascade='delete, delete-orphan'
                [D EXCEPT !.policy[c.row].there = FALSE, !.policy[c.row].on = FALSE,
                          !.rule = [k \in Rule |-> IF Of[k] = c.row
                            THEN [@[k] EXCEPT !.there = FALSE] ELSE @[k]]]
          [] c.do \in {"add_rule", "clone_rule"} -> [D EXCEPT !.rule[c.row] = RuleRow(TRUE, c.to)]
          [] c.do = "add_rule_off" -> [D EXCEPT !.rule[c.row] = RuleRow(FALSE, c.to)]
          [] c.do = "set_rule" -> [D EXCEPT !.rule[c.row].on = c.to]
          [] c.do = "set_only_rule" ->
                [D EXCEPT !.rule[c.row].on = c.to, !.policy[Of[c.row]].on = FALSE]
          [] c.do = "delete_rule" -> [D EXCEPT !.rule[c.row].there = FALSE]
          [] c.do = "swap_order" -> [D EXCEPT !.rule[c.row].order = c.to,
                                              !.rule[c.next.rule].order = c.next.order]
          [] c.do = "global" -> [D EXCEPT !.global = c.to]
          [] c.do = "domain" -> Cleared([D EXCEPT !.domain[c.row] = c.to])
          [] c.do = "add_domain" -> [D EXCEPT !.domain[NewRow] = c.to]
          [] c.do = "dkim_generate" -> [D EXCEPT !.dkim.there = TRUE, !.dkim.key = @ + 1]
          [] c.do = "dkim_enable" -> [D EXCEPT !.dkim.on = c.to]
          [] c.do = "set" -> [D EXCEPT ![c.to] = @ \cup {c.row}]
          [] c.do = "unset" -> [D EXCEPT ![c.to] = @ \ {c.row}]
          [] c.do = "replace" -> [D EXCEPT ![c.to] = (@ \ {c.row}) \cup {c.next}]
          [] c.do = "new_server" -> [D EXCEPT !.server = c.to]
          [] c.do = "server" ->     \* its settings go with it
                [D EXCEPT !.server = c.to, !.quickpeek = IF c.to = "none" THEN {} ELSE @]

(* unique names, unique settings; a foreign key; a row that has gone          *)
Refused(c, D) ==
    CASE c.do = "add_policy" -> D.policy[c.row].there \/ Named(D, c.to) # {}
      [] c.do \in {"enable", "disable"} ->
            ~ D.policy[c.row].there \/ Named(D, c.to) \ {c.row} # {}
      [] c.do \in {"policy_off", "delete_policy"} -> ~ D.policy[c.row].there
      [] c.do \in {"add_rule", "add_rule_off", "clone_rule"} ->
            D.rule[c.row].there \/ ~ D.policy[Of[c.row]].there
      [] c.do \in {"set_rule", "set_only_rule", "delete_rule"} -> ~ D.rule[c.row].there
      [] c.do = "swap_order" -> ~ {c.row, c.next.rule} \subseteq Here(D.rule)
      [] c.do = "set" -> c.row \in D[c.to] \/ (c.to = "quickpeek" /\ D.server = "none")
      [] c.do = "replace" -> c.row \notin D[c.to] \/ c.next \in D[c.to]
      [] c.do = "new_server" -> D.server # "none"
      [] c.do = "server" -> D.server = "none"
      [] c.do = "unset" -> c.row \notin D[c.to]
      [] OTHER -> FALSE

(* What no task can make: a ruleset that names a deleted policy, and the      *)
(* file of an enabled policy without an enabled rule.                         *)
Hopeless(D) ==
    (IF Dangling(D) = {} THEN {} ELSE {Ruleset})
    \cup {Rules(D.policy[p].name) : p \in {x \in Here(D.policy) :
                                            D.policy[x].on /\ get_policy_rules(D, x) = {}}}

(* What the pages do not publish: the rules when one is moved, cloned into a  *)
(* policy that someone has meanwhile enabled, or changed                      *)
(* (the file is asked for before the commit); the ruleset when a policy is    *)
(* renamed, or deleted after it was asked for; the rules of a policy that was *)
(* renamed while one is deleted; the key when it is generated again; the      *)
(* settings of a server that is turned off or on.                             *)
Leaves(p, c, D) ==
    Hopeless(Apply(c, D))
    \cup (IF p \in {"move_rule", "edit_rule", "clone_policy"} THEN {Rules(n) : n \in Name} ELSE {})
    \cup (IF c.do = "enable" \/ (p = "delete_policy" /\ c.do # "domain") THEN {Ruleset} ELSE {})
    \cup (IF c.do = "delete_rule" /\ D.policy[Of[c.row]].name # c.to
          THEN {Rules(D.policy[Of[c.row]].name)} ELSE {})
    \cup (IF p = "domain_dkim_generate" THEN {Dkim} ELSE {})
    \cup (IF p \in {"edit_server", "delete_server"} THEN {Plain("quickpeek")} ELSE {})

(* BOUND: the pages that have to do with the files that are followed          *)
Ask(p, rows, names, ons) ==
    {[page |-> p, row |-> x, name |-> n, on |-> b] : x \in rows, n \in names, b \in ons}
PolicyPages ==
    Ask("add_policy", Policy, Name, {FALSE}) \cup Ask("edit_policy", Policy, Name, BOOLEAN)
    \cup Ask("delete_policy", Policy, {None}, {FALSE}) \cup Ask("clone_policy", Policy, Name, BOOLEAN)
    \cup (UNION {Ask(p, Rule, {None}, BOOLEAN) : p \in {"add_rule", "edit_rule", "move_rule"}})
    \cup Ask("delete_rule", Rule, {None}, {FALSE})
    \cup (UNION {Ask(p, Policy \cup {None}, {None}, {FALSE}) : p \in {"global_policies", "domain_policies"}})
DkimPages == Ask("domain_dkim_generate", {None}, {None}, {FALSE})
             \cup Ask("domain_dkim_enable", {None}, {None}, BOOLEAN)
PlainPages(f) ==
    CASE f = Plain("mta") -> UNION {Ask(p, Setting, {None}, {FALSE}) : 
                            p \in {"add_mta_setting", "edit_mta_setting", "del_mta_setting"}}
      [] f = Plain("scores") -> Ask("edit_local_scores", Setting, {None}, {FALSE})
      [] f = Plain("quickpeek") -> Ask("section", (SUBSET Setting) \ {{}}, {None}, {FALSE})
            \cup (UNION {Ask(p, {None}, {None}, BOOLEAN) : p \in {"new_server", "edit_server"}})
            \cup Ask("delete_server", {None}, {None}, {FALSE})
Asks(files) ==
    UNION {IF f = Dkim THEN DkimPages
           ELSE IF f \in {Plain(kind) : kind \in PlainKind} THEN PlainPages(f)
           ELSE PolicyPages : f \in files}

INSTANCE Backend

(* BOUND: at first a policy with its rules or none, enabled or not, set or    *)
(* not, and otherwise nothing.                                                *)
First(q, n, on, ks, g, d) ==
    [policy |-> [p \in Policy |-> IF p = q THEN PolicyRow(n, on)
                                   ELSE [there |-> FALSE, on |-> FALSE, name |-> n]],
     rule |-> [k \in Rule |->
                [RuleRow(TRUE, CHOOSE i \in DOMAIN SetToSeq(Rule) : SetToSeq(Rule)[i] = k)
                 EXCEPT !.there = (k \in ks)]],
     global |-> g,
     domain |-> [x \in DomainRow |-> IF x = CHOOSE y \in DomainRow : TRUE THEN d ELSE Absent],
     dkim |-> [there |-> FALSE, on |-> FALSE, key |-> 0],
     mta |-> {}, scores |-> {}, quickpeek |-> {}, server |-> "enabled"]
FirstRows ==
    {First(q, n, on, ks, g, d) : q \in Policy, n \in Name, on \in BOOLEAN, ks \in SUBSET Rule,
                                 g \in Policy \cup {None}, d \in Policy \cup {None, Absent}}

Init ==
    \E files \in Followed, D \in FirstRows :
        /\ \A p \in Policy : p \in {D.global} \cup {D.domain[x] : x \in DomainRow} => D.policy[p].on
        /\ \A p \in Policy : D.policy[p].on => get_policy_rules(D, p) # {}
        /\ \A k \in Here(D.rule) : D.policy[Of[k]].there
        /\ InitWith(D, files, [f \in files |-> IF Read_(f, D) THEN Said(f, D) ELSE Absent])

Spec == Init /\ [][Next]_vars

MaxOrder == Cardinality(Rule) + Cardinality(Request)    \* each page adds one rule
TypeOK ==
    /\ \A p \in Policy : db.policy[p].on => db.policy[p].there
    /\ \A k \in Rule : db.rule[k].there => db.policy[Of[k]].there /\ db.rule[k].order \in 0..MaxOrder
    /\ \A n \in Name : Cardinality(Named(db, n)) <= 1
    /\ db.global \in Policy \cup {None}
    /\ \A x \in DomainRow : db.domain[x] \in Policy \cup {None, Absent}
    /\ gaps \subseteq scope /\ \A t \in queue : Target(t) \in scope
    /\ asked \subseteq Request /\ \A r \in Request \ asked : todo[r] = <<>>
=============================================================================
