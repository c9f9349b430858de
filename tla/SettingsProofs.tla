---------------------------- MODULE SettingsProofs ----------------------------
(***************************************************************************)
(* Theorems about the pages of Settings: for any policies, rules, rows of  *)
(* the domain and settings, any number of requests at once and of          *)
(* processes killed.                                                       *)
(***************************************************************************)
EXTENDS Settings, FiniteSetTheorems, SequenceTheorems, WellFoundedInduction, TLAPS

-----------------------------------------------------------------------------
(* Types. An order of rules is at most b: it grows with the requests made.    *)

PolicyRows == [Policy -> [there : BOOLEAN, on : BOOLEAN, name : Name]]
RuleRows(b) == [Rule -> [there : BOOLEAN, on : BOOLEAN, order : 0 .. b]]
DkimRow == [there : BOOLEAN, on : BOOLEAN, key : Nat]
Used == Policy \cup {None}
Server == {"none", "enabled", "disabled"}
Rows(b) ==
    [policy : PolicyRows, rule : RuleRows(b), global : Used,
     domain : [DomainRow -> Used \cup {Absent}], dkim : DkimRow,
     mta : SUBSET Setting, scores : SUBSET Setting, quickpeek : SUBSET Setting,
     server : Server]

(* What the tables' keys and the pages keep to.                               *)
Unique(D) == \A p, q \in Here(D.policy) : D.policy[p].name = D.policy[q].name => p = q
Sound(D) ==
    /\ Unique(D)
    /\ \A p \in Policy : D.policy[p].on => D.policy[p].there
    /\ \A k \in Rule : D.rule[k].there => D.policy[Of[k]].there
    /\ D.server = "none" => D.quickpeek = {}

SamePlain(D, E) ==
    E.mta = D.mta /\ E.scores = D.scores /\ E.quickpeek = D.quickpeek /\ E.server = D.server

(* What a script commits.                                                     *)
Naming == {"add_policy", "enable", "disable"}
PolicyChange == Naming \cup {"policy_off", "delete_policy"}
NewRule == {"add_rule", "add_rule_off", "clone_rule"}
Switching == {"set_rule", "set_only_rule"}
RuleChange == NewRule \cup Switching \cup {"delete_rule", "swap_order"}
UseChange == {"global", "domain", "add_domain"}
DkimChange == {"dkim_generate", "dkim_enable"}
PlainChange == {"set", "unset", "replace"}
ServerChange == {"new_server", "server"}

ChangeOK(c, b) ==
    \/ c.do \in PolicyChange /\ c.row \in Policy /\ (c.do \in Naming => c.to \in Name)
    \/ /\ c.do \in RuleChange /\ c.row \in Rule
       /\ c.do \in NewRule => c.to \in 0 .. b
       /\ c.do \in Switching => c.to \in BOOLEAN
       /\ c.do = "delete_rule" => c.to \in Name
       /\ c.do = "swap_order" => c.to \in 0 .. b /\ c.next.rule \in Rule /\ c.next.order \in 0 .. b
    \/ c.do \in UseChange /\ c.to \in Used /\ (c.do = "domain" => c.row \in DomainRow)
    \/ c.do \in DkimChange /\ (c.do = "dkim_enable" => c.to \in BOOLEAN)
    \/ c.do \in PlainChange /\ c.to \in PlainKind /\ c.row \in Setting /\ (c.do = "replace" => c.next \in Setting)
    \/ c.do \in ServerChange /\ c.to \in Server

LEMMA Files ==
    /\ \A m, n : Rules(m) = Rules(n) => m = n
    /\ \A n : Rules(n) \notin {Ruleset, Dkim} \cup {Plain(kind) : kind \in PlainKind}
    /\ Ruleset # Dkim
    /\ \A kind \in PlainKind : Plain(kind) \notin {Ruleset, Dkim}
    /\ \A k, j : Plain(k) = Plain(j) => k = j
    /\ \A n : Rules(n)[1] = "rules" /\ Rules(n)[2] = n
    /\ \A f \in {Ruleset, Dkim} \cup {Plain(kind) : kind \in PlainKind} : f[1] # "rules"
    /\ \A k : Plain(k)[1] = k
BY DEF Rules, Ruleset, Dkim, Plain, PlainKind

-----------------------------------------------------------------------------
(* What a change does to the tables                                          *)

(* E has these tables, and otherwise those of D.                              *)
Only(b, D, E, policy, rule, global, domain, dkim) ==
    /\ E \in Rows(b) /\ E.policy = policy /\ E.rule = rule
    /\ E.global = global /\ E.domain = domain /\ E.dkim = dkim
    /\ SamePlain(D, E)

LEMMA PolicySet ==
    ASSUME NEW b, NEW D \in Rows(b), NEW x \in PolicyRows, NEW E, E = [D EXCEPT !.policy = x]
    PROVE  Only(b, D, E, x, D.rule, D.global, D.domain, D.dkim)
<1> USE DEF Rows, SamePlain, Only
<1> HIDE DEF PolicyRows, RuleRows, Used, DkimRow, Server
<1> QED  OBVIOUS

LEMMA RuleSet ==
    ASSUME NEW b, NEW D \in Rows(b), NEW x \in RuleRows(b), NEW E, E = [D EXCEPT !.rule = x]
    PROVE  Only(b, D, E, D.policy, x, D.global, D.domain, D.dkim)
<1> USE DEF Rows, SamePlain, Only
<1> HIDE DEF PolicyRows, RuleRows, Used, DkimRow, Server
<1> QED  OBVIOUS

LEMMA GlobalSet ==
    ASSUME NEW b, NEW D \in Rows(b), NEW x \in Used, NEW E, E = [D EXCEPT !.global = x]
    PROVE  Only(b, D, E, D.policy, D.rule, x, D.domain, D.dkim)
<1> USE DEF Rows, SamePlain, Only
<1> HIDE DEF PolicyRows, RuleRows, Used, DkimRow, Server
<1> QED  OBVIOUS

LEMMA DomainSet ==
    ASSUME NEW b, NEW D \in Rows(b), NEW x \in [DomainRow -> Used \cup {Absent}], NEW E, E = [D EXCEPT !.domain = x]
    PROVE  Only(b, D, E, D.policy, D.rule, D.global, x, D.dkim)
<1> USE DEF Rows, SamePlain, Only
<1> HIDE DEF PolicyRows, RuleRows, Used, DkimRow, Server
<1> QED  OBVIOUS

LEMMA DkimSet ==
    ASSUME NEW b, NEW D \in Rows(b), NEW x \in DkimRow, NEW E, E = [D EXCEPT !.dkim = x]
    PROVE  Only(b, D, E, D.policy, D.rule, D.global, D.domain, x)
<1> USE DEF Rows, SamePlain, Only
<1> HIDE DEF PolicyRows, RuleRows, Used, DkimRow, Server
<1> QED  OBVIOUS

LEMMA ChangeParts ==
    ASSUME NEW b, NEW c, ChangeOK(c, b)
    PROVE  /\ c.do \in PolicyChange => c.row \in Policy /\ (c.do \in Naming => c.to \in Name)
           /\ c.do \in RuleChange =>
                /\ c.row \in Rule
                /\ c.do \in NewRule => c.to \in 0 .. b
                /\ c.do \in Switching => c.to \in BOOLEAN
                /\ c.do = "delete_rule" => c.to \in Name
                /\ c.do = "swap_order" =>
                    c.to \in 0 .. b /\ c.next.rule \in Rule /\ c.next.order \in 0 .. b
           /\ c.do \in UseChange => c.to \in Used /\ (c.do = "domain" => c.row \in DomainRow)
           /\ c.do = "dkim_enable" => c.to \in BOOLEAN
           /\ c.do \in PlainChange => /\ c.to \in PlainKind /\ c.row \in Setting
                                      /\ c.do = "replace" => c.next \in Setting
           /\ c.do \in ServerChange => c.to \in Server
           /\ c.do \in PolicyChange \cup RuleChange \cup UseChange \cup DkimChange
                        \cup PlainChange \cup ServerChange
BY DEF ChangeOK, RuleChange, NewRule, Switching, PolicyChange, Naming, UseChange, DkimChange,
       PlainChange, ServerChange

LEMMA PolicyApplied ==
    ASSUME NEW b \in Nat, NEW D \in Rows(b), NEW c, c.do \in PolicyChange, c.row \in Policy,
           c.do \in Naming => c.to \in Name, NEW E, E = Apply(c, D)
    PROVE  /\ E \in Rows(b)
           /\ \A p \in Policy : p # c.row => E.policy[p] = D.policy[p]
           /\ c.do \in Naming => E.policy[c.row] = PolicyRow(c.to, c.do = "enable")
           /\ c.do \notin Naming => /\ E.policy[c.row].name = D.policy[c.row].name
                                    /\ ~ E.policy[c.row].on
           /\ c.do = "policy_off" => E.policy[c.row].there = D.policy[c.row].there
           /\ c.do = "delete_policy" => ~ E.policy[c.row].there
           /\ c.do # "delete_policy" => E.rule = D.rule
           /\ \A k \in Rule : Of[k] # c.row => E.rule[k] = D.rule[k]
           /\ c.do = "delete_policy" => \A k \in Rule : Of[k] = c.row => ~ E.rule[k].there
           /\ c.do # "disable" => E.global = D.global
           /\ E.domain = D.domain /\ E.dkim = D.dkim /\ SamePlain(D, E)
<1>0. D.policy \in PolicyRows /\ D.rule \in RuleRows(b) /\ None \in Used
  BY DEF Rows, Used
<1> DEFINE Named_(on) == [D.policy EXCEPT ![c.row] = PolicyRow(c.to, on)]
           Off == [D.policy EXCEPT ![c.row].on = FALSE]
<1>1. c.do \in Naming => \A on \in BOOLEAN :
        /\ Named_(on) \in PolicyRows /\ Named_(on)[c.row] = PolicyRow(c.to, on)
        /\ \A p \in Policy : p # c.row => Named_(on)[p] = D.policy[p]
  BY <1>0 DEF PolicyRows, PolicyRow
<1>2. ASSUME NEW P \in PolicyRows
      PROVE  /\ [P EXCEPT ![c.row].on = FALSE] \in PolicyRows
             /\ [P EXCEPT ![c.row].on = FALSE][c.row] = [P[c.row] EXCEPT !.on = FALSE]
             /\ \A p \in Policy : p # c.row => [P EXCEPT ![c.row].on = FALSE][p] = P[p]
  BY DEF PolicyRows
<1>3. \A x \in [there : BOOLEAN, on : BOOLEAN, name : Name] :
        /\ [x EXCEPT !.on = FALSE].there = x.there /\ [x EXCEPT !.on = FALSE].name = x.name
        /\ ~ [x EXCEPT !.on = FALSE].on
        /\ [x EXCEPT !.there = FALSE] \in [there : BOOLEAN, on : BOOLEAN, name : Name]
        /\ ~ [x EXCEPT !.there = FALSE].there /\ [x EXCEPT !.there = FALSE].name = x.name
  OBVIOUS
<1>4. CASE c.do = "add_policy"
  <2>1. E = [D EXCEPT !.policy = Named_(FALSE)]
    BY <1>4, Zenon DEF Apply
  <2>2. Named_(FALSE) \in PolicyRows
    BY <1>1, <1>4 DEF Naming
  <2> HIDE DEF Named_
  <2>3. Only(b, D, E, Named_(FALSE), D.rule, D.global, D.domain, D.dkim)
    BY <2>1, <2>2, PolicySet
  <2> QED  BY <1>1, <1>4, <2>3 DEF Naming, Only
<1>5. CASE c.do = "enable"
  <2>1. E = [D EXCEPT !.policy = Named_(TRUE)]
    BY <1>5, Zenon DEF Apply
  <2>2. Named_(TRUE) \in PolicyRows
    BY <1>1, <1>5 DEF Naming
  <2> HIDE DEF Named_
  <2>3. Only(b, D, E, Named_(TRUE), D.rule, D.global, D.domain, D.dkim)
    BY <2>1, <2>2, PolicySet
  <2> QED  BY <1>1, <1>5, <2>3 DEF Naming, Only
<1>6. CASE c.do = "disable"
  <2> DEFINE X == [D EXCEPT !.policy = Named_(FALSE)]
  <2>1. E = IF c.clears THEN [X EXCEPT !.global = None] ELSE X
    BY <1>6, Zenon DEF Apply
  <2>2. E = X \/ E = [X EXCEPT !.global = None]
    BY <2>1
  <2>3. Named_(FALSE) \in PolicyRows
    BY <1>1, <1>6 DEF Naming
  <2> HIDE DEF Named_
  <2>4. Only(b, D, X, Named_(FALSE), D.rule, D.global, D.domain, D.dkim)
    BY <2>3, PolicySet
  <2> HIDE DEF X
  <2>5. X \in Rows(b)
    BY <2>4 DEF Only
  <2>6. ASSUME E # X
        PROVE  Only(b, X, E, X.policy, X.rule, None, X.domain, X.dkim)
    BY <1>0, <2>2, <2>5, <2>6, GlobalSet
  <2>7. /\ E \in Rows(b) /\ E.policy = Named_(FALSE) /\ E.rule = D.rule
        /\ E.domain = D.domain /\ E.dkim = D.dkim /\ SamePlain(D, E)
    BY <2>4, <2>6 DEF Only, SamePlain
  <2> QED  BY <1>1, <1>6, <2>7 DEF Naming
<1>7. CASE c.do = "policy_off"
  <2>1. E = [D EXCEPT !.policy = Off]
    BY <1>7, Zenon DEF Apply
  <2>2. /\ Off \in PolicyRows /\ Off[c.row] = [D.policy[c.row] EXCEPT !.on = FALSE]
        /\ \A p \in Policy : p # c.row => Off[p] = D.policy[p]
    BY <1>0, <1>2
  <2>3. /\ Off[c.row].name = D.policy[c.row].name /\ ~ Off[c.row].on
        /\ Off[c.row].there = D.policy[c.row].there
    BY <1>0, <1>3, <2>2 DEF PolicyRows
  <2> HIDE DEF Off
  <2>4. Only(b, D, E, Off, D.rule, D.global, D.domain, D.dkim)
    BY <2>1, <2>2, PolicySet
  <2> QED  BY <1>7, <2>2, <2>3, <2>4 DEF Naming, Only
<1>8. CASE c.do = "delete_policy"
  <2> DEFINE P == [D.policy EXCEPT ![c.row].there = FALSE]
             Q == [P EXCEPT ![c.row].on = FALSE]
             R == [k \in Rule |-> IF Of[k] = c.row THEN [D.rule[k] EXCEPT !.there = FALSE] ELSE D.rule[k]]
             X == [D EXCEPT !.policy = P]
             Y == [X EXCEPT !.policy = [X.policy EXCEPT ![c.row].on = FALSE]]
  <2>1. E = [Y EXCEPT !.rule = R]
    BY <1>8, Zenon DEF Apply
  <2>2. /\ P \in PolicyRows /\ P[c.row] = [D.policy[c.row] EXCEPT !.there = FALSE]
        /\ \A p \in Policy : p # c.row => P[p] = D.policy[p]
    BY <1>0, <1>3 DEF PolicyRows
  <2>3. ~ P[c.row].there /\ P[c.row].name = D.policy[c.row].name
    BY <1>0, <1>3, <2>2 DEF PolicyRows
  <2> HIDE DEF P
  <2>4. Only(b, D, X, P, D.rule, D.global, D.domain, D.dkim)
    BY <2>2, PolicySet
  <2>5. /\ Q \in PolicyRows /\ Q[c.row] = [P[c.row] EXCEPT !.on = FALSE]
        /\ \A p \in Policy : p # c.row => Q[p] = P[p]
    BY <1>2, <2>2
  <2>6. ~ Q[c.row].there /\ Q[c.row].name = D.policy[c.row].name /\ ~ Q[c.row].on
    BY <1>3, <2>2, <2>3, <2>5 DEF PolicyRows
  <2>7. X.policy = P /\ X \in Rows(b)
    BY <2>4 DEF Only
  <2>8. Y = [X EXCEPT !.policy = Q]
    BY <2>7
  <2> HIDE DEF X, Q
  <2>9. Only(b, X, Y, Q, X.rule, X.global, X.domain, X.dkim)
    BY <2>5, <2>7, <2>8, PolicySet
  <2>10. /\ R \in RuleRows(b)
         /\ \A k \in Rule : R[k] = IF Of[k] = c.row THEN [D.rule[k] EXCEPT !.there = FALSE] ELSE D.rule[k]
    BY <1>0 DEF RuleRows
  <2>11. \A k \in Rule : Of[k] = c.row => ~ R[k].there
    BY <1>0, <2>10 DEF RuleRows
  <2>12. \A k \in Rule : Of[k] # c.row => R[k] = D.rule[k]
    BY <2>10
  <2> HIDE DEF Y, R
  <2>13. Y \in Rows(b)
    BY <2>9 DEF Only
  <2>14. Only(b, Y, E, Y.policy, R, Y.global, Y.domain, Y.dkim)
    BY <2>1, <2>10, <2>13, RuleSet
  <2>15. Only(b, D, E, Q, R, D.global, D.domain, D.dkim)
    BY <2>4, <2>9, <2>14 DEF Only, SamePlain
  <2> QED  BY <1>8, <2>2, <2>5, <2>6, <2>11, <2>12, <2>15 DEF Naming, Only
<1> QED  BY <1>4, <1>5, <1>6, <1>7, <1>8 DEF PolicyChange, Naming

LEMMA RuleApplied ==
    ASSUME NEW b \in Nat, NEW D \in Rows(b), NEW c, c.do \in RuleChange, ChangeOK(c, b),
           Of \in [Rule -> Policy], NEW E, E = Apply(c, D)
    PROVE  /\ E \in Rows(b)
           /\ \A k \in Rule : k # c.row /\ (c.do = "swap_order" => k # c.next.rule) => E.rule[k] = D.rule[k]
           /\ c.do \in NewRule => E.rule[c.row] = RuleRow(c.do # "add_rule_off", c.to)
           /\ c.do \notin NewRule => \A k \in Rule : E.rule[k].there => D.rule[k].there
           /\ c.do = "delete_rule" => ~ E.rule[c.row].there
           /\ c.do # "set_only_rule" => E.policy = D.policy
           /\ \A p \in Policy : /\ E.policy[p].there = D.policy[p].there
                                /\ E.policy[p].name = D.policy[p].name
                                /\ E.policy[p].on => D.policy[p].on
           /\ E.global = D.global /\ E.domain = D.domain /\ E.dkim = D.dkim /\ SamePlain(D, E)
<1>0. D.policy \in PolicyRows /\ D.rule \in RuleRows(b)
  BY DEF Rows
<1>1. /\ c.row \in Rule
      /\ c.do \in NewRule => c.to \in 0 .. b
      /\ c.do \in Switching => c.to \in BOOLEAN
      /\ c.do = "swap_order" => c.to \in 0 .. b /\ c.next.rule \in Rule /\ c.next.order \in 0 .. b
  BY ChangeParts
<1>2. ASSUME NEW R \in RuleRows(b), E = [D EXCEPT !.rule = R]
      PROVE  /\ E \in Rows(b) /\ E.rule = R /\ E.policy = D.policy
             /\ E.global = D.global /\ E.domain = D.domain /\ E.dkim = D.dkim /\ SamePlain(D, E)
  <2>1. Only(b, D, E, D.policy, R, D.global, D.domain, D.dkim)
    BY <1>2, RuleSet
  <2> QED  BY <2>1 DEF Only
<1>3. CASE c.do \in NewRule
  <2> DEFINE row == RuleRow(c.do # "add_rule_off", c.to)
             R == [D.rule EXCEPT ![c.row] = row]
  <2>1. E = [D EXCEPT !.rule = R]
    <3>1. CASE c.do \in {"add_rule", "clone_rule"}
      <4>1. E = [D EXCEPT !.rule[c.row] = RuleRow(TRUE, c.to)]
        BY <3>1, Zenon DEF Apply
      <4>2. row = RuleRow(TRUE, c.to)
        BY <3>1 DEF RuleRow
      <4> QED  BY <4>1, <4>2
    <3>2. CASE c.do = "add_rule_off"
      <4>1. E = [D EXCEPT !.rule[c.row] = RuleRow(FALSE, c.to)]
        BY <3>2, Zenon DEF Apply
      <4>2. row = RuleRow(FALSE, c.to)
        BY <3>2 DEF RuleRow
      <4> QED  BY <4>1, <4>2
    <3> QED  BY <1>3, <3>1, <3>2 DEF NewRule
  <2>2. row \in [there : BOOLEAN, on : BOOLEAN, order : 0 .. b]
    BY <1>1, <1>3 DEF RuleRow
  <2> HIDE DEF row
  <2>3. R \in RuleRows(b) /\ R[c.row] = row /\ \A k \in Rule : k # c.row => R[k] = D.rule[k]
    BY <1>0, <1>1, <2>2 DEF RuleRows
  <2> HIDE DEF R
  <2> QED  BY <1>2, <1>3, <2>1, <2>3 DEF row, NewRule
<1>4. CASE c.do = "set_rule"
  <2> DEFINE R == [D.rule EXCEPT ![c.row].on = c.to]
  <2>1. E = [D EXCEPT !.rule = R]
    BY <1>4, Zenon DEF Apply
  <2>2. R \in RuleRows(b) /\ (\A k \in Rule : k # c.row => R[k] = D.rule[k]) /\ R[c.row].there = D.rule[c.row].there
    BY <1>0, <1>1, <1>4 DEF RuleRows, Switching
  <2> HIDE DEF R
  <2> QED  BY <1>2, <1>4, <2>1, <2>2 DEF NewRule
<1>5. CASE c.do = "set_only_rule"
  <2> DEFINE R == [D.rule EXCEPT ![c.row].on = c.to]
             X == [D EXCEPT !.rule = R]
             P == [D.policy EXCEPT ![Of[c.row]].on = FALSE]
             q == Of[c.row]
  <2>1. E = [X EXCEPT !.policy = [X.policy EXCEPT ![Of[c.row]].on = FALSE]]
    BY <1>5, Zenon DEF Apply
  <2>2. R \in RuleRows(b) /\ (\A k \in Rule : k # c.row => R[k] = D.rule[k]) /\ R[c.row].there = D.rule[c.row].there
    BY <1>0, <1>1, <1>5 DEF RuleRows, Switching
  <2> HIDE DEF R
  <2>3. Only(b, D, X, D.policy, R, D.global, D.domain, D.dkim)
    BY <2>2, RuleSet
  <2>4. X.policy = D.policy /\ X \in Rows(b)
    BY <2>3 DEF Only
  <2>5. P \in PolicyRows /\ \A p \in Policy :
            P[p].there = D.policy[p].there /\ P[p].name = D.policy[p].name /\ (P[p].on => D.policy[p].on)
    <3>1. q \in Policy
      BY <1>1
    <3> HIDE DEF q
    <3>2. P = [D.policy EXCEPT ![q].on = FALSE]
      BY DEF q
    <3>3. [D.policy EXCEPT ![q].on = FALSE] \in PolicyRows /\ \A p \in Policy : p # q =>
             [D.policy EXCEPT ![q].on = FALSE][p] = D.policy[p]
      BY <1>0, <3>1 DEF PolicyRows
    <3>4. [D.policy EXCEPT ![q].on = FALSE][q] = [D.policy[q] EXCEPT !.on = FALSE]
      BY <1>0, <3>1 DEF PolicyRows
    <3>5. [D.policy[q] EXCEPT !.on = FALSE].there = D.policy[q].there
          /\ [D.policy[q] EXCEPT !.on = FALSE].name = D.policy[q].name
          /\ ~ [D.policy[q] EXCEPT !.on = FALSE].on
      BY <1>0, <3>1 DEF PolicyRows
    <3> QED  BY <3>2, <3>3, <3>4, <3>5
  <2>6. E = [X EXCEPT !.policy = P]
    BY <2>1, <2>4
  <2> HIDE DEF P, X
  <2>7. Only(b, X, E, P, X.rule, X.global, X.domain, X.dkim)
    BY <2>4, <2>5, <2>6, PolicySet
  <2>8. Only(b, D, E, P, R, D.global, D.domain, D.dkim)
    BY <2>3, <2>7 DEF Only, SamePlain
  <2> QED  BY <1>5, <2>2, <2>5, <2>8 DEF NewRule, Only
<1>6. CASE c.do = "delete_rule"
  <2> DEFINE R == [D.rule EXCEPT ![c.row].there = FALSE]
  <2>1. E = [D EXCEPT !.rule = R]
    BY <1>6, Zenon DEF Apply
  <2>2. R \in RuleRows(b) /\ (\A k \in Rule : k # c.row => R[k] = D.rule[k]) /\ ~ R[c.row].there
    BY <1>0, <1>1 DEF RuleRows
  <2> HIDE DEF R
  <2> QED  BY <1>2, <1>6, <2>1, <2>2 DEF NewRule
<1>7. CASE c.do = "swap_order"
  <2> DEFINE Q == [D.rule EXCEPT ![c.row].order = c.to]
             R == [Q EXCEPT ![c.next.rule].order = c.next.order]
             X == [D EXCEPT !.rule = Q]
  <2>1. E = [X EXCEPT !.rule = [X.rule EXCEPT ![c.next.rule].order = c.next.order]]
    BY <1>7, Zenon DEF Apply
  <2>2. Q \in RuleRows(b) /\ (\A k \in Rule : k # c.row => Q[k] = D.rule[k]) /\ Q[c.row].there = D.rule[c.row].there
    BY <1>0, <1>1, <1>7 DEF RuleRows
  <2> HIDE DEF Q
  <2>3. /\ R \in RuleRows(b) /\ (\A k \in Rule : k # c.next.rule => R[k] = Q[k])
        /\ R[c.next.rule].there = Q[c.next.rule].there
    BY <1>1, <1>7, <2>2 DEF RuleRows
  <2>4. Only(b, D, X, D.policy, Q, D.global, D.domain, D.dkim)
    BY <2>2, RuleSet
  <2>5. X.rule = Q /\ X \in Rows(b)
    BY <2>4 DEF Only
  <2>6. E = [X EXCEPT !.rule = R]
    BY <2>1, <2>5
  <2> HIDE DEF X, R
  <2>7. Only(b, X, E, X.policy, R, X.global, X.domain, X.dkim)
    BY <2>3, <2>5, <2>6, RuleSet
  <2>8. Only(b, D, E, D.policy, R, D.global, D.domain, D.dkim)
    BY <2>4, <2>7 DEF Only, SamePlain
  <2>9. \A k \in Rule : R[k].there => D.rule[k].there
    BY <1>1, <1>7, <2>2, <2>3
  <2> QED  BY <1>7, <2>2, <2>3, <2>8, <2>9 DEF NewRule, Only
<1> QED  BY <1>3, <1>4, <1>5, <1>6, <1>7 DEF RuleChange, Switching, NewRule

LEMMA UseApplied ==
    ASSUME NEW b \in Nat, NEW D \in Rows(b), NEW c, c.do \in UseChange, c.to \in Used,
           c.do = "domain" => c.row \in DomainRow, NEW E, E = Apply(c, D)
    PROVE  /\ E \in Rows(b) /\ E.policy = D.policy /\ E.rule = D.rule
           /\ E.dkim = D.dkim /\ SamePlain(D, E)
<1>1. D.domain \in [DomainRow -> Used \cup {Absent}] /\ None \in Used
  BY DEF Rows, Used
<1>2. CASE c.do = "global"
  <2>1. E = [D EXCEPT !.global = c.to]
    BY <1>2, Zenon DEF Apply
  <2>2. Only(b, D, E, D.policy, D.rule, c.to, D.domain, D.dkim)
    BY <2>1, GlobalSet
  <2> QED  BY <2>2 DEF Only
<1>3. CASE c.do = "domain"
  <2> DEFINE R == [D.domain EXCEPT ![c.row] = c.to]
             X == [D EXCEPT !.domain = R]
  <2>1. E = IF c.clears THEN [X EXCEPT !.global = None] ELSE X
    BY <1>3, Zenon DEF Apply
  <2>2. E = X \/ E = [X EXCEPT !.global = None]
    BY <2>1
  <2>3. R \in [DomainRow -> Used \cup {Absent}]
    BY <1>1
  <2> HIDE DEF R
  <2>4. Only(b, D, X, D.policy, D.rule, D.global, R, D.dkim)
    BY <2>3, DomainSet
  <2> HIDE DEF X
  <2>5. X \in Rows(b)
    BY <2>4 DEF Only
  <2>6. ASSUME E # X
        PROVE  Only(b, X, E, X.policy, X.rule, None, X.domain, X.dkim)
    BY <1>1, <2>2, <2>5, <2>6, GlobalSet
  <2> QED  BY <2>4, <2>6 DEF Only, SamePlain
<1>4. CASE c.do = "add_domain"
  <2> DEFINE NewRow == CHOOSE g \in DomainRow : D.domain[g] = Absent
             R == [D.domain EXCEPT ![NewRow] = c.to]
  <2>1. E = [D EXCEPT !.domain = R]
    BY <1>4, Zenon DEF Apply
  <2> HIDE DEF NewRow
  <2>2. R \in [DomainRow -> Used \cup {Absent}]
    BY <1>1
  <2> HIDE DEF R
  <2>3. Only(b, D, E, D.policy, D.rule, D.global, R, D.dkim)
    BY <2>1, <2>2, DomainSet
  <2> QED  BY <2>3 DEF Only
<1> QED  BY <1>2, <1>3, <1>4 DEF UseChange

LEMMA DkimApplied ==
    ASSUME NEW b \in Nat, NEW D \in Rows(b), NEW c, c.do \in DkimChange,
           c.do = "dkim_enable" => c.to \in BOOLEAN, NEW E, E = Apply(c, D)
    PROVE  /\ E \in Rows(b) /\ E.policy = D.policy /\ E.rule = D.rule
           /\ E.global = D.global /\ E.domain = D.domain /\ SamePlain(D, E)
           /\ c.do = "dkim_enable" => E.dkim.on = c.to
<1>1. D.dkim \in DkimRow
  BY DEF Rows
<1>2. CASE c.do = "dkim_generate"
  <2> DEFINE P == [D.dkim EXCEPT !.there = TRUE]
             X == [D EXCEPT !.dkim = P]
             Q == [P EXCEPT !.key = P.key + 1]
  <2>1. E = [X EXCEPT !.dkim = [X.dkim EXCEPT !.key = X.dkim.key + 1]]
    BY <1>2, Zenon DEF Apply
  <2>2. P \in DkimRow
    BY <1>1 DEF DkimRow
  <2> HIDE DEF P
  <2>3. Only(b, D, X, D.policy, D.rule, D.global, D.domain, P)
    BY <2>2, DkimSet
  <2>4. X.dkim = P /\ X \in Rows(b)
    BY <2>3 DEF Only
  <2>5. E = [X EXCEPT !.dkim = Q]
    BY <2>1, <2>4
  <2>6. Q \in DkimRow
    BY <2>2 DEF DkimRow
  <2> HIDE DEF X, Q
  <2>7. Only(b, X, E, X.policy, X.rule, X.global, X.domain, Q)
    BY <2>4, <2>5, <2>6, DkimSet
  <2> QED  BY <1>2, <2>3, <2>7 DEF Only, SamePlain
<1>3. CASE c.do = "dkim_enable"
  <2> DEFINE P == [D.dkim EXCEPT !.on = c.to]
  <2>1. E = [D EXCEPT !.dkim = P]
    BY <1>3, Zenon DEF Apply
  <2>2. P \in DkimRow /\ P.on = c.to
    BY <1>1, <1>3 DEF DkimRow
  <2> HIDE DEF P
  <2>3. Only(b, D, E, D.policy, D.rule, D.global, D.domain, P)
    BY <2>1, <2>2, DkimSet
  <2> QED  BY <2>2, <2>3 DEF Only
<1> QED  BY <1>2, <1>3 DEF DkimChange

(* The tables of policies are not touched.                                    *)
SameTables(D, E) ==
    /\ E.policy = D.policy /\ E.rule = D.rule /\ E.global = D.global
    /\ E.domain = D.domain /\ E.dkim = D.dkim

OnlyKind(b, D, E, kind) ==
    /\ E \in Rows(b) /\ SameTables(D, E) /\ E.server = D.server
    /\ \A k \in PlainKind : k # kind => E[k] = D[k]

LEMMA KindSet ==
    ASSUME NEW b, NEW D \in Rows(b), NEW kind \in PlainKind, NEW x \in SUBSET Setting,
           NEW E, E = [D EXCEPT ![kind] = x]
    PROVE  OnlyKind(b, D, E, kind)
<1> USE DEF OnlyKind, Rows, SameTables, PlainKind
<1> HIDE DEF PolicyRows, RuleRows, Used, DkimRow, Server
<1>1. CASE kind = "mta"
  BY <1>1
<1>2. CASE kind = "scores"
  BY <1>2
<1>3. CASE kind = "quickpeek"
  BY <1>3
<1> QED  BY <1>1, <1>2, <1>3

LEMMA PlainApplied ==
    ASSUME NEW b \in Nat, NEW D \in Rows(b), NEW c, c.do \in PlainChange, c.to \in PlainKind,
           c.row \in Setting, c.do = "replace" => c.next \in Setting, ~ Refused(c, D),
           NEW E, E = Apply(c, D)
    PROVE  /\ E \in Rows(b) /\ SameTables(D, E) /\ E.server = D.server
           /\ \A k \in PlainKind : k # c.to => E[k] = D[k]
           /\ D.quickpeek # E.quickpeek => D.server # "none" \/ D.quickpeek # {}
<1>1. D[c.to] \in SUBSET Setting /\ c.to \in {"mta", "scores", "quickpeek"}
  BY DEF Rows, PlainKind
<1>2. ASSUME NEW x \in SUBSET Setting, E = [D EXCEPT ![c.to] = x],
             c.to = "quickpeek" => D.server # "none" \/ D.quickpeek # {}
      PROVE  /\ E \in Rows(b) /\ SameTables(D, E) /\ E.server = D.server
             /\ \A k \in PlainKind : k # c.to => E[k] = D[k]
             /\ D.quickpeek # E.quickpeek => D.server # "none" \/ D.quickpeek # {}
  <2>1. OnlyKind(b, D, E, c.to)
    BY <1>2, KindSet
  <2>2. c.to # "quickpeek" => E["quickpeek"] = D["quickpeek"]
    BY <2>1 DEF OnlyKind, PlainKind
  <2> QED  BY <1>2, <2>1, <2>2 DEF OnlyKind
<1>3. CASE c.do = "set"
  <2>1. E = [D EXCEPT ![c.to] = D[c.to] \cup {c.row}]
    BY <1>3, Zenon DEF Apply
  <2>2. ~ (c.row \in D[c.to] \/ (c.to = "quickpeek" /\ D.server = "none"))
    BY <1>3, Zenon DEF Refused
  <2>3. D[c.to] \cup {c.row} \in SUBSET Setting
    BY <1>1
  <2> QED  BY <1>2, <2>1, <2>2, <2>3
<1>4. CASE c.do = "unset"
  <2>1. E = [D EXCEPT ![c.to] = D[c.to] \ {c.row}]
    BY <1>4, Zenon DEF Apply
  <2>2. c.row \in D[c.to]
    BY <1>4, Zenon DEF Refused
  <2>3. D[c.to] \ {c.row} \in SUBSET Setting
    BY <1>1
  <2> QED  BY <1>2, <2>1, <2>2, <2>3
<1>5. CASE c.do = "replace"
  <2>1. E = [D EXCEPT ![c.to] = (D[c.to] \ {c.row}) \cup {c.next}]
    BY <1>5, Zenon DEF Apply
  <2>2. c.row \in D[c.to]
    BY <1>5, Zenon DEF Refused
  <2>3. (D[c.to] \ {c.row}) \cup {c.next} \in SUBSET Setting
    BY <1>1, <1>5
  <2> QED  BY <1>2, <2>1, <2>2, <2>3
<1> QED  BY <1>3, <1>4, <1>5 DEF PlainChange

LEMMA ServerApplied ==
    ASSUME NEW b \in Nat, NEW D \in Rows(b), NEW c, c.do \in ServerChange, c.to \in Server,
           ~ Refused(c, D), NEW E, E = Apply(c, D)
    PROVE  /\ E \in Rows(b) /\ SameTables(D, E) /\ E.mta = D.mta /\ E.scores = D.scores
           /\ E.server = c.to /\ (E.quickpeek = {} \/ E.quickpeek = D.quickpeek)
           /\ c.do = "new_server" => D.server = "none" /\ E.quickpeek = D.quickpeek
           /\ c.do = "server" /\ c.to = "none" => E.quickpeek = {}
<1> USE DEF Rows, SameTables
<1> HIDE DEF PolicyRows, RuleRows, Used, DkimRow, Server
<1>1. CASE c.do = "new_server"
  <2>1. E = [D EXCEPT !.server = c.to]
    BY <1>1, Zenon DEF Apply
  <2>2. D.server = "none"
    BY <1>1, Zenon DEF Refused
  <2> QED  BY <1>1, <2>1, <2>2
<1>2. CASE c.do = "server"
  <2> DEFINE X == [D EXCEPT !.server = c.to]
             q == IF c.to = "none" THEN {} ELSE X.quickpeek
  <2>1. E = [X EXCEPT !.quickpeek = q]
    BY <1>2, Zenon DEF Apply
  <2>2. X \in Rows(b) /\ SameTables(D, X) /\ X.mta = D.mta /\ X.scores = D.scores
        /\ X.server = c.to /\ X.quickpeek = D.quickpeek
    OBVIOUS
  <2>3. q \in SUBSET Setting /\ (q = {} \/ q = D.quickpeek) /\ (c.to = "none" => q = {})
    BY <2>2
  <2> HIDE DEF X, q
  <2>4. E \in Rows(b) /\ SameTables(X, E) /\ E.mta = X.mta /\ E.scores = X.scores
        /\ E.server = X.server /\ E.quickpeek = q
    BY <2>1, <2>2, <2>3
  <2> QED  BY <1>2, <2>2, <2>3, <2>4
<1> QED  BY <1>1, <1>2 DEF ServerChange

LEMMA SoundKept ==
    ASSUME SettingsAssumption, NEW b \in Nat, NEW D \in Rows(b), Sound(D), NEW c, ChangeOK(c, b),
           ~ Refused(c, D), NEW E, E = Apply(c, D)
    PROVE  E \in Rows(b) /\ Sound(E)
<1>1. Of \in [Rule -> Policy]
  BY DEF SettingsAssumption
<1>2. D.policy \in PolicyRows /\ D.rule \in RuleRows(b)
  BY DEF Rows
<1>3. CASE c.do \in PolicyChange
  <2>0. c.row \in Policy /\ (c.do \in Naming => c.to \in Name)
    BY <1>3, ChangeParts
  <2>1. /\ E \in Rows(b) /\ SamePlain(D, E)
        /\ \A p \in Policy : p # c.row => E.policy[p] = D.policy[p]
        /\ c.do \in Naming => E.policy[c.row] = PolicyRow(c.to, c.do = "enable")
        /\ c.do \notin Naming => /\ E.policy[c.row].name = D.policy[c.row].name
                                 /\ ~ E.policy[c.row].on
        /\ c.do = "policy_off" => E.policy[c.row].there = D.policy[c.row].there
        /\ c.do = "delete_policy" => ~ E.policy[c.row].there
        /\ c.do # "delete_policy" => E.rule = D.rule
        /\ \A k \in Rule : Of[k] # c.row => E.rule[k] = D.rule[k]
        /\ c.do = "delete_policy" => \A k \in Rule : Of[k] = c.row => ~ E.rule[k].there
    BY <1>3, <2>0, PolicyApplied
  <2>2. E.policy \in PolicyRows /\ E.rule \in RuleRows(b)
    BY <2>1 DEF Rows
  <2>3. Here(D.policy) = {p \in Policy : D.policy[p].there} /\ Here(E.policy) = {p \in Policy : E.policy[p].there}
    BY <1>2, <2>2 DEF Here, PolicyRows
  <2>4. c.do \in Naming => \A q \in Here(D.policy) : q # c.row => D.policy[q].name # c.to
    <3>1. CASE c.do = "add_policy"
      <4>1. Named(D, c.to) = {}
        BY <3>1, Zenon DEF Refused
      <4> QED  BY <4>1 DEF Named
    <3>2. CASE c.do \in {"enable", "disable"}
      <4>1. Named(D, c.to) \ {c.row} = {}
        BY <3>2, Zenon DEF Refused
      <4> QED  BY <4>1 DEF Named
    <3> QED  BY <3>1, <3>2 DEF Naming
  <2>5. Unique(E)
    <3> SUFFICES ASSUME NEW p \in Here(E.policy), NEW q \in Here(E.policy),
                        E.policy[p].name = E.policy[q].name
                 PROVE  p = q
      BY DEF Unique
    <3>1. CASE c.do \in Naming
      <4>1. E.policy[c.row].name = c.to
        BY <2>1, <3>1 DEF PolicyRow
      <4>2. \A x \in Here(E.policy) : x # c.row => x \in Here(D.policy) /\ E.policy[x].name = D.policy[x].name
        BY <2>1, <2>3
      <4> QED  BY <2>4, <3>1, <4>1, <4>2 DEF Sound, Unique
    <3>2. CASE c.do \notin Naming
      <4>1. \A x \in Here(E.policy) : x \in Here(D.policy) /\ E.policy[x].name = D.policy[x].name
        BY <1>3, <2>1, <2>3, <3>2 DEF PolicyChange
      <4> QED  BY <4>1 DEF Sound, Unique
    <3> QED  BY <3>1, <3>2
  <2>6. \A p \in Policy : E.policy[p].on => E.policy[p].there
    BY <2>1 DEF Sound, PolicyRow
  <2>7. \A k \in Rule : E.rule[k].there => E.policy[Of[k]].there
    <3>1. CASE c.do = "delete_policy"
      BY <1>1, <2>1, <3>1 DEF Sound
    <3>2. CASE c.do # "delete_policy"
      <4>1. D.policy[c.row].there => E.policy[c.row].there
        <5>1. CASE c.do \in Naming
          BY <2>1, <5>1 DEF PolicyRow
        <5>2. CASE c.do = "policy_off"
          BY <2>1, <5>2
        <5> QED  BY <1>3, <3>2, <5>1, <5>2 DEF PolicyChange
      <4> QED  BY <1>1, <2>1, <3>2, <4>1 DEF Sound
    <3> QED  BY <3>1, <3>2
  <2> QED  BY <2>1, <2>5, <2>6, <2>7 DEF Sound, SamePlain
<1>4. CASE c.do \in RuleChange
  <2>0. c.row \in Rule
    BY <1>4, ChangeParts
  <2>1. /\ E \in Rows(b) /\ SamePlain(D, E)
        /\ c.do \in NewRule => \A k \in Rule : k # c.row => E.rule[k] = D.rule[k]
        /\ c.do \notin NewRule => \A k \in Rule : E.rule[k].there => D.rule[k].there
        /\ \A p \in Policy : /\ E.policy[p].there = D.policy[p].there
                             /\ E.policy[p].name = D.policy[p].name
                             /\ E.policy[p].on => D.policy[p].on
    BY <1>1, <1>4, RuleApplied DEF NewRule
  <2>2. E.policy \in PolicyRows
    BY <2>1 DEF Rows
  <2>3. Here(D.policy) = Here(E.policy) /\ Here(E.policy) \subseteq Policy
    BY <1>2, <2>1, <2>2 DEF Here, PolicyRows
  <2>4. c.do \in NewRule => D.policy[Of[c.row]].there
    BY Zenon DEF Refused, NewRule
  <2>5. \A k \in Rule : E.rule[k].there => D.policy[Of[k]].there
    BY <2>1, <2>4 DEF Sound
  <2>6. Unique(E)
    BY <2>1, <2>3 DEF Sound, Unique
  <2> QED  BY <1>1, <2>1, <2>5, <2>6 DEF Sound, SamePlain
<1>5. CASE c.do \in UseChange
  <2>1. c.to \in Used /\ (c.do = "domain" => c.row \in DomainRow)
    BY <1>5, ChangeParts
  <2>2. E \in Rows(b) /\ E.policy = D.policy /\ E.rule = D.rule /\ SamePlain(D, E)
    BY <1>5, <2>1, UseApplied
  <2> QED  BY <2>2 DEF Sound, SamePlain, Unique
<1>6. CASE c.do \in DkimChange
  <2>1. c.do = "dkim_enable" => c.to \in BOOLEAN
    BY <1>6, ChangeParts
  <2>2. E \in Rows(b) /\ E.policy = D.policy /\ E.rule = D.rule /\ SamePlain(D, E)
    BY <1>6, <2>1, DkimApplied
  <2> QED  BY <2>2 DEF Sound, SamePlain, Unique
<1>7. CASE c.do \in PlainChange
  <2>1. c.to \in PlainKind /\ c.row \in Setting /\ (c.do = "replace" => c.next \in Setting)
    BY <1>7, ChangeParts
  <2>2. /\ E \in Rows(b) /\ SameTables(D, E) /\ E.server = D.server
        /\ D.quickpeek # E.quickpeek => D.server # "none" \/ D.quickpeek # {}
    BY <1>7, <2>1, PlainApplied
  <2> QED  BY <2>2 DEF Sound, SameTables, Unique
<1>8. CASE c.do \in ServerChange
  <2>1. c.to \in Server
    BY <1>8, ChangeParts
  <2>2. /\ E \in Rows(b) /\ SameTables(D, E)
        /\ E.server = c.to /\ (E.quickpeek = {} \/ E.quickpeek = D.quickpeek)
        /\ c.do = "new_server" => D.server = "none" /\ E.quickpeek = D.quickpeek
        /\ c.do = "server" /\ c.to = "none" => E.quickpeek = {}
    BY <1>8, <2>1, ServerApplied
  <2> QED  BY <1>8, <2>2 DEF Sound, SameTables, Unique, ServerChange
<1> QED  BY <1>3, <1>4, <1>5, <1>6, <1>7, <1>8 DEF ChangeOK

-----------------------------------------------------------------------------
(* What makes a file right, and when that is still so after a change         *)

Enabled(D, p, n) == p \in Policy /\ D.policy[p].there /\ D.policy[p].on /\ D.policy[p].name = n

(* What f should say is not changed.                                          *)
Fixed(f, D, E) ==
    \/ \E n \in Name : \E p \in Policy :
            f = Rules(n) /\ Enabled(D, p, n) /\ Enabled(E, p, n) /\ RuleLines(D, p) = RuleLines(E, p)
    \/ f = Ruleset /\ Dangling(E) = {} /\ RulesetLines(D) = RulesetLines(E)
    \/ f = Dkim /\ E.dkim = D.dkim
    \/ \E kind \in PlainKind : f = Plain(kind) /\ create_from_rows(kind, D) = create_from_rows(kind, E)

(* A task that makes its file right, whatever is in it.                       *)
Makes(t, E) == \A old : Right(Target(t), Made(t, E, old), E)

LEMMA PolicyIs ==
    ASSUME NEW b, NEW D \in Rows(b)
    PROVE  /\ Here(D.policy) = {p \in Policy : D.policy[p].there}
           /\ Here(D.rule) = {k \in Rule : D.rule[k].there}
           /\ \A n : Named(D, n) = {p \in Policy : D.policy[p].there /\ D.policy[p].name = n}
BY DEF Rows, PolicyRows, RuleRows, Here, Named

LEMMA LinesIs ==
    ASSUME NEW b, NEW D \in Rows(b), NEW p
    PROVE  /\ get_policy_rules(D, p) = {k \in Rule : D.rule[k].there /\ Of[k] = p /\ D.rule[k].on}
           /\ RuleLines(D, p) = {} <=> get_policy_rules(D, p) = {}
<1>1. get_policy_rules(D, p) = {k \in Rule : D.rule[k].there /\ Of[k] = p /\ D.rule[k].on}
  BY PolicyIs DEF get_policy_rules, RulesOf
<1>2. RuleLines(D, p) = {} <=> get_policy_rules(D, p) = {}
  BY DEF RuleLines
<1> QED  BY <1>1, <1>2

LEMMA LinesOf ==
    ASSUME NEW b, NEW D \in Rows(b), NEW p, NEW q, RuleLines(D, p) = RuleLines(D, q), RuleLines(D, p) # {}
    PROVE  p = q
<1>1. PICK k \in get_policy_rules(D, p) : TRUE
  BY LinesIs
<1>2. <<k, D.rule[k].order>> \in RuleLines(D, q)
  BY <1>1 DEF RuleLines
<1>3. k \in get_policy_rules(D, q)
  BY <1>2 DEF RuleLines
<1> QED  BY <1>1, <1>3, LinesIs

LEMMA RightRules ==
    ASSUME NEW b, NEW D \in Rows(b), Sound(D), NEW p, NEW n, Enabled(D, p, n), NEW x
    PROVE  Right(Rules(n), x, D) <=> x = RuleLines(D, p)
<1>1. p \in Named(D, n) /\ \A q \in Named(D, n) : q = p
  BY PolicyIs DEF Enabled, Sound, Unique
<1>2. Read_(Rules(n), D)
  BY <1>1, Files DEF Read_, Enabled
<1>3. (CHOOSE q \in Named(D, n) : TRUE) = p
  BY <1>1
<1>4. Said(Rules(n), D) = RuleLines(D, p)
  BY <1>3, Files DEF Said
<1> QED  BY <1>2, <1>4, Files DEF Right

LEMMA ReadRules ==
    ASSUME NEW b, NEW D \in Rows(b), NEW n, Read_(Rules(n), D)
    PROVE  \E p \in Policy : Enabled(D, p, n)
BY PolicyIs, Files DEF Read_, Enabled

LEMMA RightOthers ==
    ASSUME NEW D, NEW x
    PROVE  /\ Right(Ruleset, x, D) <=> Dangling(D) = {} /\ x = RulesetLines(D)
           /\ Right(Dkim, x, D) <=> x = IF D.dkim.on THEN D.dkim.key ELSE Absent
           /\ \A kind \in PlainKind : Right(Plain(kind), x, D) <=> x = create_from_rows(kind, D)
<1>1. \A f \in {Ruleset, Dkim} \cup {Plain(kind) : kind \in PlainKind} : Read_(f, D)
  BY Files DEF Read_
<1>2. Said(Ruleset, D) = RulesetLines(D)
  BY Files DEF Said
<1>3. Said(Dkim, D) = IF D.dkim.on THEN D.dkim.key ELSE Absent
  BY Files DEF Said
<1>4. ASSUME NEW kind \in PlainKind
      PROVE  Said(Plain(kind), D) = create_from_rows(kind, D)
  BY Files DEF Said
<1> QED  BY <1>1, <1>2, <1>3, <1>4, Files DEF Right

LEMMA RightPlain ==
    ASSUME NEW D, NEW x, NEW kind \in PlainKind
    PROVE  Right(Plain(kind), x, D) <=> x = create_from_rows(kind, D)
BY RightOthers

LEMMA MadeIs ==
    ASSUME NEW t, NEW D, NEW old
    PROVE  /\ t.file = Ruleset => Made(t, D, old) = create_content_ruleset(D, old)
           /\ t.file = Dkim => Made(t, D, old) = IF t.do = "save" THEN t.of ELSE Absent
           /\ \A kind \in PlainKind : t.file = Plain(kind) => Made(t, D, old) = create_from_rows(kind, D)
           /\ \A n : t.file = Rules(n) => Made(t, D, old) = create_content_rules(t, D, old)
<1>1. t.file = Ruleset => Made(t, D, old) = create_content_ruleset(D, old)
  BY Files DEF Made
<1>2. t.file = Dkim => Made(t, D, old) = IF t.do = "save" THEN t.of ELSE Absent
  BY Files DEF Made, save_dkim_key, delete_dkim_key
<1>3. ASSUME NEW kind \in PlainKind, t.file = Plain(kind)
      PROVE  Made(t, D, old) = create_from_rows(kind, D)
  BY <1>3, Files DEF Made
<1>4. ASSUME NEW n, t.file = Rules(n)
      PROVE  Made(t, D, old) = create_content_rules(t, D, old)
  BY <1>4, Files DEF Made
<1> QED  BY <1>1, <1>2, <1>3, <1>4

LEMMA MendsStill ==
    ASSUME NEW b, NEW D \in Rows(b), NEW E \in Rows(b), Sound(D), Sound(E),
           NEW t, Fixed(Target(t), D, E), NEW old, ~ Right(Target(t), old, D),
           Right(Target(t), Made(t, D, old), D)
    PROVE  Right(Target(t), Made(t, E, old), E)
<1> DEFINE f == Target(t)
<1>0. f = t.file
  BY DEF Target
<1>1. ASSUME NEW n \in Name, NEW p \in Policy, f = Rules(n), Enabled(D, p, n), Enabled(E, p, n),
             RuleLines(D, p) = RuleLines(E, p)
      PROVE  Right(f, Made(t, E, old), E)
  <2>1. \A x : Right(f, x, D) <=> x = RuleLines(D, p)
    BY <1>1, RightRules
  <2>2. \A x : Right(f, x, E) <=> x = RuleLines(E, p)
    BY <1>1, RightRules
  <2>3. /\ Made(t, D, old) = create_content_rules(t, D, old)
        /\ Made(t, E, old) = create_content_rules(t, E, old)
    BY <1>0, <1>1, MadeIs
  <2>4. CASE t.do = "remove"
    BY <1>1, <2>1, <2>2, <2>3, <2>4 DEF create_content_rules
  <2>5. CASE t.do # "remove"
    <3>1. get_policy_rules(D, t.of) # {}
      BY <2>1, <2>3, <2>5 DEF create_content_rules
    <3>2. RuleLines(D, t.of) = RuleLines(D, p) /\ RuleLines(D, t.of) # {}
      BY <2>1, <2>3, <2>5, <3>1, LinesIs DEF create_content_rules
    <3>3. t.of = p
      BY <3>2, LinesOf
    <3>4. get_policy_rules(E, p) # {}
      BY <1>1, <3>2, <3>3, LinesIs
    <3> QED  BY <2>2, <2>3, <2>5, <3>3, <3>4 DEF create_content_rules
  <2> QED  BY <2>4, <2>5
<1>2. CASE f = Ruleset /\ Dangling(E) = {} /\ RulesetLines(D) = RulesetLines(E)
  <2>1. Made(t, E, old) = RulesetLines(E)
    BY <1>0, <1>2, MadeIs DEF create_content_ruleset
  <2> QED  BY <1>2, <2>1, RightOthers
<1>3. CASE f = Dkim /\ E.dkim = D.dkim
  <2>1. Made(t, E, old) = Made(t, D, old)
    BY <1>0, <1>3, MadeIs
  <2> QED  BY <1>3, <2>1, RightOthers
<1>4. ASSUME NEW kind \in PlainKind, f = Plain(kind)
      PROVE  Right(f, Made(t, E, old), E)
  <2>1. Made(t, E, old) = create_from_rows(kind, E)
    BY <1>0, <1>4, MadeIs
  <2> QED  BY <1>4, <2>1, RightPlain
<1> QED
  <2>1. CASE \E n \in Name : \E p \in Policy :
            f = Rules(n) /\ Enabled(D, p, n) /\ Enabled(E, p, n) /\ RuleLines(D, p) = RuleLines(E, p)
    BY <1>1, <2>1
  <2>2. CASE \E kind \in PlainKind : f = Plain(kind) /\ create_from_rows(kind, D) = create_from_rows(kind, E)
    BY <1>4, <2>2
  <2> QED  BY <1>2, <1>3, <2>1, <2>2 DEF Fixed

LEMMA RightStill ==
    ASSUME NEW b, NEW D \in Rows(b), NEW E \in Rows(b), Sound(D), Sound(E),
           NEW f, Fixed(f, D, E), NEW x, Right(f, x, D)
    PROVE  Right(f, x, E)
<1>1. ASSUME NEW n \in Name, NEW p \in Policy, f = Rules(n), Enabled(D, p, n), Enabled(E, p, n),
             RuleLines(D, p) = RuleLines(E, p)
      PROVE  Right(f, x, E)
  <2>1. x = RuleLines(D, p)
    BY <1>1, RightRules
  <2> QED  BY <1>1, <2>1, RightRules
<1>2. CASE f = Ruleset /\ Dangling(E) = {} /\ RulesetLines(D) = RulesetLines(E)
  BY <1>2, RightOthers
<1>3. CASE f = Dkim /\ E.dkim = D.dkim
  BY <1>3, RightOthers
<1>4. ASSUME NEW kind \in PlainKind, f = Plain(kind), create_from_rows(kind, D) = create_from_rows(kind, E)
      PROVE  Right(f, x, E)
  BY <1>4, RightPlain
<1> QED
  <2>1. CASE \E n \in Name : \E p \in Policy :
            f = Rules(n) /\ Enabled(D, p, n) /\ Enabled(E, p, n) /\ RuleLines(D, p) = RuleLines(E, p)
    BY <1>1, <2>1
  <2>2. CASE \E kind \in PlainKind : f = Plain(kind) /\ create_from_rows(kind, D) = create_from_rows(kind, E)
    BY <1>4, <2>2
  <2> QED  BY <1>2, <1>3, <2>1, <2>2 DEF Fixed


-----------------------------------------------------------------------------
(* What follows a commit covers it                                           *)

Call(do, p, n) == [do |-> do, policy |-> p, name |-> n]

(* What a page p that commits c still publishes, or the page it is.           *)
Promised(p, c, later) ==
    /\ c.do = "enable" => Call("make", c.row, None) \in later
    /\ c.do \in {"disable", "domain", "add_domain"} \/ (c.do = "global" /\ p # "delete_policy")
            => Call("ruleset", None, None) \in later
    /\ c.do = "add_rule" => Call("make", Of[c.row], None) \in later
    /\ c.do = "delete_rule" => Call("make", Of[c.row], c.to) \in later
    /\ c.do = "clone_rule" => p = "clone_policy"
    /\ c.do \in Switching => p = "edit_rule"
    /\ c.do = "swap_order" => p = "move_rule"
    /\ c.do = "delete_policy" => p = "delete_policy"
    /\ c.do = "dkim_generate" => p = "domain_dkim_generate"
    /\ c.do = "dkim_enable" => Call(IF c.to THEN "save" ELSE "delete", None, None) \in later
    /\ c.do \in PlainChange => Call(c.to, None, None) \in later
    /\ c.do = "server" => p \in {"edit_server", "delete_server"}

Covered(f, later, E) == \E call \in later : \E t \in Wanted(call, E) : Target(t) = f /\ Makes(t, E)

LEMMA Untouched ==
    ASSUME SettingsAssumption, NEW b \in Nat, NEW D \in Rows(b), NEW c, ChangeOK(c, b),
           ~ Refused(c, D), NEW E, E = Apply(c, D)
    PROVE  /\ c.do \notin PlainChange \cup ServerChange => SamePlain(D, E)
           /\ c.do \notin DkimChange => E.dkim = D.dkim
           /\ c.do \notin PolicyChange \cup RuleChange => E.policy = D.policy /\ E.rule = D.rule
           /\ c.do \notin UseChange \cup {"disable"} => E.global = D.global /\ E.domain = D.domain
<1>0. c.do \in PolicyChange \cup RuleChange \cup UseChange \cup DkimChange \cup PlainChange \cup ServerChange
  BY ChangeParts
<1>a. Of \in [Rule -> Policy]
  BY DEF SettingsAssumption
<1>1. CASE c.do \in PolicyChange
  <2>1. c.row \in Policy /\ (c.do \in Naming => c.to \in Name)
    BY <1>1, ChangeParts
  <2>2. E.dkim = D.dkim /\ SamePlain(D, E) /\ E.domain = D.domain /\ (c.do # "disable" => E.global = D.global)
    BY <1>1, <2>1, PolicyApplied
  <2> QED  BY <1>1, <2>2
<1>2. CASE c.do \in RuleChange
  <2>1. E.dkim = D.dkim /\ SamePlain(D, E) /\ E.domain = D.domain /\ E.global = D.global
    BY <1>a, <1>2, RuleApplied
  <2> QED  BY <1>2, <2>1
<1>3. CASE c.do \in UseChange
  <2>1. c.to \in Used /\ (c.do = "domain" => c.row \in DomainRow)
    BY <1>3, ChangeParts
  <2>2. E.policy = D.policy /\ E.rule = D.rule /\ E.dkim = D.dkim /\ SamePlain(D, E)
    BY <1>3, <2>1, UseApplied
  <2> QED  BY <1>3, <2>2
<1>4. CASE c.do \in DkimChange
  <2>1. c.do = "dkim_enable" => c.to \in BOOLEAN
    BY <1>4, ChangeParts
  <2>2. E.policy = D.policy /\ E.rule = D.rule /\ E.global = D.global /\ E.domain = D.domain /\ SamePlain(D, E)
    BY <1>4, <2>1, DkimApplied
  <2> QED  BY <1>4, <2>2
<1>5. CASE c.do \in PlainChange
  <2>1. c.to \in PlainKind /\ c.row \in Setting /\ (c.do = "replace" => c.next \in Setting)
    BY <1>5, ChangeParts
  <2>2. SameTables(D, E)
    BY <1>5, <2>1, PlainApplied
  <2> QED  BY <1>5, <2>2 DEF SameTables
<1>6. CASE c.do \in ServerChange
  <2>1. c.to \in Server
    BY <1>6, ChangeParts
  <2>2. SameTables(D, E)
    BY <1>6, <2>1, ServerApplied
  <2> QED  BY <1>6, <2>2 DEF SameTables
<1> QED  BY <1>0, <1>1, <1>2, <1>3, <1>4, <1>5, <1>6

LEMMA PlainWanted ==
    ASSUME NEW kind \in PlainKind, NEW later, Call(kind, None, None) \in later, NEW E
    PROVE  Covered(Plain(kind), later, E)
<1> DEFINE t == Task(Plain(kind), "make", None)
<1>1. t \in Wanted(Call(kind, None, None), E)
  <2>1. Call(kind, None, None).do = kind
    BY DEF Call
  <2>2. kind \notin {"make", "remove", "ruleset", "save", "delete"}
    BY DEF PlainKind
  <2>3. Wanted(Call(kind, None, None), E) = {t}
    BY <2>1, <2>2, Zenon DEF Wanted
  <2> QED  BY <2>3
<1>2. t.file = Plain(kind) /\ Target(t) = Plain(kind)
  BY DEF Task, Target
<1>3. Makes(t, E)
  BY <1>2, MadeIs, RightPlain DEF Makes
<1> QED  BY <1>1, <1>2, <1>3 DEF Covered

LEMMA CoversPlain ==
    ASSUME SettingsAssumption, NEW b \in Nat, NEW D \in Rows(b), Sound(D), NEW c, ChangeOK(c, b),
           ~ Refused(c, D), NEW E, E = Apply(c, D), NEW p, NEW later, Promised(p, c, later),
           NEW kind \in PlainKind, Plain(kind) \notin Leaves(p, c, D)
    PROVE  Fixed(Plain(kind), D, E) \/ Covered(Plain(kind), later, E)
<1> SUFFICES create_from_rows(kind, D) = create_from_rows(kind, E) \/ Covered(Plain(kind), later, E)
  BY DEF Fixed
<1>1. CASE c.do \in PlainChange
  <2>1. c.to \in PlainKind /\ c.row \in Setting /\ (c.do = "replace" => c.next \in Setting)
    BY <1>1, ChangeParts
  <2>2. CASE c.to = kind
    BY <1>1, <2>2, PlainWanted DEF Promised
  <2>3. CASE c.to # kind
    BY <1>1, <2>1, <2>3, PlainApplied DEF create_from_rows
  <2> QED  BY <2>2, <2>3
<1>2. CASE c.do \in ServerChange
  <2>1. c.to \in Server
    BY <1>2, ChangeParts
  <2>2. CASE kind # "quickpeek"
    <3>1. E.mta = D.mta /\ E.scores = D.scores
      BY <1>2, <2>1, ServerApplied
    <3>2. E[kind] = D[kind]
      BY <2>2, <3>1 DEF PlainKind
    <3> QED  BY <2>2, <3>2 DEF create_from_rows
  <2>3. CASE kind = "quickpeek" /\ c.do = "server"
    <3>1. p \in {"edit_server", "delete_server"}
      BY <2>3 DEF Promised
    <3> QED  BY <2>3, <3>1 DEF Leaves
  <2>4. CASE kind = "quickpeek" /\ c.do = "new_server"
    <3>1. D.server = "none" /\ E.quickpeek = D.quickpeek
      BY <1>2, <2>1, <2>4, ServerApplied
    <3>2. D.quickpeek = {}
      BY <3>1 DEF Sound
    <3> QED  BY <2>4, <3>1, <3>2 DEF create_from_rows
  <2> QED  BY <1>2, <2>2, <2>3, <2>4 DEF ServerChange
<1>3. CASE c.do \notin PlainChange \cup ServerChange
  <2>1. SamePlain(D, E)
    BY <1>3, Untouched
  <2>2. E[kind] = D[kind] /\ E.server = D.server
    BY <2>1 DEF SamePlain, PlainKind
  <2> QED  BY <2>2 DEF create_from_rows
<1> QED  BY <1>1, <1>2, <1>3

LEMMA CoversDkim ==
    ASSUME SettingsAssumption, NEW b \in Nat, NEW D \in Rows(b), NEW c, ChangeOK(c, b),
           ~ Refused(c, D), NEW E, E = Apply(c, D), NEW p, NEW later, Promised(p, c, later),
           Dkim \notin Leaves(p, c, D)
    PROVE  Fixed(Dkim, D, E) \/ Covered(Dkim, later, E)
<1>1. CASE c.do = "dkim_enable"
  <2>1. c.do \in DkimChange /\ c.to \in BOOLEAN
    BY <1>1, ChangeParts DEF DkimChange
  <2>2. E.dkim.on = c.to
    BY <1>1, <2>1, DkimApplied
  <2> DEFINE call == Call(IF c.to THEN "save" ELSE "delete", None, None)
  <2>3. call \in later
    BY <1>1 DEF Promised
  <2> DEFINE t == IF c.to THEN Task(Dkim, "save", E.dkim.key) ELSE Task(Dkim, "delete", None)
  <2>4. t \in Wanted(call, E)
    <3>1. CASE c.to
      <4>1. call.do = "save"
        BY <3>1 DEF Call
      <4>2. call.do \notin {"make", "remove"} /\ call.do # "ruleset" /\ call.do # "delete" /\ call.do \notin PlainKind
        BY <4>1 DEF PlainKind
      <4>3. Wanted(call, E) = {Task(Dkim, "save", E.dkim.key)}
        BY <4>1, <4>2, Zenon DEF Wanted
      <4> QED  BY <3>1, <4>3
    <3>2. CASE ~ c.to
      <4>1. call.do = "delete"
        BY <3>2 DEF Call
      <4>2. call.do \notin {"make", "remove"} /\ call.do # "ruleset" /\ call.do # "save" /\ call.do \notin PlainKind
        BY <4>1 DEF PlainKind
      <4>3. Wanted(call, E) = {Task(Dkim, "delete", None)}
        BY <4>1, <4>2, Zenon DEF Wanted
      <4> QED  BY <3>2, <4>3
    <3> QED  BY <3>1, <3>2
  <2>5. t.file = Dkim /\ Target(t) = Dkim /\ (c.to => t.do = "save" /\ t.of = E.dkim.key) /\ (~ c.to => t.do = "delete")
    BY DEF Task, Target
  <2>6. Makes(t, E)
    BY <2>1, <2>2, <2>5, MadeIs, RightOthers DEF Makes
  <2> QED  BY <2>3, <2>4, <2>5, <2>6 DEF Covered
<1>2. CASE c.do = "dkim_generate"
  BY <1>2 DEF Promised, Leaves
<1>3. CASE c.do \notin DkimChange
  BY <1>3, Untouched DEF Fixed
<1> QED  BY <1>1, <1>2, <1>3 DEF DkimChange

LEMMA RulesetSame ==
    ASSUME SettingsAssumption, NEW b, NEW D \in Rows(b), NEW E \in Rows(b), Dangling(D) = {},
           E.global = D.global, E.domain = D.domain,
           \A p \in Here(D.policy) : E.policy[p].name = D.policy[p].name
    PROVE  RulesetLines(D) = RulesetLines(E)
<1>1. \A g \in DomainRow : D.domain[g] \notin {None, Absent} => D.domain[g] \in Here(D.policy)
  BY DEF Dangling
<1>2. D.global # None => D.global \in Here(D.policy)
  <2>1. D.global \in Used
    BY DEF Rows
  <2>2. D.global # Absent
    BY <2>1 DEF Used, SettingsAssumption
  <2> QED  BY <2>2 DEF Dangling
<1> DEFINE gs == {x \in DomainRow : D.domain[x] \notin {None, Absent, D.global}}
<1>3. {<<g, D.policy[D.domain[g]].name>> : g \in gs} = {<<g, E.policy[E.domain[g]].name>> : g \in gs}
  <2>1. \A g \in gs : D.policy[D.domain[g]].name = E.policy[E.domain[g]].name
    BY <1>1
  <2> QED  BY <2>1
<1>4. gs = {x \in DomainRow : E.domain[x] \notin {None, Absent, E.global}}
  OBVIOUS
<1>5. D.global # None => D.policy[D.global].name = E.policy[E.global].name
  BY <1>2
<1> HIDE DEF gs
<1> QED  BY <1>3, <1>4, <1>5 DEF RulesetLines

LEMMA RulesetWanted ==
    ASSUME NEW later, Call("ruleset", None, None) \in later, NEW E, Dangling(E) = {}
    PROVE  Covered(Ruleset, later, E)
<1> DEFINE t == Task(Ruleset, "make", None)
<1>1. t \in Wanted(Call("ruleset", None, None), E)
  <2>1. Call("ruleset", None, None).do = "ruleset"
    BY DEF Call
  <2>2. "ruleset" \notin {"make", "remove", "save", "delete"} \cup PlainKind
    BY DEF PlainKind
  <2>3. Wanted(Call("ruleset", None, None), E) = {t}
    BY <2>1, <2>2, Zenon DEF Wanted
  <2> QED  BY <2>3
<1>2. t.file = Ruleset /\ Target(t) = Ruleset
  BY DEF Task, Target
<1>3. Makes(t, E)
  BY <1>2, MadeIs, RightOthers DEF Makes, create_content_ruleset
<1> QED  BY <1>1, <1>2, <1>3 DEF Covered

LEMMA CoversRuleset ==
    ASSUME SettingsAssumption, NEW b \in Nat, NEW D \in Rows(b), Sound(D), NEW c, ChangeOK(c, b),
           ~ Refused(c, D), NEW E, E = Apply(c, D), NEW p, NEW later, Promised(p, c, later),
           Ruleset \notin Leaves(p, c, D), Dangling(D) = {}
    PROVE  Fixed(Ruleset, D, E) \/ Covered(Ruleset, later, E)
<1>1. E \in Rows(b)
  BY SoundKept
<1>2. Dangling(E) = {}
  BY DEF Leaves, Hopeless
<1>3. SUFFICES RulesetLines(D) = RulesetLines(E) \/ Covered(Ruleset, later, E)
  BY <1>2 DEF Fixed
<1>4. CASE c.do \in {"disable", "domain", "add_domain"} \/ (c.do = "global" /\ p # "delete_policy")
  BY <1>2, <1>4, RulesetWanted DEF Promised
<1>5. CASE c.do = "enable" \/ (c.do \in {"global", "delete_policy"} /\ p = "delete_policy")
  BY <1>5 DEF Leaves
<1>6. CASE c.do = "delete_policy" /\ p # "delete_policy"
  BY <1>6 DEF Promised
<1>7. CASE c.do \notin UseChange \cup {"enable", "disable", "delete_policy"}
  <2>1. E.global = D.global /\ E.domain = D.domain
    BY <1>7, Untouched
  <2>2. \A q \in Here(D.policy) : E.policy[q].name = D.policy[q].name
    <3>1. CASE c.do \in PolicyChange
      <4>1. c.row \in Policy /\ (c.do \in Naming => c.to \in Name)
        BY <3>1, ChangeParts
      <4>2. /\ \A q \in Policy : q # c.row => E.policy[q] = D.policy[q]
            /\ c.do \notin Naming => E.policy[c.row].name = D.policy[c.row].name
        BY <3>1, <4>1, PolicyApplied
      <4>3. c.do = "add_policy" => c.row \notin Here(D.policy)
        <5>1. c.do = "add_policy" => ~ D.policy[c.row].there
          BY Zenon DEF Refused
        <5> QED  BY <5>1 DEF Here
      <4>4. Here(D.policy) \subseteq Policy
        BY PolicyIs
      <4> QED  BY <1>7, <3>1, <4>2, <4>3, <4>4 DEF PolicyChange, Naming
    <3>2. CASE c.do \in RuleChange
      <4>1. Of \in [Rule -> Policy]
        BY DEF SettingsAssumption
      <4>2. \A q \in Policy : E.policy[q].name = D.policy[q].name
        BY <3>2, <4>1, RuleApplied
      <4> QED  BY <4>2, PolicyIs
    <3>3. CASE c.do \notin PolicyChange \cup RuleChange
      BY <3>3, Untouched
    <3> QED  BY <3>1, <3>2, <3>3
  <2> QED  BY <1>1, <2>1, <2>2, RulesetSame
<1> QED  BY <1>4, <1>5, <1>6, <1>7 DEF UseChange

LEMMA LinesSame ==
    ASSUME NEW b, NEW D \in Rows(b), NEW E \in Rows(b), NEW p,
           \A k \in Rule : Of[k] = p =>
                \/ E.rule[k] = D.rule[k]
                \/ ~ (D.rule[k].there /\ D.rule[k].on) /\ ~ (E.rule[k].there /\ E.rule[k].on)
    PROVE  RuleLines(D, p) = RuleLines(E, p)
<1>1. get_policy_rules(D, p) = {k \in Rule : D.rule[k].there /\ Of[k] = p /\ D.rule[k].on}
  BY LinesIs
<1>2. get_policy_rules(E, p) = {k \in Rule : E.rule[k].there /\ Of[k] = p /\ E.rule[k].on}
  BY LinesIs
<1>3. get_policy_rules(D, p) = get_policy_rules(E, p)
  BY <1>1, <1>2
<1>4. \A k \in get_policy_rules(D, p) : D.rule[k].order = E.rule[k].order
  BY <1>1
<1> QED  BY <1>3, <1>4 DEF RuleLines

(* backend_create_content_rules() for an enabled policy that has a rule       *)
LEMMA RulesWanted ==
    ASSUME SettingsAssumption, NEW b, NEW E \in Rows(b), Sound(E), NEW p, NEW n \in Name, Enabled(E, p, n),
           get_policy_rules(E, p) # {}, NEW later, NEW m \in {None, n}, Call("make", p, m) \in later
    PROVE  Covered(Rules(n), later, E)
<1> DEFINE t == Task(Rules(n), "make", p)
<1>1. t \in Wanted(Call("make", p, m), E)
  <2>1. Call("make", p, m).do = "make" /\ Call("make", p, m).name = m /\ Call("make", p, m).policy = p
    BY DEF Call
  <2>2. Wanted(Call("make", p, m), E) =
            IF m # None THEN {Task(Rules(m), "make", p)}
            ELSE {Task(Rules(E.policy[q].name), "make", q) : q \in {p} \cap Here(E.policy)}
    <3>1. "make" \notin {"ruleset", "save", "delete"} \cup PlainKind
      BY DEF PlainKind
    <3> QED  BY <2>1, <3>1, Zenon DEF Wanted
  <2>3. p \in Here(E.policy) /\ E.policy[p].name = n
    BY PolicyIs DEF Enabled
  <2> QED  BY <2>2, <2>3
<1>2. t.file = Rules(n) /\ Target(t) = Rules(n) /\ t.do = "make" /\ t.of = p
  BY DEF Task, Target
<1>3. Makes(t, E)
  <2> SUFFICES ASSUME NEW old
               PROVE  Right(Rules(n), Made(t, E, old), E)
    BY <1>2 DEF Makes
  <2>1. Made(t, E, old) = create_content_rules(t, E, old)
    BY <1>2, MadeIs
  <2>2. Made(t, E, old) = RuleLines(E, p)
    BY <1>2, <2>1 DEF create_content_rules
  <2> QED  BY <2>2, RightRules
<1> QED  BY <1>1, <1>2, <1>3 DEF Covered

LEMMA RowsMade ==
    /\ \A n, on : PolicyRow(n, on).on = on
    /\ \A on, order : RuleRow(on, order).on = on
BY Zenon DEF PolicyRow, RuleRow

LEMMA CoversRules ==
    ASSUME SettingsAssumption, NEW b \in Nat, NEW D \in Rows(b), Sound(D), NEW c, ChangeOK(c, b),
           ~ Refused(c, D), NEW E, E = Apply(c, D), NEW p, NEW later, Promised(p, c, later),
           NEW n \in Name, Rules(n) \notin Leaves(p, c, D), Read_(Rules(n), E)
    PROVE  Fixed(Rules(n), D, E) \/ Covered(Rules(n), later, E)
<1>1. E \in Rows(b) /\ Sound(E) /\ Of \in [Rule -> Policy]
  BY SoundKept DEF SettingsAssumption
<1>2. PICK x \in Policy : Enabled(E, x, n)
  BY <1>1, ReadRules
<1>3. get_policy_rules(E, x) # {}
  <2>1. x \in Here(E.policy) /\ E.policy[x].on /\ E.policy[x].name = n
    BY <1>1, <1>2, PolicyIs DEF Enabled
  <2> QED  BY <2>1 DEF Leaves, Hopeless
<1>4. Enabled(D, x, n) /\ RuleLines(D, x) = RuleLines(E, x) => Fixed(Rules(n), D, E)
  BY <1>2 DEF Fixed
<1>5. CASE c.do \in PolicyChange
  <2>1. c.row \in Policy /\ (c.do \in Naming => c.to \in Name)
    BY <1>5, ChangeParts
  <2>2. /\ \A q \in Policy : q # c.row => E.policy[q] = D.policy[q]
        /\ c.do \in Naming => E.policy[c.row] = PolicyRow(c.to, c.do = "enable")
        /\ c.do \notin Naming => ~ E.policy[c.row].on
        /\ c.do # "delete_policy" => E.rule = D.rule
        /\ \A k \in Rule : Of[k] # c.row => E.rule[k] = D.rule[k]
    BY <1>5, <2>1, PolicyApplied
  <2>3. CASE x # c.row
    <3>1. Enabled(D, x, n)
      BY <1>2, <2>2, <2>3 DEF Enabled
    <3>2. RuleLines(D, x) = RuleLines(E, x)
      BY <1>1, <2>2, <2>3, LinesSame
    <3> QED  BY <1>4, <3>1, <3>2
  <2>4. CASE x = c.row
    <3>1. c.do = "enable"
      <4>1. c.do \in Naming /\ E.policy[c.row].on
        BY <1>2, <2>2, <2>4 DEF Enabled
      <4>2. E.policy[c.row].on = (c.do = "enable")
        BY <2>2, <4>1, RowsMade, Zenon
      <4> QED  BY <4>1, <4>2, Zenon
    <3>2. Call("make", x, None) \in later
      BY <2>4, <3>1 DEF Promised
    <3> QED  BY <1>1, <1>2, <1>3, <3>2, RulesWanted
  <2> QED  BY <2>3, <2>4
<1>6. CASE c.do \in RuleChange
  <2>1. c.row \in Rule
    BY <1>6, ChangeParts
  <2>2. c.do \notin Switching \cup {"clone_rule", "swap_order"}
    BY DEF Promised, Leaves
  <2>3. /\ \A k \in Rule : k # c.row => E.rule[k] = D.rule[k]
        /\ c.do \in NewRule => E.rule[c.row] = RuleRow(c.do # "add_rule_off", c.to)
        /\ E.policy = D.policy
    BY <1>1, <1>6, <2>2, RuleApplied DEF Switching
  <2>4. Enabled(D, x, n)
    BY <1>2, <2>3 DEF Enabled
  <2>5. CASE Of[c.row] # x
    <3>1. RuleLines(D, x) = RuleLines(E, x)
      BY <1>1, <2>3, <2>5, LinesSame
    <3> QED  BY <1>4, <2>4, <3>1
  <2>6. CASE Of[c.row] = x /\ c.do = "add_rule"
    <3>1. Call("make", x, None) \in later
      BY <2>6 DEF Promised
    <3> QED  BY <1>1, <1>2, <1>3, <3>1, RulesWanted
  <2>7. CASE c.do = "add_rule_off"
    <3>1. ~ D.rule[c.row].there
      BY <2>7, Zenon DEF Refused
    <3>2. ~ E.rule[c.row].on
      <4>1. c.do \in NewRule
        BY <2>7 DEF NewRule
      <4>2. E.rule[c.row] = RuleRow(c.do # "add_rule_off", c.to)
        BY <2>3, <4>1
      <4>3. E.rule[c.row].on = (c.do # "add_rule_off")
        BY <4>2, RowsMade, Zenon
      <4> QED  BY <2>7, <4>3, Zenon
    <3>3. RuleLines(D, x) = RuleLines(E, x)
      BY <1>1, <2>3, <3>1, <3>2, LinesSame
    <3> QED  BY <1>4, <2>4, <3>3
  <2>8. CASE Of[c.row] = x /\ c.do = "delete_rule"
    <3>1. Call("make", x, c.to) \in later
      BY <2>8 DEF Promised
    <3>2. c.to = n
      BY <2>4, <2>8 DEF Leaves, Enabled
    <3> QED  BY <1>1, <1>2, <1>3, <3>1, <3>2, RulesWanted
  <2> QED  BY <1>6, <2>2, <2>5, <2>6, <2>7, <2>8 DEF RuleChange, NewRule
<1>7. CASE c.do \notin PolicyChange \cup RuleChange
  <2>1. E.policy = D.policy /\ E.rule = D.rule
    BY <1>7, Untouched
  <2>2. Enabled(D, x, n)
    BY <1>2, <2>1 DEF Enabled
  <2>3. RuleLines(D, x) = RuleLines(E, x)
    BY <1>1, <2>1, LinesSame
  <2> QED  BY <1>4, <2>2, <2>3
<1> QED  BY <1>5, <1>6, <1>7

LEMMA Covers ==
    ASSUME SettingsAssumption, NEW b \in Nat, NEW D \in Rows(b), Sound(D), NEW c, ChangeOK(c, b),
           ~ Refused(c, D), NEW E, E = Apply(c, D), NEW p, NEW later, Promised(p, c, later),
           NEW f \in SettingsFile, f \notin Leaves(p, c, D), Read_(f, E),
           f = Ruleset => Dangling(D) = {}
    PROVE  Fixed(f, D, E) \/ Covered(f, later, E)
<1>1. CASE f = Ruleset
  BY <1>1, CoversRuleset
<1>2. CASE f = Dkim
  BY <1>2, CoversDkim
<1>3. ASSUME NEW kind \in PlainKind, f = Plain(kind)
      PROVE  Fixed(f, D, E) \/ Covered(f, later, E)
  BY <1>3, CoversPlain
<1>4. ASSUME NEW n \in Name, f = Rules(n)
      PROVE  Fixed(f, D, E) \/ Covered(f, later, E)
  BY <1>4, CoversRules
<1> QED  BY <1>1, <1>2, <1>3, <1>4 DEF SettingsFile

(* A task that a call wants is wanted still, if what it is about is not        *)
(* changed.                                                                   *)
LEMMA WantedStill ==
    ASSUME NEW b, NEW D \in Rows(b), NEW E \in Rows(b), Sound(D), NEW call, NEW t \in Wanted(call, D),
           Fixed(Target(t), D, E), call.do \in {"make", "remove", "ruleset", "save", "delete"} \cup PlainKind
    PROVE  t \in Wanted(call, E)
<1>1. CASE call.do \in {"make", "remove"}
  <2>0. call.do \notin {"ruleset", "save", "delete"} \cup PlainKind
    BY <1>1 DEF PlainKind
  <2>1. \A X : Wanted(call, X) =
            IF call.name # None THEN {Task(Rules(call.name), call.do, call.policy)}
            ELSE {Task(Rules(X.policy[p].name), call.do, p) : p \in {call.policy} \cap Here(X.policy)}
    BY <1>1, <2>0, Zenon DEF Wanted
  <2>2. CASE call.name # None
    BY <2>1, <2>2
  <2>3. CASE call.name = None
    <3>1. call.policy \in Here(D.policy) /\ t = Task(Rules(D.policy[call.policy].name), call.do, call.policy)
      BY <2>1, <2>3
    <3>2. Target(t) = Rules(D.policy[call.policy].name)
      BY <3>1 DEF Target, Task
    <3>3. PICK n \in Name, p \in Policy : Target(t) = Rules(n) /\ Enabled(D, p, n) /\ Enabled(E, p, n)
      BY <3>2, Files DEF Fixed
    <3>4. D.policy[call.policy].name = n
      BY <3>2, <3>3, Files
    <3>5. call.policy = p
      BY <3>1, <3>3, <3>4, PolicyIs DEF Sound, Unique, Enabled
    <3>6. p \in Here(E.policy) /\ E.policy[p].name = n
      BY <3>3, PolicyIs DEF Enabled
    <3> QED  BY <2>1, <2>3, <3>1, <3>4, <3>5, <3>6
  <2> QED  BY <2>2, <2>3
<1>2. CASE call.do = "save"
  <2>1. call.do \notin {"make", "remove"} /\ call.do # "ruleset" /\ call.do # "delete" /\ call.do \notin PlainKind
    BY <1>2 DEF PlainKind
  <2>2. \A X : Wanted(call, X) = {Task(Dkim, "save", X.dkim.key)}
    BY <1>2, <2>1, Zenon DEF Wanted
  <2>3. Target(t) = Dkim
    BY <2>2 DEF Target, Task
  <2>4. E.dkim = D.dkim
    BY <2>3, Files DEF Fixed
  <2> QED  BY <2>2, <2>4
<1>3. CASE call.do \in {"ruleset", "delete"} \cup PlainKind
  <2>1. CASE call.do = "ruleset"
    <3>1. call.do \notin {"make", "remove", "save", "delete"} \cup PlainKind
      BY <2>1 DEF PlainKind
    <3>2. \A X : Wanted(call, X) = {Task(Ruleset, "make", None)}
      BY <2>1, <3>1, Zenon DEF Wanted
    <3> QED  BY <3>2
  <2>2. CASE call.do = "delete"
    <3>1. call.do \notin {"make", "remove"} /\ call.do # "ruleset" /\ call.do # "save" /\ call.do \notin PlainKind
      BY <2>2 DEF PlainKind
    <3>2. \A X : Wanted(call, X) = {Task(Dkim, "delete", None)}
      BY <2>2, <3>1, Zenon DEF Wanted
    <3> QED  BY <3>2
  <2>3. CASE call.do \in PlainKind
    <3>1. call.do \notin {"make", "remove"} /\ call.do # "ruleset" /\ call.do # "save" /\ call.do # "delete"
      BY <2>3 DEF PlainKind
    <3>2. \A X : Wanted(call, X) = {Task(Plain(call.do), "make", None)}
      BY <2>3, <3>1, Zenon DEF Wanted
    <3> QED  BY <3>2
  <2> QED  BY <1>3, <2>1, <2>2, <2>3
<1> QED  BY <1>1, <1>2, <1>3

-----------------------------------------------------------------------------
(* The tasks that the rest of a script will publish                          *)

Later(s, i) == {s[j].call : j \in {k \in DOMAIN s : k > i /\ s[k].kind = "publish"}}
Published(s) == Later(s, 0)

LEMMA ComingIs ==
    ASSUME NEW S, NEW s \in Seq(S), NEW D, NEW t
    PROVE  t \in Coming(s, D) <=>
                Target(t) \in scope /\ \E call \in Published(s) : t \in Wanted(call, D)
<1>1. DOMAIN s = 1 .. Len(s) /\ Len(s) \in Nat
  OBVIOUS
<1>2. t \in Coming(s, D) <=>
        Target(t) \in scope /\ \E i \in DOMAIN s : s[i].kind = "publish" /\ t \in Wanted(s[i].call, D)
  BY DEF Coming, Followed_
<1>3. \A call : call \in Published(s) <=> \E i \in DOMAIN s : s[i].kind = "publish" /\ call = s[i].call
  BY <1>1 DEF Published, Later
<1> QED  BY <1>2, <1>3

LEMMA MendedIs ==
    ASSUME NEW f, NEW tasks, NEW D
    PROVE  f \in Mended(tasks, D) <=>
                \E t \in tasks : Target(t) = f /\ Right(f, Made(t, D, disk[f]), D)
BY DEF Mended

-----------------------------------------------------------------------------
(* Scripts                                                                   *)

CallOK(call) == call.do \in {"make", "remove", "ruleset", "save", "delete"} \cup PlainKind

(* A query decides what is committed next: the ruleset is published later, or *)
(* right after it.                                                            *)
ReadOK(p, call, later) ==
    \/ call.what \in {"setting", "domain"} /\ Call("ruleset", None, None) \in later
    \/ call.what = "delete" /\ p = "delete_policy"

StepOK(p, step, later, b) ==
    \/ step.kind = "publish" /\ CallOK(step.call)
    \/ step.kind = "read" /\ ReadOK(p, step.call, later)
    \/ step.kind = "commit" /\ ChangeOK(step.change, b) /\ Promised(p, step.change, later)

(* The rest of the script of a page p, of which extra is published after it.  *)
ScriptOK(p, s, extra, b) ==
    /\ \E S : s \in Seq(S)
    /\ \A i \in DOMAIN s : StepOK(p, s[i], Later(s, i) \cup extra, b)

LEMMA StepGrows ==
    ASSUME NEW p, NEW x, NEW l, NEW b \in Nat, StepOK(p, x, l, b), NEW m, l \subseteq m, NEW c \in Nat, b <= c
    PROVE  StepOK(p, x, m, c)
<1>1. ChangeOK(x.change, b) => ChangeOK(x.change, c)
  <2>1. 0 .. b \subseteq 0 .. c
    OBVIOUS
  <2> QED  BY <2>1 DEF ChangeOK
<1>2. Promised(p, x.change, l) => Promised(p, x.change, m)
  BY DEF Promised
<1>3. ReadOK(p, x.call, l) => ReadOK(p, x.call, m)
  BY DEF ReadOK
<1> QED  BY <1>1, <1>2, <1>3 DEF StepOK

LEMMA ScriptGrows ==
    ASSUME NEW p, NEW s, NEW l, NEW b \in Nat, ScriptOK(p, s, l, b), NEW m, l \subseteq m,
           NEW c \in Nat, b <= c
    PROVE  ScriptOK(p, s, m, c)
<1>1. \A i : Later(s, i) \cup l \subseteq Later(s, i) \cup m
  OBVIOUS
<1> QED  BY <1>1, StepGrows DEF ScriptOK

LEMMA Nothing == ASSUME NEW p, NEW l, NEW b PROVE ScriptOK(p, <<>>, l, b)
<1>1. <<>> \in Seq({}) /\ DOMAIN <<>> = {}
  OBVIOUS
<1> QED  BY <1>1 DEF ScriptOK

LEMMA Uniform ==
    ASSUME NEW p, NEW S, NEW s \in Seq(S), NEW l, NEW b \in Nat, \A i \in DOMAIN s : StepOK(p, s[i], l, b)
    PROVE  ScriptOK(p, s, l, b)
<1>1. \A i : l \subseteq Later(s, i) \cup l
  OBVIOUS
<1>2. \A i \in DOMAIN s : StepOK(p, s[i], Later(s, i) \cup l, b)
  BY <1>1, StepGrows
<1> QED  BY <1>2 DEF ScriptOK

LEMMA One ==
    ASSUME NEW p, NEW x, NEW l, NEW b \in Nat, StepOK(p, x, l, b)
    PROVE  ScriptOK(p, <<x>>, l, b) /\ (x.kind = "publish" => x.call \in Published(<<x>>))
<1>1. <<x>> \in Seq({x}) /\ DOMAIN <<x>> = {1} /\ <<x>>[1] = x
  OBVIOUS
<1>2. ScriptOK(p, <<x>>, l, b)
  BY <1>1, Uniform
<1>3. x.kind = "publish" => x.call \in Published(<<x>>)
  BY <1>1 DEF Published, Later
<1> QED  BY <1>2, <1>3

LEMMA Joined ==
    ASSUME NEW p, NEW s, NEW t, NEW l, NEW b \in Nat,
           ScriptOK(p, s, Published(t) \cup l, b), ScriptOK(p, t, l, b)
    PROVE  /\ ScriptOK(p, s \o t, l, b)
           /\ Published(s) \cup Published(t) \subseteq Published(s \o t)
<1>1. PICK S, T : s \in Seq(S) /\ t \in Seq(T)
  BY DEF ScriptOK
<1> DEFINE U == S \cup T
           m == Len(s)
           st == s \o t
<1>2. s \in Seq(U) /\ t \in Seq(U)
  BY <1>1
<1>3. /\ st \in Seq(U) /\ Len(st) = m + Len(t)
      /\ \A i \in 1 .. m + Len(t) : st[i] = IF i <= m THEN s[i] ELSE t[i - m]
  BY <1>2, ConcatProperties
<1>4. /\ DOMAIN s = 1 .. m /\ DOMAIN t = 1 .. Len(t) /\ DOMAIN st = 1 .. m + Len(t)
      /\ m \in Nat /\ Len(t) \in Nat
  BY <1>2, <1>3
<1> HIDE DEF st, m
<1>5. \A i \in DOMAIN s : i \in DOMAIN st /\ st[i] = s[i]
  BY <1>3, <1>4
<1>6. \A i \in DOMAIN t : m + i \in DOMAIN st /\ st[m + i] = t[i]
  <2> TAKE i \in DOMAIN t
  <2>1. m + i \in 1 .. m + Len(t) /\ ~ (m + i <= m) /\ (m + i) - m = i
    BY <1>4
  <2> QED  BY <1>3, <1>4, <2>1
<1>7. ASSUME NEW i \in Nat
      PROVE  /\ Later(s, i) \subseteq Later(st, i)
             /\ Later(t, i) \subseteq Later(st, m + i)
  <2>1. ASSUME NEW j \in DOMAIN s, j > i, s[j].kind = "publish"
        PROVE  s[j].call \in Later(st, i)
    BY <1>5, <2>1 DEF Later
  <2>2. ASSUME NEW j \in DOMAIN t, j > i, t[j].kind = "publish"
        PROVE  t[j].call \in Later(st, m + i)
    <3>1. m + j \in DOMAIN st /\ m + j > m + i /\ st[m + j] = t[j]
      BY <1>4, <1>6, <2>2
    <3> QED  BY <2>2, <3>1 DEF Later
  <2> QED  BY <2>1, <2>2 DEF Later
<1>8. ASSUME NEW i \in Nat, i <= m
      PROVE  Later(t, 0) \subseteq Later(st, i)
  <2>1. ASSUME NEW j \in DOMAIN t, t[j].kind = "publish"
        PROVE  t[j].call \in Later(st, i)
    <3>1. m + j \in DOMAIN st /\ m + j > i /\ st[m + j] = t[j]
      BY <1>4, <1>6, <1>8
    <3> QED  BY <2>1, <3>1 DEF Later
  <2> QED  BY <2>1 DEF Later
<1>9. ASSUME NEW i \in DOMAIN st
      PROVE  StepOK(p, st[i], Later(st, i) \cup l, b)
  <2>1. CASE i <= m
    <3>1. i \in DOMAIN s /\ st[i] = s[i] /\ i \in Nat
      BY <1>4, <1>5, <2>1
    <3>2. Later(s, i) \cup (Published(t) \cup l) \subseteq Later(st, i) \cup l
      BY <1>7, <1>8, <2>1, <3>1 DEF Published
    <3>3. StepOK(p, s[i], Later(s, i) \cup (Published(t) \cup l), b)
      BY <3>1 DEF ScriptOK
    <3> QED  BY <3>1, <3>2, <3>3, StepGrows
  <2>2. CASE ~ (i <= m)
    <3>1. PICK j \in DOMAIN t : i = m + j /\ j \in Nat
      <4>1. i - m \in 1 .. Len(t) /\ i = m + (i - m)
        BY <1>4, <2>2
      <4> QED  BY <1>4, <4>1
    <3>2. StepOK(p, t[j], Later(t, j) \cup l, b)
      BY DEF ScriptOK
    <3>3. Later(t, j) \cup l \subseteq Later(st, i) \cup l /\ st[i] = t[j]
      BY <1>6, <1>7, <3>1
    <3> QED  BY <3>2, <3>3, StepGrows
  <2> QED  BY <2>1, <2>2
<1>10. Published(s) \cup Published(t) \subseteq Published(st)
  BY <1>4, <1>7, <1>8 DEF Published
<1>11. ScriptOK(p, st, l, b)
  BY <1>3, <1>9 DEF ScriptOK, st
<1> QED  BY <1>10, <1>11 DEF st

LEMMA TailOK ==
    ASSUME NEW p, NEW s, s # <<>>, NEW l, NEW b \in Nat, ScriptOK(p, s, l, b)
    PROVE  /\ ScriptOK(p, Tail(s), l, b)
           /\ StepOK(p, Head(s), Published(Tail(s)) \cup l, b)
           /\ Published(s) = Published(Tail(s)) \cup (IF Head(s).kind = "publish" THEN {Head(s).call} ELSE {})
<1>1. PICK S : s \in Seq(S)
  BY DEF ScriptOK
<1> DEFINE t == Tail(s)
<1>2. /\ Head(s) = s[1] /\ t \in Seq(S) /\ Len(s) \in Nat /\ Len(t) = Len(s) - 1 /\ Len(s) >= 1
      /\ DOMAIN s = 1 .. Len(s) /\ DOMAIN t = 1 .. Len(t)
      /\ \A i \in 1 .. Len(t) : t[i] = s[i + 1]
  BY <1>1
<1> HIDE DEF t
<1>3. ASSUME NEW i \in Nat
      PROVE  Later(t, i) = Later(s, i + 1)
  <2>1. ASSUME NEW j \in DOMAIN t, j > i, t[j].kind = "publish"
        PROVE  t[j].call \in Later(s, i + 1)
    <3>1. j + 1 \in DOMAIN s /\ j + 1 > i + 1 /\ s[j + 1] = t[j]
      BY <1>2, <2>1
    <3> QED  BY <2>1, <3>1 DEF Later
  <2>2. ASSUME NEW j \in DOMAIN s, j > i + 1, s[j].kind = "publish"
        PROVE  s[j].call \in Later(t, i)
    <3>1. j - 1 \in DOMAIN t /\ j - 1 > i /\ t[j - 1] = s[j]
      <4>1. j - 1 \in 1 .. Len(t) /\ j - 1 > i /\ (j - 1) + 1 = j
        BY <1>2, <2>2
      <4> QED  BY <1>2, <4>1
    <3> QED  BY <2>2, <3>1 DEF Later
  <2> QED  BY <2>1, <2>2 DEF Later
<1>4. Published(t) = Later(s, 1)
  BY <1>3 DEF Published
<1>5. StepOK(p, Head(s), Published(t) \cup l, b)
  <2>1. 1 \in DOMAIN s
    BY <1>2
  <2>2. StepOK(p, s[1], Later(s, 1) \cup l, b)
    BY <2>1 DEF ScriptOK
  <2> QED  BY <1>2, <1>4, <2>2
<1>6. ASSUME NEW i \in DOMAIN t
      PROVE  StepOK(p, t[i], Later(t, i) \cup l, b)
  <2>1. i + 1 \in DOMAIN s /\ t[i] = s[i + 1] /\ i \in Nat
    BY <1>2
  <2>2. Later(t, i) = Later(s, i + 1)
    BY <1>3, <2>1
  <2> QED  BY <2>1, <2>2 DEF ScriptOK
<1>7. Later(s, 0) = Later(s, 1) \cup (IF Head(s).kind = "publish" THEN {Head(s).call} ELSE {})
  <2>1. \A j \in DOMAIN s : j > 0 <=> j > 1 \/ j = 1
    BY <1>2
  <2>2. 1 \in DOMAIN s
    BY <1>2
  <2> QED  BY <1>2, <2>1, <2>2 DEF Later
<1>8. ScriptOK(p, t, l, b)
  BY <1>2, <1>6 DEF ScriptOK
<1> QED  BY <1>4, <1>5, <1>7, <1>8 DEF Published, t

LEMMA Prefixed ==
    ASSUME NEW p, NEW x, NEW s, NEW l, NEW b \in Nat,
           StepOK(p, x, Published(s) \cup l, b), ScriptOK(p, s, l, b)
    PROVE  /\ ScriptOK(p, <<x>> \o s, l, b)
           /\ Published(s) \subseteq Published(<<x>> \o s)
           /\ x.kind = "publish" => x.call \in Published(<<x>> \o s)
<1>1. ScriptOK(p, <<x>>, Published(s) \cup l, b) /\ (x.kind = "publish" => x.call \in Published(<<x>>))
  BY One
<1>2. ScriptOK(p, <<x>> \o s, l, b) /\ Published(<<x>>) \cup Published(s) \subseteq Published(<<x>> \o s)
  BY <1>1, Joined
<1> QED  BY <1>1, <1>2

LEMMA Longer ==
    ASSUME NEW p, NEW S, NEW s \in Seq(S), s # <<>>, NEW l, NEW b \in Nat,
           StepOK(p, Head(s), Published(Tail(s)) \cup l, b), ScriptOK(p, Tail(s), l, b)
    PROVE  /\ ScriptOK(p, s, l, b)
           /\ Published(Tail(s)) \subseteq Published(s)
           /\ Head(s).kind = "publish" => Head(s).call \in Published(s)
<1> DEFINE t == <<Head(s)>> \o Tail(s)
<1>1. Tail(s) \in Seq(S) /\ <<Head(s)>> \in Seq(S) /\ Len(Tail(s)) = Len(s) - 1 /\ Len(<<Head(s)>>) = 1 /\ Len(s) \in Nat
  OBVIOUS
<1>2. /\ t \in Seq(S) /\ Len(t) = Len(s)
      /\ \A i \in 1 .. Len(s) : t[i] = IF i <= 1 THEN <<Head(s)>>[i] ELSE Tail(s)[i - 1]
  BY <1>1, ConcatProperties
<1>3. \A i \in 1 .. Len(s) : t[i] = s[i]
  <2> TAKE i \in 1 .. Len(s)
  <2>1. CASE i = 1
    BY <1>2, <2>1
  <2>2. CASE i # 1
    <3>1. i - 1 \in 1 .. Len(Tail(s)) /\ (i - 1) + 1 = i /\ ~ (i <= 1)
      BY <1>1, <2>2
    <3>2. Tail(s)[i - 1] = s[(i - 1) + 1]
      BY <3>1
    <3> QED  BY <1>2, <3>1, <3>2
  <2> QED  BY <2>1, <2>2
<1> HIDE DEF t
<1>4. t = s
  BY <1>2, <1>3
<1> QED  BY <1>4, Prefixed DEF t

LEMMA Two ==
    ASSUME NEW p, NEW x, NEW y, NEW l, NEW b \in Nat,
           StepOK(p, x, Published(<<y>>) \cup l, b), StepOK(p, y, l, b)
    PROVE  /\ ScriptOK(p, <<x, y>>, l, b)
           /\ Published(<<y>>) \subseteq Published(<<x, y>>)
           /\ x.kind = "publish" => x.call \in Published(<<x, y>>)
<1>1. ScriptOK(p, <<y>>, l, b)
  BY One
<1> DEFINE s == <<x, y>>
           S == {x, y}
<1>2. s \in Seq(S) /\ s # <<>> /\ Head(s) = x /\ Tail(s) = <<y>>
  OBVIOUS
<1> HIDE DEF s, S
<1>3. StepOK(p, Head(s), Published(Tail(s)) \cup l, b) /\ ScriptOK(p, Tail(s), l, b)
  BY <1>1, <1>2
<1>4. /\ ScriptOK(p, s, l, b) /\ Published(Tail(s)) \subseteq Published(s)
      /\ Head(s).kind = "publish" => Head(s).call \in Published(s)
  BY <1>2, <1>3, Longer
<1> QED  BY <1>2, <1>4 DEF s

LEMMA Three ==
    ASSUME NEW p, NEW x, NEW y, NEW z, NEW l, NEW b \in Nat,
           StepOK(p, x, Published(<<y, z>>) \cup l, b), ScriptOK(p, <<y, z>>, l, b)
    PROVE  /\ ScriptOK(p, <<x, y, z>>, l, b)
           /\ Published(<<y, z>>) \subseteq Published(<<x, y, z>>)
           /\ x.kind = "publish" => x.call \in Published(<<x, y, z>>)
<1> DEFINE s == <<x, y, z>>
           S == {x, y, z}
<1>1. s \in Seq(S) /\ s # <<>> /\ Head(s) = x /\ Tail(s) = <<y, z>>
  OBVIOUS
<1> HIDE DEF s, S
<1>2. StepOK(p, Head(s), Published(Tail(s)) \cup l, b) /\ ScriptOK(p, Tail(s), l, b)
  BY <1>1
<1>3. /\ ScriptOK(p, s, l, b) /\ Published(Tail(s)) \subseteq Published(s)
      /\ Head(s).kind = "publish" => Head(s).call \in Published(s)
  BY <1>1, <1>2, Longer
<1> QED  BY <1>1, <1>3 DEF s

LEMMA Four ==
    ASSUME NEW p, NEW x, NEW y, NEW z, NEW u, NEW l, NEW b \in Nat,
           StepOK(p, x, Published(<<y, z, u>>) \cup l, b), ScriptOK(p, <<y, z, u>>, l, b)
    PROVE  /\ ScriptOK(p, <<x, y, z, u>>, l, b)
           /\ Published(<<y, z, u>>) \subseteq Published(<<x, y, z, u>>)
           /\ x.kind = "publish" => x.call \in Published(<<x, y, z, u>>)
<1> DEFINE s == <<x, y, z, u>>
           S == {x, y, z, u}
<1>1. s \in Seq(S) /\ s # <<>> /\ Head(s) = x /\ Tail(s) = <<y, z, u>>
  OBVIOUS
<1> HIDE DEF s, S
<1>2. StepOK(p, Head(s), Published(Tail(s)) \cup l, b) /\ ScriptOK(p, Tail(s), l, b)
  BY <1>1
<1>3. /\ ScriptOK(p, s, l, b) /\ Published(Tail(s)) \subseteq Published(s)
      /\ Head(s).kind = "publish" => Head(s).call \in Published(s)
  BY <1>1, <1>2, Longer
<1> QED  BY <1>1, <1>3 DEF s

LEMMA Five ==
    ASSUME NEW p, NEW x, NEW y, NEW z, NEW u, NEW v, NEW l, NEW b \in Nat,
           StepOK(p, x, Published(<<y, z, u, v>>) \cup l, b), ScriptOK(p, <<y, z, u, v>>, l, b)
    PROVE  /\ ScriptOK(p, <<x, y, z, u, v>>, l, b)
           /\ Published(<<y, z, u, v>>) \subseteq Published(<<x, y, z, u, v>>)
           /\ x.kind = "publish" => x.call \in Published(<<x, y, z, u, v>>)
<1> DEFINE s == <<x, y, z, u, v>>
           S == {x, y, z, u, v}
<1>1. s \in Seq(S) /\ s # <<>> /\ Head(s) = x /\ Tail(s) = <<y, z, u, v>>
  OBVIOUS
<1> HIDE DEF s, S
<1>2. StepOK(p, Head(s), Published(Tail(s)) \cup l, b) /\ ScriptOK(p, Tail(s), l, b)
  BY <1>1
<1>3. /\ ScriptOK(p, s, l, b) /\ Published(Tail(s)) \subseteq Published(s)
      /\ Head(s).kind = "publish" => Head(s).call \in Published(s)
  BY <1>1, <1>2, Longer
<1> QED  BY <1>1, <1>3 DEF s

(* The steps                                                                  *)
LEMMA PublishIs ==
    ASSUME NEW p, NEW do \in {"make", "remove", "ruleset", "save", "delete"} \cup PlainKind, NEW q, NEW n,
           NEW l, NEW b
    PROVE  /\ StepOK(p, Publish(do, q, n), l, b)
           /\ Publish(do, q, n).kind = "publish" /\ Publish(do, q, n).call = Call(do, q, n)
<1>1. Publish(do, q, n).kind = "publish" /\ Publish(do, q, n).call = Call(do, q, n) /\ Call(do, q, n).do = do
  BY DEF Publish, Call
<1>2. CallOK(Call(do, q, n))
  BY <1>1 DEF CallOK
<1> QED  BY <1>1, <1>2 DEF StepOK

LEMMA CommitIs ==
    ASSUME NEW do, NEW x, NEW v
    PROVE  /\ CommitTo(do, x, v).kind = "commit"
           /\ CommitTo(do, x, v).change.do = do
           /\ CommitTo(do, x, v).change.row = x
           /\ CommitTo(do, x, v).change.to = v
           /\ \A clears : LET step == [CommitTo(do, x, v) EXCEPT !.change.clears = clears]
                          IN  /\ step.kind = "commit" /\ step.change.do = do
                              /\ step.change.row = x /\ step.change.to = v
BY DEF CommitTo, Commit, Change

LEMMA ChangeIs ==
    ASSUME NEW do, NEW x
    PROVE  /\ Commit(Change(do, x)).kind = "commit"
           /\ Commit(Change(do, x)).change.do = do /\ Commit(Change(do, x)).change.row = x
BY DEF Commit, Change

LEMMA CommitOK ==
    ASSUME NEW p, NEW x, NEW l, NEW b, x.kind = "commit", ChangeOK(x.change, b), Promised(p, x.change, l)
    PROVE  StepOK(p, x, l, b)
BY DEF StepOK

LEMMA ReadIs ==
    ASSUME NEW p, NEW what, NEW q, NEW l, NEW b, NEW call, call = Read(what, q).call, ReadOK(p, call, l)
    PROVE  StepOK(p, Read(what, q), l, b)
BY DEF StepOK, Read

LEMMA ReadUse ==
    ASSUME NEW p, NEW q, NEW l, NEW b, Call("ruleset", None, None) \in l
    PROVE  /\ StepOK(p, get_policy_setting(q), l, b)
           /\ StepOK(p, disable_domain_policies(q), l, b)
<1>1. Read("setting", q).call.what = "setting" /\ Read("domain", q).call.what = "domain"
  BY DEF Read
<1>2. ReadOK(p, Read("setting", q).call, l) /\ ReadOK(p, Read("domain", q).call, l)
  BY <1>1 DEF ReadOK
<1> QED  BY <1>2, ReadIs DEF get_policy_setting, disable_domain_policies

LEMMA RulesetLast ==
    ASSUME NEW p, NEW l, NEW b \in Nat
    PROVE  /\ StepOK(p, backend_create_content_ruleset, l, b)
           /\ ScriptOK(p, <<backend_create_content_ruleset>>, l, b)
           /\ Call("ruleset", None, None) \in Published(<<backend_create_content_ruleset>>)
<1>1. /\ StepOK(p, backend_create_content_ruleset, l, b)
      /\ backend_create_content_ruleset.kind = "publish"
      /\ backend_create_content_ruleset.call = Call("ruleset", None, None)
  BY PublishIs DEF backend_create_content_ruleset
<1>2. /\ ScriptOK(p, <<backend_create_content_ruleset>>, l, b)
      /\ backend_create_content_ruleset.call \in Published(<<backend_create_content_ruleset>>)
  BY <1>1, One
<1> QED  BY <1>1, <1>2

-----------------------------------------------------------------------------
(* Sequences of the members of a finite set                                  *)

LEMMA SequenceOf ==
    ASSUME NEW S, IsFiniteSet(S)
    PROVE  /\ Cardinality(S) \in Nat
           /\ SetToSeq(S) \in [1 .. Cardinality(S) -> S]
           /\ SetToSeq(S) \in Seq(S) /\ Len(SetToSeq(S)) = Cardinality(S)
           /\ \A x \in S : \E i \in 1 .. Cardinality(S) : SetToSeq(S)[i] = x
<1> DEFINE n == Cardinality(S)
<1>1. n \in Nat /\ \E f \in [1 .. n -> S] : IsInjective(f)
  BY FS_CardinalityType DEF ExistsBijection, Bijection, Injection
<1>2. SetToSeq(S) \in [1 .. n -> S] /\ IsInjective(SetToSeq(S))
  BY <1>1 DEF SetToSeq
<1>3. SetToSeq(S) \in Injection(1 .. n, S)
  BY <1>2 DEF Injection
<1>4. IsFiniteSet(1 .. n) /\ Cardinality(1 .. n) = n
  BY <1>1, FS_Interval
<1>5. SetToSeq(S) \in Surjection(1 .. n, S)
  BY <1>3, <1>4, FS_Injection
<1>6. \A x \in S : \E i \in 1 .. n : SetToSeq(S)[i] = x
  BY <1>5 DEF Surjection
<1>7. SetToSeq(S) \in Seq(S) /\ Len(SetToSeq(S)) = n
  BY <1>1, <1>2
<1> QED  BY <1>1, <1>2, <1>6, <1>7

LEMMA Less == OpToRel(<, Nat) = {ss \in Nat \X Nat : ss[1] < ss[2]}
  BY Zenon DEF OpToRel
LEMMA NatMin ==
    ASSUME NEW T \in SUBSET Nat, T # {}
    PROVE  \E n \in T : \A m \in T : n <= m
<1> DEFINE L == {ss \in Nat \X Nat : ss[1] < ss[2]}
<1>0. IsWellFoundedOn(L, Nat)
  BY NatLessThanWellFounded, Less
<1>1. \E n \in T : \A m \in T : ~ (<<m, n>> \in L)
  BY <1>0, WFMin, Zenon
<1>2. \A n, m \in T : ~ (<<m, n>> \in L) => n <= m
  OBVIOUS
<1> QED  BY <1>1, <1>2

LEMMA Extremes ==
    ASSUME NEW b \in Nat, NEW T \in SUBSET (0 .. b), T # {}
    PROVE  Min(T) \in T /\ Max(T) \in T
<1>1. Min(T) \in T
  <2>1. T \in SUBSET Nat
    OBVIOUS
  <2>2. \E n \in T : \A m \in T : n <= m
    BY <2>1, NatMin
  <2> QED  BY <2>2 DEF Min
<1> DEFINE U == {b - n : n \in T}
<1>2. U \in SUBSET Nat /\ U # {}
  <2>1. \A n \in T : b - n \in Nat
    OBVIOUS
  <2> QED  BY <2>1
<1>3. PICK u \in U : \A m \in U : u <= m
  BY <1>2, NatMin
<1>4. PICK n \in T : u = b - n
  BY <1>3
<1>5. \A m \in T : n >= m
  <2> TAKE m \in T
  <2>1. b - m \in U
    OBVIOUS
  <2>2. b - n <= b - m
    BY <1>3, <1>4, <2>1
  <2> QED  BY <2>2
<1>6. Max(T) \in T
  BY <1>5 DEF Max
<1> QED  BY <1>1, <1>6

-----------------------------------------------------------------------------
(* The commits of each kind                                                  *)

LEMMA PolicyCommit ==
    ASSUME NEW p, NEW x, NEW l, NEW b, x.kind = "commit", NEW c, x.change = c,
           c.do \in PolicyChange, c.row \in Policy, c.do \in Naming => c.to \in Name,
           c.do = "enable" => Call("make", c.row, None) \in l,
           c.do = "disable" => Call("ruleset", None, None) \in l,
           c.do = "delete_policy" => p = "delete_policy"
    PROVE  StepOK(p, x, l, b)
<1>1. ChangeOK(c, b)
  BY DEF ChangeOK
<1>2. Promised(p, c, l)
  BY DEF Promised, PolicyChange, Naming, Switching, PlainChange
<1> QED  BY <1>1, <1>2, CommitOK

LEMMA RuleCommit ==
    ASSUME NEW p, NEW x, NEW l, NEW b, x.kind = "commit", NEW c, x.change = c,
           c.do \in RuleChange, c.row \in Rule,
           c.do \in NewRule => c.to \in 0 .. b,
           c.do \in Switching => c.to \in BOOLEAN /\ p = "edit_rule",
           c.do = "delete_rule" => c.to \in Name /\ Call("make", Of[c.row], c.to) \in l,
           c.do = "swap_order" => /\ c.to \in 0 .. b /\ c.next.rule \in Rule /\ c.next.order \in 0 .. b
                                  /\ p = "move_rule",
           c.do = "add_rule" => Call("make", Of[c.row], None) \in l,
           c.do = "clone_rule" => p = "clone_policy"
    PROVE  StepOK(p, x, l, b)
<1>1. ChangeOK(c, b)
  BY DEF ChangeOK
<1>2. Promised(p, c, l)
  BY DEF Promised, RuleChange, NewRule, Switching, PlainChange
<1> QED  BY <1>1, <1>2, CommitOK

LEMMA UseCommit ==
    ASSUME NEW p, NEW x, NEW l, NEW b, x.kind = "commit", NEW c, x.change = c,
           c.do \in UseChange, c.to \in Used, c.do = "domain" => c.row \in DomainRow,
           Call("ruleset", None, None) \in l \/ (c.do = "global" /\ p = "delete_policy")
    PROVE  StepOK(p, x, l, b)
<1>1. ChangeOK(c, b)
  BY DEF ChangeOK
<1>2. Promised(p, c, l)
  BY DEF Promised, UseChange, Switching, PlainChange
<1> QED  BY <1>1, <1>2, CommitOK

LEMMA PlainCommit ==
    ASSUME NEW p, NEW x, NEW l, NEW b, x.kind = "commit", NEW c, x.change = c,
           c.do \in PlainChange, c.to \in PlainKind, c.row \in Setting,
           c.do = "replace" => c.next \in Setting, Call(c.to, None, None) \in l
    PROVE  StepOK(p, x, l, b)
<1>1. ChangeOK(c, b)
  BY DEF ChangeOK
<1>2. Promised(p, c, l)
  BY DEF Promised, PlainChange, Switching
<1> QED  BY <1>1, <1>2, CommitOK

-----------------------------------------------------------------------------
(* The pages of policies                                                     *)

LEMMA AddPolicyScript ==
    ASSUME NEW p, NEW q \in Policy, NEW n \in Name, NEW l, NEW b \in Nat
    PROVE  ScriptOK(p, add_policy(q, n), l, b)
<1> DEFINE x == CommitTo("add_policy", q, n)
           c == x.change
<1>1. x.kind = "commit" /\ c.do = "add_policy" /\ c.row = q /\ c.to = n
  BY CommitIs
<1> HIDE DEF x
<1>2. StepOK(p, x, l, b)
  BY <1>1, PolicyCommit DEF PolicyChange, Naming
<1>3. ScriptOK(p, <<x>>, l, b)
  BY <1>2, One
<1> QED  BY <1>3 DEF add_policy, x

LEMMA PublishPair ==
    ASSUME NEW p, NEW do \in {"make", "remove", "ruleset", "save", "delete"} \cup PlainKind, NEW q, NEW n,
           NEW l, NEW b \in Nat
    PROVE  /\ ScriptOK(p, <<Publish(do, q, n)>>, l, b)
           /\ Call(do, q, n) \in Published(<<Publish(do, q, n)>>)
<1>1. /\ StepOK(p, Publish(do, q, n), l, b)
      /\ Publish(do, q, n).kind = "publish" /\ Publish(do, q, n).call = Call(do, q, n)
  BY PublishIs
<1>2. /\ ScriptOK(p, <<Publish(do, q, n)>>, l, b)
      /\ Publish(do, q, n).call \in Published(<<Publish(do, q, n)>>)
  BY <1>1, One
<1> QED  BY <1>1, <1>2

LEMMA UpdatePolicyScript ==
    ASSUME NEW p, NEW D, NEW q \in Policy, NEW n \in Name, NEW on, NEW l, NEW b \in Nat
    PROVE  ScriptOK(p, update_policy(D, q, n, on), l, b)
<1> DEFINE enable == CommitTo("enable", q, n)
           disable == [CommitTo("disable", q, n) EXCEPT !.change.clears = (D.global = q)]
           make == backend_create_content_rules(q, None)
           read == disable_domain_policies(q)
           remove == backend_remove_content_rules(q, None)
           ruleset == backend_create_content_ruleset
<1>1. ScriptOK(p, <<enable, make>>, l, b)
  <2>1. /\ enable.kind = "commit" /\ enable.change.do = "enable"
        /\ enable.change.row = q /\ enable.change.to = n
    BY CommitIs
  <2>2. StepOK(p, make, l, b) /\ Call("make", q, None) \in Published(<<make>>)
    BY PublishIs, PublishPair DEF backend_create_content_rules
  <2> HIDE DEF enable, make
  <2>3. StepOK(p, enable, Published(<<make>>) \cup l, b)
    BY <2>1, <2>2, PolicyCommit DEF PolicyChange, Naming
  <2> QED  BY <2>2, <2>3, Two
<1>2. ScriptOK(p, <<disable, read, remove, ruleset>>, l, b)
  <2>1. /\ disable.kind = "commit" /\ disable.change.do = "disable"
        /\ disable.change.row = q /\ disable.change.to = n
    BY CommitIs
  <2>2. \A m : StepOK(p, remove, m, b)
    BY PublishIs DEF backend_remove_content_rules
  <2>3. StepOK(p, ruleset, l, b) /\ Call("ruleset", None, None) \in Published(<<ruleset>>)
    BY RulesetLast
  <2>4. \A m : Call("ruleset", None, None) \in m => StepOK(p, read, m, b)
    BY ReadUse
  <2> HIDE DEF disable, remove, ruleset, read
  <2>5. /\ ScriptOK(p, <<remove, ruleset>>, l, b)
        /\ Call("ruleset", None, None) \in Published(<<remove, ruleset>>)
    BY <2>2, <2>3, Two
  <2>6. /\ ScriptOK(p, <<read, remove, ruleset>>, l, b)
        /\ Call("ruleset", None, None) \in Published(<<read, remove, ruleset>>)
    BY <2>4, <2>5, Three
  <2>7. StepOK(p, disable, Published(<<read, remove, ruleset>>) \cup l, b)
    BY <2>1, <2>6, PolicyCommit DEF PolicyChange, Naming
  <2> QED  BY <2>6, <2>7, Four
<1>3. ScriptOK(p, <<>>, l, b)
  BY Nothing
<1> QED  BY <1>1, <1>2, <1>3 DEF update_policy

LEMMA DeletePolicyScript ==
    ASSUME NEW D, NEW q \in Policy, NEW l, NEW b \in Nat
    PROVE  ScriptOK("delete_policy", delete_policy(D, q), l, b)
<1> DEFINE p == "delete_policy"
           remove == backend_remove_content_rules(q, D.policy[q].name)
           read == Read("delete", q)
           x == Commit(Change("delete_policy", q))
<1>1. StepOK(p, remove, Published(<<read, x>>) \cup l, b)
  BY PublishIs DEF backend_remove_content_rules
<1>2. StepOK(p, read, Published(<<x>>) \cup l, b)
  BY DEF StepOK, ReadOK, Read
<1>3. x.kind = "commit" /\ x.change.do = "delete_policy" /\ x.change.row = q
  BY ChangeIs
<1> HIDE DEF remove, read, x
<1>4. StepOK(p, x, l, b)
  BY <1>3, PolicyCommit DEF PolicyChange, Naming
<1>5. ScriptOK(p, <<read, x>>, l, b)
  BY <1>2, <1>4, Two
<1>6. ScriptOK(p, <<remove, read, x>>, l, b)
  BY <1>1, <1>5, Three
<1> QED  BY <1>6 DEF delete_policy, remove, read, x

LEMMA ClonePolicyScript ==
    ASSUME SettingsAssumption, NEW q \in Policy, NEW n \in Name, NEW answered, NEW l,
           NEW b \in Nat, Cardinality(Rule) <= b
    PROVE  ScriptOK("clone_policy", clone_policy(q, n, answered), l, b)
<1> DEFINE p == "clone_policy"
           own == {k \in Rule : Of[k] = q}
           rules == IF answered THEN SetToSeq(own) ELSE <<>>
           clones == [i \in DOMAIN rules |-> CommitTo("clone_rule", rules[i], i - 1)]
<1>1. IsFiniteSet(own) /\ Cardinality(own) <= Cardinality(Rule) /\ Cardinality(Rule) \in Nat
  BY FS_Subset, FS_CardinalityType DEF SettingsAssumption
<1>2. /\ Cardinality(own) \in Nat /\ SetToSeq(own) \in [1 .. Cardinality(own) -> own]
  BY <1>1, SequenceOf
<1>3. PICK m \in 0 .. b : rules \in [1 .. m -> Rule]
  <2>1. CASE answered
    <3>1. Cardinality(own) \in 0 .. b /\ rules \in [1 .. Cardinality(own) -> Rule]
      BY <1>1, <1>2, <2>1
    <3> QED  BY <3>1
  <2>2. CASE ~ answered
    <3>1. rules \in [1 .. 0 -> Rule] /\ 0 \in 0 .. b
      BY <2>2
    <3> QED  BY <3>1
  <2> QED  BY <2>1, <2>2
<1> HIDE DEF rules
<1>4. ASSUME NEW i \in 1 .. m
      PROVE  StepOK(p, clones[i], l, b)
  <2> DEFINE x == CommitTo("clone_rule", rules[i], i - 1)
  <2>1. rules[i] \in Rule /\ i - 1 \in 0 .. b /\ clones[i] = x
    BY <1>3
  <2>2. /\ x.kind = "commit" /\ x.change.do = "clone_rule"
        /\ x.change.row = rules[i] /\ x.change.to = i - 1
    BY CommitIs
  <2> HIDE DEF x, clones
  <2>3. StepOK(p, x, l, b)
    BY <2>1, <2>2, RuleCommit DEF RuleChange, NewRule, Switching
  <2> QED  BY <2>1, <2>3
<1>5. DOMAIN clones = 1 .. m /\ m \in Nat
  BY <1>3
<1> DEFINE S == {clones[i] : i \in 1 .. m}
<1>6. clones \in Seq(S)
  <2>1. clones \in [1 .. m -> S]
    BY <1>3
  <2> QED  BY <1>5, <2>1
<1> HIDE DEF clones, S
<1>7. ScriptOK(p, clones, l, b)
  BY <1>4, <1>5, <1>6, Uniform
<1>8. ScriptOK(p, add_policy(q, n), Published(clones) \cup l, b)
  BY AddPolicyScript
<1>9. ScriptOK(p, add_policy(q, n) \o clones, l, b)
  BY <1>7, <1>8, Joined
<1> QED  BY <1>9 DEF clone_policy, clones, rules

-----------------------------------------------------------------------------
(* The pages of rules                                                        *)

LEMMA RulesOfIs ==
    ASSUME NEW b, NEW D \in Rows(b), NEW q
    PROVE  RulesOf(D, q) \subseteq Rule /\ \A k \in RulesOf(D, q) : D.rule[k].order \in 0 .. b
BY PolicyIs DEF RulesOf, Rows, RuleRows

LEMMA AddRuleScript ==
    ASSUME SettingsAssumption, NEW p, NEW b \in Nat, NEW D \in Rows(b), NEW k \in Rule, NEW on, NEW l
    PROVE  ScriptOK(p, add_rule(D, k, on), l, b + 1)
<1> DEFINE q == Of[k]
           orders == {D.rule[x].order : x \in RulesOf(D, q)}
           order == IF orders = {} THEN 0 ELSE Max(orders) + 1
           do == IF on THEN "add_rule" ELSE "add_rule_off"
           x == CommitTo(do, k, order)
           make == backend_create_content_rules(q, None)
<1>1. order \in 0 .. b + 1
  <2>1. orders \in SUBSET (0 .. b)
    BY RulesOfIs
  <2>2. CASE orders = {}
    BY <2>2
  <2>3. CASE orders # {}
    <3>1. Max(orders) \in 0 .. b
      BY <2>1, <2>3, Extremes
    <3> HIDE DEF orders
    <3> QED  BY <2>3, <3>1
  <2> QED  BY <2>2, <2>3
<1>2. x.kind = "commit" /\ x.change.do = do /\ x.change.row = k /\ x.change.to = order
  <2> HIDE DEF do, order
  <2> QED  BY CommitIs
<1>3. StepOK(p, make, l, b + 1) /\ Call("make", q, None) \in Published(<<make>>)
  BY PublishIs, PublishPair DEF backend_create_content_rules
<1>4. do \in {"add_rule", "add_rule_off"} /\ b + 1 \in Nat
  OBVIOUS
<1>5. add_rule(D, k, on) = <<x, make>>
  BY DEF add_rule
<1> HIDE DEF x, make, order, orders, do
<1>6. StepOK(p, x, Published(<<make>>) \cup l, b + 1)
  BY <1>1, <1>2, <1>3, <1>4, RuleCommit DEF RuleChange, NewRule, Switching
<1>7. ScriptOK(p, <<x, make>>, l, b + 1)
  BY <1>3, <1>4, <1>6, Two
<1> QED  BY <1>5, <1>7

LEMMA UpdateRuleScript ==
    ASSUME SettingsAssumption, NEW b \in Nat, NEW D, NEW k \in Rule, NEW on \in BOOLEAN, NEW l
    PROVE  ScriptOK("edit_rule", update_rule(D, k, on), l, b)
<1> DEFINE p == "edit_rule"
           q == Of[k]
           only == CommitTo("set_only_rule", k, on)
           set == CommitTo("set_rule", k, on)
           first == get_policy_setting(q)
           remove == backend_remove_content_rules(q, None)
           read == disable_domain_policies(q)
           ruleset == backend_create_content_ruleset
           make == backend_create_content_rules(q, D.policy[q].name)
<1>1. /\ only.kind = "commit" /\ only.change.do = "set_only_rule"
      /\ only.change.row = k /\ only.change.to = on
  BY CommitIs
<1>2. set.kind = "commit" /\ set.change.do = "set_rule" /\ set.change.row = k /\ set.change.to = on
  BY CommitIs
<1>3. \A m : StepOK(p, remove, m, b)
  BY PublishIs DEF backend_remove_content_rules
<1>4. \A m : StepOK(p, make, m, b)
  BY PublishIs DEF backend_create_content_rules
<1>5. ScriptOK(p, <<ruleset>>, l, b) /\ StepOK(p, ruleset, l, b) /\ Call("ruleset", None, None) \in Published(<<ruleset>>)
  BY RulesetLast
<1>6. \A m : Call("ruleset", None, None) \in m => StepOK(p, read, m, b) /\ StepOK(p, first, m, b)
  BY ReadUse
<1>7. update_rule(D, k, on) = IF D.rule[k].on = on THEN <<>>
        ELSE IF ~ on /\ RulesOf(D, q) = {k} THEN <<only, first, remove, read, ruleset>>
        ELSE <<make, set>>
  BY DEF update_rule
<1> HIDE DEF only, set, first, remove, read, ruleset, make
<1>8. \A m : StepOK(p, only, m, b) /\ StepOK(p, set, m, b)
  BY <1>1, <1>2, RuleCommit DEF RuleChange, NewRule, Switching
<1>9. ScriptOK(p, <<read, ruleset>>, l, b) /\ Call("ruleset", None, None) \in Published(<<read, ruleset>>)
  BY <1>5, <1>6, Two
<1>10. /\ ScriptOK(p, <<remove, read, ruleset>>, l, b)
       /\ Call("ruleset", None, None) \in Published(<<remove, read, ruleset>>)
  BY <1>3, <1>9, Three
<1>11. ScriptOK(p, <<first, remove, read, ruleset>>, l, b)
  BY <1>6, <1>10, Four
<1>12. ScriptOK(p, <<only, first, remove, read, ruleset>>, l, b)
  BY <1>8, <1>11, Five
<1>13. ScriptOK(p, <<make, set>>, l, b)
  BY <1>4, <1>8, Two
<1>14. ScriptOK(p, <<>>, l, b)
  BY Nothing
<1> QED  BY <1>7, <1>12, <1>13, <1>14

LEMMA DeleteRuleScript ==
    ASSUME SettingsAssumption, NEW p, NEW b \in Nat, NEW D \in Rows(b), NEW k \in Rule, NEW l
    PROVE  ScriptOK(p, delete_rule(D, k), l, b)
<1> DEFINE q == Of[k]
           n == D.policy[q].name
           off == Commit(Change("policy_off", q))
           first == get_policy_setting(q)
           read == disable_domain_policies(q)
           remove == backend_remove_content_rules(q, None)
           ruleset == backend_create_content_ruleset
           delete == CommitTo("delete_rule", k, n)
           make == backend_create_content_rules(q, n)
           last == <<off, first, read, remove, ruleset>>
<1>1. q \in Policy /\ n \in Name
  BY DEF SettingsAssumption, Rows, PolicyRows
<1>2. off.kind = "commit" /\ off.change.do = "policy_off" /\ off.change.row = q
  BY ChangeIs
<1>3. delete.kind = "commit" /\ delete.change.do = "delete_rule" /\ delete.change.row = k /\ delete.change.to = n
  BY CommitIs
<1>4. \A m : StepOK(p, remove, m, b)
  BY PublishIs DEF backend_remove_content_rules
<1>5. \A m : StepOK(p, make, m, b)
  BY PublishIs DEF backend_create_content_rules
<1>6. Call("make", q, n) \in Published(<<make>>)
  BY PublishPair DEF backend_create_content_rules
<1>7. \A m : StepOK(p, ruleset, m, b)
  BY RulesetLast
<1>8. Call("ruleset", None, None) \in Published(<<ruleset>>)
  BY RulesetLast
<1>9. \A m : Call("ruleset", None, None) \in m => StepOK(p, read, m, b) /\ StepOK(p, first, m, b)
  BY ReadUse
<1>10. delete_rule(D, k) = (IF RulesOf(D, q) # {k} THEN <<>> ELSE last) \o <<delete, make>>
  BY DEF delete_rule
<1> HIDE DEF off, first, read, remove, ruleset, delete, make
<1>11. StepOK(p, delete, Published(<<make>>) \cup l, b)
  <2> HIDE DEF n
  <2> QED  BY <1>1, <1>3, <1>6, RuleCommit DEF RuleChange, NewRule, Switching
<1>12. ScriptOK(p, <<delete, make>>, l, b)
  BY <1>5, <1>11, Two
<1>13. ASSUME NEW m  PROVE ScriptOK(p, last, m, b)
  <2>1. /\ ScriptOK(p, <<remove, ruleset>>, m, b)
        /\ Call("ruleset", None, None) \in Published(<<remove, ruleset>>)
    BY <1>4, <1>7, <1>8, Two
  <2>2. /\ ScriptOK(p, <<read, remove, ruleset>>, m, b)
        /\ Call("ruleset", None, None) \in Published(<<read, remove, ruleset>>)
    BY <1>9, <2>1, Three
  <2>3. ScriptOK(p, <<first, read, remove, ruleset>>, m, b)
    BY <1>9, <2>2, Four
  <2>4. \A h : StepOK(p, off, h, b)
    <3> HIDE DEF q
    <3> QED  BY <1>1, <1>2, PolicyCommit DEF PolicyChange, Naming
  <2> QED  BY <2>3, <2>4, Five
<1> DEFINE before == IF RulesOf(D, q) # {k} THEN <<>> ELSE last
<1>14. ScriptOK(p, before, Published(<<delete, make>>) \cup l, b)
  BY <1>13, Nothing
<1> HIDE DEF before
<1>15. ScriptOK(p, before \o <<delete, make>>, l, b)
  BY <1>12, <1>14, Joined
<1> QED  BY <1>10, <1>15 DEF before

LEMMA MoveRuleScript ==
    ASSUME SettingsAssumption, NEW b \in Nat, NEW D \in Rows(b), NEW k \in Rule, NEW up, NEW l
    PROVE  ScriptOK("move_rule", move_rule_to(D, k, up), l, b)
<1> DEFINE far == Beyond(D, k, up)
           T == {D.rule[x].order : x \in far}
           order == IF up THEN Min(T) ELSE Max(T)
           next == CHOOSE x \in far : D.rule[x].order = order
<1>1. CASE far = {}
  <2>1. move_rule_to(D, k, up) = <<>>
    BY <1>1, Zenon DEF move_rule_to
  <2> QED  BY <2>1, Nothing
<1>2. CASE far # {}
  <2>1. far \subseteq Rule /\ T \in SUBSET (0 .. b) /\ T # {}
    BY <1>2, RulesOfIs DEF Beyond
  <2>2. order \in T
    BY <2>1, Extremes
  <2>3. next \in far /\ D.rule[next].order = order
    <3>1. \E x \in far : D.rule[x].order = order
      BY <2>2
    <3> QED  BY <3>1
  <2> DEFINE v == D.rule[next].order
             w == [rule |-> next, order |-> D.rule[k].order]
             x == [CommitTo("swap_order", k, v) EXCEPT !.change.next = w]
  <2>4. x.kind = "commit" /\ x.change.do = "swap_order" /\ x.change.row = k /\ x.change.to = v /\ x.change.next = w
    <3> HIDE DEF v, w
    <3> QED  BY DEF CommitTo, Commit, Change
  <2>5. next \in Rule /\ v \in 0 .. b /\ w.rule = next /\ w.order \in 0 .. b
    BY <2>1, <2>3 DEF Rows, RuleRows
  <2>6. move_rule_to(D, k, up) = <<x>>
    BY <1>2, Zenon DEF move_rule_to, swap_order
  <2> HIDE DEF x, w, v, next, order
  <2>7. StepOK("move_rule", x, l, b)
    BY <2>4, <2>5, RuleCommit DEF RuleChange, NewRule, Switching
  <2>8. ScriptOK("move_rule", <<x>>, l, b)
    BY <2>7, One
  <2> QED  BY <2>6, <2>8
<1> QED  BY <1>1, <1>2

-----------------------------------------------------------------------------
(* The pages of the global setting and of the domain's                       *)

LEMMA GlobalScript ==
    ASSUME NEW p, NEW D, NEW q \in Used, NEW l, NEW b \in Nat
    PROVE  ScriptOK(p, save_policy_settings(D, q), l, b)
<1> DEFINE x == CommitTo("global", None, q)
           ruleset == backend_create_content_ruleset
           before == IF D.global = q THEN <<>> ELSE <<x>>
<1>1. x.kind = "commit" /\ x.change.do = "global" /\ x.change.to = q
  BY CommitIs
<1>2. ScriptOK(p, <<ruleset>>, l, b) /\ Call("ruleset", None, None) \in Published(<<ruleset>>)
  BY RulesetLast
<1>3. save_policy_settings(D, q) = before \o <<ruleset>>
  BY DEF save_policy_settings
<1> HIDE DEF x, ruleset
<1>4. StepOK(p, x, Published(<<ruleset>>) \cup l, b)
  BY <1>1, <1>2, UseCommit DEF UseChange
<1>5. ScriptOK(p, before, Published(<<ruleset>>) \cup l, b)
  BY <1>4, One, Nothing
<1> HIDE DEF before
<1>6. ScriptOK(p, before \o <<ruleset>>, l, b)
  BY <1>2, <1>5, Joined
<1> QED  BY <1>3, <1>6

LEMMA DomainScript ==
    ASSUME NEW p, NEW D, NEW q \in Used, NEW l, NEW b \in Nat
    PROVE  ScriptOK(p, save_domain_policy_settings(D, q), l, b)
<1> DEFINE rows == {g \in DomainRow : D.domain[g] # Absent}
           new == CommitTo("add_domain", None, q)
           old == CommitTo("domain", CHOOSE g \in rows : TRUE, q)
           ruleset == backend_create_content_ruleset
           before == IF \E g \in rows : D.domain[g] = q THEN <<>>
                     ELSE IF rows = {} THEN <<new>> ELSE <<old>>
<1>1. new.kind = "commit" /\ new.change.do = "add_domain" /\ new.change.to = q
  BY CommitIs
<1>2. /\ old.kind = "commit" /\ old.change.do = "domain" /\ old.change.to = q
      /\ old.change.row = CHOOSE g \in rows : TRUE
  BY CommitIs
<1>3. rows # {} => old.change.row \in DomainRow
  BY <1>2
<1>4. ScriptOK(p, <<ruleset>>, l, b) /\ Call("ruleset", None, None) \in Published(<<ruleset>>)
  BY RulesetLast
<1>5. save_domain_policy_settings(D, q) = IF Cardinality(rows) > 1 THEN <<>> ELSE before \o <<ruleset>>
  BY DEF save_domain_policy_settings
<1> HIDE DEF rows, new, old, ruleset
<1>6. StepOK(p, new, Published(<<ruleset>>) \cup l, b)
  BY <1>1, <1>4, UseCommit DEF UseChange
<1>7. rows # {} => StepOK(p, old, Published(<<ruleset>>) \cup l, b)
  BY <1>2, <1>3, <1>4, UseCommit DEF UseChange
<1>8. ScriptOK(p, before, Published(<<ruleset>>) \cup l, b)
  BY <1>6, <1>7, One, Nothing
<1> HIDE DEF before
<1>9. ScriptOK(p, before \o <<ruleset>>, l, b)
  BY <1>4, <1>8, Joined
<1> QED  BY <1>5, <1>9, Nothing

-----------------------------------------------------------------------------
(* The pages of DKIM keys, MTA settings, local scores and servers            *)

LEMMA DkimScripts ==
    ASSUME NEW D, NEW on \in BOOLEAN, NEW l, NEW b \in Nat
    PROVE  /\ ScriptOK("domain_dkim_generate", domain_dkim_generate, l, b)
           /\ ScriptOK("domain_dkim_enable", domain_dkim_enable(D, on), l, b)
<1>1. ScriptOK("domain_dkim_generate", domain_dkim_generate, l, b)
  <2> DEFINE x == Commit(Change("dkim_generate", None))
  <2>1. x.kind = "commit" /\ x.change.do = "dkim_generate"
    BY ChangeIs
  <2>2. domain_dkim_generate = <<x>>
    BY DEF domain_dkim_generate
  <2> HIDE DEF x
  <2>3. ChangeOK(x.change, b)
    BY <2>1 DEF ChangeOK, DkimChange
  <2>4. Promised("domain_dkim_generate", x.change, l)
    BY <2>1 DEF Promised, Switching, PlainChange
  <2> QED  BY <2>1, <2>2, <2>3, <2>4, CommitOK, One
<1>2. ScriptOK("domain_dkim_enable", domain_dkim_enable(D, on), l, b)
  <2> DEFINE x == CommitTo("dkim_enable", None, on)
             do == IF on THEN "save" ELSE "delete"
             task == backend_of(do)
  <2>1. x.kind = "commit" /\ x.change.do = "dkim_enable" /\ x.change.to = on
    BY CommitIs
  <2>2. do \in {"make", "remove", "ruleset", "save", "delete"} \cup PlainKind
    OBVIOUS
  <2>3. domain_dkim_enable(D, on) = IF ~ D.dkim.there \/ D.dkim.on = on THEN <<>> ELSE <<x, task>>
    BY DEF domain_dkim_enable
  <2> HIDE DEF x
  <2>4. StepOK("domain_dkim_enable", task, l, b) /\ Call(do, None, None) \in Published(<<task>>)
    <3> HIDE DEF do
    <3> QED  BY <2>2, PublishIs, PublishPair DEF backend_of
  <2>5. ChangeOK(x.change, b)
    BY <2>1 DEF ChangeOK, DkimChange
  <2>6. Promised("domain_dkim_enable", x.change, Published(<<task>>) \cup l)
    <3> HIDE DEF task
    <3> QED  BY <2>1, <2>4 DEF Promised, Switching, PlainChange
  <2> HIDE DEF task
  <2>7. ScriptOK("domain_dkim_enable", <<x, task>>, l, b)
    BY <2>1, <2>4, <2>5, <2>6, CommitOK, Two
  <2> QED  BY <2>3, <2>7, Nothing
<1> QED  BY <1>1, <1>2

LEMMA PlainPair ==
    ASSUME NEW p, NEW x, NEW kind \in PlainKind, NEW l, NEW b \in Nat, x.kind = "commit",
           x.change.do \in PlainChange, x.change.to = kind, x.change.row \in Setting,
           x.change.do = "replace" => x.change.next \in Setting
    PROVE  ScriptOK(p, <<x, backend_of(kind)>>, l, b)
<1> DEFINE task == backend_of(kind)
<1>1. StepOK(p, task, l, b) /\ Call(kind, None, None) \in Published(<<task>>)
  BY PublishIs, PublishPair DEF backend_of
<1> HIDE DEF task
<1>2. StepOK(p, x, Published(<<task>>) \cup l, b)
  BY <1>1, PlainCommit
<1>3. ScriptOK(p, <<x, task>>, l, b)
  BY <1>1, <1>2, Two
<1> QED  BY <1>3 DEF task

LEMMA PlainScripts ==
    ASSUME NEW p, NEW D, NEW s \in Setting, NEW t \in Setting, NEW l, NEW b \in Nat
    PROVE  /\ ScriptOK(p, create_mta_setting(s), l, b)
           /\ ScriptOK(p, update_mta_setting(s, t), l, b)
           /\ ScriptOK(p, delete_mta_setting(s), l, b)
           /\ ScriptOK(p, update_local_score(D, s), l, b)
<1>0. "mta" \in PlainKind /\ "scores" \in PlainKind
  BY DEF PlainKind
<1>1. ASSUME NEW do \in {"set", "unset"}, NEW kind \in PlainKind
      PROVE  ScriptOK(p, <<CommitTo(do, s, kind), backend_of(kind)>>, l, b)
  <2> DEFINE x == CommitTo(do, s, kind)
  <2>1. x.kind = "commit" /\ x.change.do = do /\ x.change.row = s /\ x.change.to = kind
    BY CommitIs
  <2>2. x.change.do \in PlainChange /\ x.change.do # "replace"
    BY <2>1 DEF PlainChange
  <2> HIDE DEF x
  <2>3. ScriptOK(p, <<x, backend_of(kind)>>, l, b)
    BY <2>1, <2>2, PlainPair
  <2> QED  BY <2>3 DEF x
<1>2. ScriptOK(p, create_mta_setting(s), l, b) /\ ScriptOK(p, delete_mta_setting(s), l, b)
  BY <1>0, <1>1 DEF create_mta_setting, delete_mta_setting
<1>3. ScriptOK(p, update_local_score(D, s), l, b)
  BY <1>0, <1>1 DEF update_local_score
<1>4. ScriptOK(p, update_mta_setting(s, t), l, b)
  <2> DEFINE x == [CommitTo("replace", s, "mta") EXCEPT !.change.next = t]
  <2>1. x.kind = "commit" /\ x.change.do = "replace" /\ x.change.row = s /\ x.change.to = "mta" /\ x.change.next = t
    BY DEF CommitTo, Commit, Change
  <2>2. x.change.do \in PlainChange
    BY <2>1 DEF PlainChange
  <2>3. update_mta_setting(s, t) = <<x, backend_of("mta")>>
    BY DEF update_mta_setting
  <2> HIDE DEF x
  <2> QED  BY <1>0, <2>1, <2>2, <2>3, PlainPair
<1> QED  BY <1>2, <1>3, <1>4

LEMMA SectionScript ==
    ASSUME SettingsAssumption, NEW p, NEW D, NEW fields \in SUBSET Setting, NEW l, NEW b \in Nat
    PROVE  ScriptOK(p, section(D, fields), l, b)
<1> DEFINE q == SetToSeq(fields)
           n == Cardinality(fields)
           field(s) == CommitTo(IF s \in D.quickpeek THEN "unset" ELSE "set", s, "quickpeek")
           all == [i \in DOMAIN q |-> field(q[i])]
           task == backend_of("quickpeek")
           S == {field(s) : s \in Setting}
<1>1. n \in Nat /\ q \in [1 .. n -> fields]
  <2>1. IsFiniteSet(fields)
    BY FS_Subset DEF SettingsAssumption
  <2> QED  BY <2>1, SequenceOf
<1>2. /\ ScriptOK(p, <<task>>, l, b) /\ Call("quickpeek", None, None) \in Published(<<task>>)
  BY PublishPair DEF backend_of, PlainKind
<1>3. section(D, fields) = IF D.server = "none" THEN <<>> ELSE all \o <<task>>
  BY DEF section
<1> HIDE DEF q, n, task
<1>4. all \in Seq(S) /\ DOMAIN all = 1 .. n /\ \A i \in 1 .. n : all[i] = field(q[i]) /\ q[i] \in Setting
  <2>1. all \in [1 .. n -> S]
    BY <1>1
  <2> QED  BY <1>1, <2>1
<1>5. ASSUME NEW s \in Setting
      PROVE  StepOK(p, field(s), Published(<<task>>) \cup l, b)
  <2> DEFINE do == IF s \in D.quickpeek THEN "unset" ELSE "set"
             x == CommitTo(do, s, "quickpeek")
  <2>1. do \in PlainChange /\ do # "replace"
    BY DEF PlainChange
  <2>2. x.kind = "commit" /\ x.change.do = do /\ x.change.row = s /\ x.change.to = "quickpeek"
    <3> HIDE DEF do
    <3> QED  BY CommitIs
  <2>3. field(s) = x
    OBVIOUS
  <2>4. "quickpeek" \in PlainKind
    BY DEF PlainKind
  <2> HIDE DEF x, field, do
  <2> QED  BY <1>2, <2>1, <2>2, <2>3, <2>4, PlainCommit
<1> HIDE DEF field, all, S
<1>6. ScriptOK(p, all, Published(<<task>>) \cup l, b)
  <2>1. \A i \in DOMAIN all : StepOK(p, all[i], Published(<<task>>) \cup l, b)
    BY <1>4, <1>5
  <2> QED  BY <1>4, <2>1, Uniform
<1>7. ScriptOK(p, all \o <<task>>, l, b)
  BY <1>2, <1>6, Joined
<1> QED  BY <1>3, <1>7, Nothing

LEMMA ServerScripts ==
    ASSUME NEW D, NEW on \in Server, NEW l, NEW b \in Nat
    PROVE  /\ ScriptOK("new_server", new_server(on), l, b)
           /\ ScriptOK("edit_server", edit_server(D, on), l, b)
           /\ ScriptOK("delete_server", delete_server(D), l, b)
<1>1. ASSUME NEW p, NEW do \in ServerChange, NEW to \in Server,
             do = "server" => p \in {"edit_server", "delete_server"}
      PROVE  ScriptOK(p, <<CommitTo(do, None, to)>>, l, b)
  <2> DEFINE x == CommitTo(do, None, to)
  <2>1. x.kind = "commit" /\ x.change.do = do /\ x.change.to = to
    BY CommitIs
  <2> HIDE DEF x
  <2>2. ChangeOK(x.change, b)
    BY <2>1 DEF ChangeOK
  <2>3. Promised(p, x.change, l)
    BY <1>1, <2>1 DEF Promised, ServerChange, Switching, PlainChange
  <2>4. ScriptOK(p, <<x>>, l, b)
    BY <2>1, <2>2, <2>3, CommitOK, One
  <2> QED  BY <2>4 DEF x
<1>2. "new_server" \in ServerChange /\ "server" \in ServerChange /\ "none" \in Server
  BY DEF ServerChange, Server
<1>3. ScriptOK("new_server", new_server(on), l, b)
  BY <1>1, <1>2 DEF new_server
<1>4. ScriptOK("edit_server", edit_server(D, on), l, b)
  BY <1>1, <1>2, Nothing DEF edit_server
<1>5. ScriptOK("delete_server", delete_server(D), l, b)
  BY <1>1, <1>2, Nothing DEF delete_server
<1> QED  BY <1>3, <1>4, <1>5

-----------------------------------------------------------------------------
(* Whatever is asked for                                                     *)

PolicyPage == {"add_policy", "edit_policy", "delete_policy", "clone_policy"}
RulePage == {"add_rule", "edit_rule", "move_rule", "delete_rule"}
UsePage == {"global_policies", "domain_policies"}
SettingPage == {"add_mta_setting", "edit_mta_setting", "del_mta_setting", "edit_local_scores"}
OtherPage == {"domain_dkim_generate", "domain_dkim_enable", "new_server", "edit_server", "delete_server"}

Answered(ask) == ask.on \in BOOLEAN
AskOK(ask) ==
    /\ Answered(ask)
    /\ \/ ask.page \in PolicyPage /\ ask.row \in Policy /\ (ask.page # "delete_policy" => ask.name \in Name)
       \/ ask.page \in RulePage /\ ask.row \in Rule
       \/ ask.page \in UsePage /\ ask.row \in Used
       \/ ask.page \in SettingPage /\ ask.row \in Setting
       \/ ask.page = "section" /\ ask.row \in SUBSET Setting
       \/ ask.page \in OtherPage

LEMMA AskIs ==
    ASSUME NEW p, NEW rows, NEW names
    PROVE  /\ \A ask \in Ask(p, rows, names, BOOLEAN) :
                ask.page = p /\ ask.row \in rows /\ ask.name \in names /\ Answered(ask)
           /\ \A ask \in Ask(p, rows, names, {FALSE}) :
                ask.page = p /\ ask.row \in rows /\ ask.name \in names /\ Answered(ask)
<1>1. ASSUME NEW x \in rows, NEW n \in names, NEW on \in BOOLEAN, NEW ask,
             ask = [page |-> p, row |-> x, name |-> n, on |-> on]
      PROVE  ask.page = p /\ ask.row \in rows /\ ask.name \in names /\ Answered(ask)
  <2>1. ask.page = p /\ ask.row \in rows /\ ask.name \in names
    BY <1>1
  <2>2. ask.on = on
    BY <1>1, Zenon
  <2>3. Answered(ask)
    BY <2>2, Zenon DEF Answered
  <2> QED  BY <2>1, <2>3
<1>2. ASSUME NEW ons \in {{FALSE}, BOOLEAN}, NEW ask \in Ask(p, rows, names, ons)
      PROVE  ask.page = p /\ ask.row \in rows /\ ask.name \in names /\ Answered(ask)
  <2>1. PICK x \in rows, n \in names, on \in ons : ask = [page |-> p, row |-> x, name |-> n, on |-> on]
    BY DEF Ask
  <2>2. on \in BOOLEAN
    BY Zenon
  <2> QED  BY <1>1, <2>1, <2>2
<1> QED  BY <1>2

LEMMA AsksAre ==
    ASSUME NEW files, files \subseteq SettingsFile, NEW ask \in Asks(files)
    PROVE  AskOK(ask)
<1>1. ASSUME ask \in PolicyPages
      PROVE  AskOK(ask)
  <2>1. CASE ask \in Ask("add_policy", Policy, Name, {FALSE}) \cup Ask("edit_policy", Policy, Name, BOOLEAN)
                        \cup Ask("clone_policy", Policy, Name, BOOLEAN)
    <3>1. /\ ask.page \in {"add_policy", "edit_policy", "clone_policy"}
          /\ ask.row \in Policy /\ ask.name \in Name /\ Answered(ask)
      BY <2>1, AskIs
    <3> QED  BY <3>1 DEF AskOK, PolicyPage
  <2>2. CASE ask \in Ask("delete_policy", Policy, {None}, {FALSE})
    <3>1. ask.page = "delete_policy" /\ ask.row \in Policy /\ Answered(ask)
      BY <2>2, AskIs
    <3> QED  BY <3>1 DEF AskOK, PolicyPage
  <2>3. ASSUME NEW p \in {"add_rule", "edit_rule", "move_rule"}, ask \in Ask(p, Rule, {None}, BOOLEAN)
        PROVE  AskOK(ask)
    <3>1. ask.page = p /\ ask.row \in Rule /\ Answered(ask)
      BY <2>3, AskIs
    <3> QED  BY <3>1 DEF AskOK, RulePage
  <2>4. CASE ask \in Ask("delete_rule", Rule, {None}, {FALSE})
    <3>1. ask.page = "delete_rule" /\ ask.row \in Rule /\ Answered(ask)
      BY <2>4, AskIs
    <3> QED  BY <3>1 DEF AskOK, RulePage
  <2>5. ASSUME NEW p \in {"global_policies", "domain_policies"},
               ask \in Ask(p, Policy \cup {None}, {None}, {FALSE})
        PROVE  AskOK(ask)
    <3>1. ask.page = p /\ ask.row \in Policy \cup {None} /\ Answered(ask)
      BY <2>5, AskIs
    <3> QED  BY <3>1 DEF AskOK, UsePage, Used
  <2>6. \/ ask \in Ask("add_policy", Policy, Name, {FALSE}) \cup Ask("edit_policy", Policy, Name, BOOLEAN)
                        \cup Ask("clone_policy", Policy, Name, BOOLEAN)
        \/ ask \in Ask("delete_policy", Policy, {None}, {FALSE})
        \/ \E p \in {"add_rule", "edit_rule", "move_rule"} : ask \in Ask(p, Rule, {None}, BOOLEAN)
        \/ ask \in Ask("delete_rule", Rule, {None}, {FALSE})
        \/ \E p \in {"global_policies", "domain_policies"} :
                ask \in Ask(p, Policy \cup {None}, {None}, {FALSE})
    <3> DEFINE R(y) == Ask(y, Rule, {None}, BOOLEAN)
               U(y) == Ask(y, Policy \cup {None}, {None}, {FALSE})
    <3>1. \/ ask \in UNION {R(p) : p \in {"add_rule", "edit_rule", "move_rule"}}
          \/ ask \in UNION {U(p) : p \in {"global_policies", "domain_policies"}}
          \/ ask \in Ask("add_policy", Policy, Name, {FALSE}) \cup Ask("edit_policy", Policy, Name, BOOLEAN)
                        \cup Ask("clone_policy", Policy, Name, BOOLEAN)
          \/ ask \in Ask("delete_policy", Policy, {None}, {FALSE})
          \/ ask \in Ask("delete_rule", Rule, {None}, {FALSE})
      BY <1>1 DEF PolicyPages
    <3> HIDE DEF R, U
    <3>2. ask \in UNION {R(p) : p \in {"add_rule", "edit_rule", "move_rule"}}
                => \E y \in {"add_rule", "edit_rule", "move_rule"} : ask \in R(y)
      OBVIOUS
    <3>3. ask \in UNION {U(p) : p \in {"global_policies", "domain_policies"}}
                => \E y \in {"global_policies", "domain_policies"} : ask \in U(y)
      OBVIOUS
    <3> QED  BY <3>1, <3>2, <3>3, Zenon DEF R, U
  <2> QED  BY <2>1, <2>2, <2>3, <2>4, <2>5, <2>6
<1>2. ASSUME ask \in DkimPages
      PROVE  AskOK(ask)
  <2>1. CASE ask \in Ask("domain_dkim_generate", {None}, {None}, {FALSE})
    <3>1. ask.page = "domain_dkim_generate" /\ Answered(ask)
      BY <2>1, AskIs
    <3> QED  BY <3>1 DEF AskOK, OtherPage
  <2>2. CASE ask \in Ask("domain_dkim_enable", {None}, {None}, BOOLEAN)
    <3>1. ask.page = "domain_dkim_enable" /\ Answered(ask)
      BY <2>2, AskIs
    <3> QED  BY <3>1 DEF AskOK, OtherPage
  <2> QED  BY <1>2, <2>1, <2>2 DEF DkimPages
<1>3. ASSUME ask \in PlainPages(Plain("mta"))
      PROVE  AskOK(ask)
  <2>1. PlainPages(Plain("mta")) = UNION {Ask(p, Setting, {None}, {FALSE}) :
            p \in {"add_mta_setting", "edit_mta_setting", "del_mta_setting"}}
    <3>1. Plain("mta") # Plain("scores") /\ Plain("mta") # Plain("quickpeek")
      BY Files
    <3> QED  BY <3>1, Zenon DEF PlainPages
  <2>2. PICK p \in {"add_mta_setting", "edit_mta_setting", "del_mta_setting"} :
            ask \in Ask(p, Setting, {None}, {FALSE})
    BY <1>3, <2>1
  <2>3. ask.page = p /\ ask.row \in Setting /\ Answered(ask)
    BY <2>2, AskIs
  <2> QED  BY <2>3 DEF AskOK, SettingPage
<1>4. ASSUME ask \in PlainPages(Plain("scores"))
      PROVE  AskOK(ask)
  <2>1. PlainPages(Plain("scores")) = Ask("edit_local_scores", Setting, {None}, {FALSE})
    <3>1. Plain("mta") # Plain("scores") /\ Plain("scores") # Plain("quickpeek")
      BY Files
    <3> QED  BY <3>1, Zenon DEF PlainPages
  <2>2. ask \in Ask("edit_local_scores", Setting, {None}, {FALSE})
    BY <1>4, <2>1
  <2>3. ask.page = "edit_local_scores" /\ ask.row \in Setting /\ Answered(ask)
    BY <2>2, AskIs
  <2> QED  BY <2>3 DEF AskOK, SettingPage
<1>5. ASSUME ask \in PlainPages(Plain("quickpeek"))
      PROVE  AskOK(ask)
  <2>1. PlainPages(Plain("quickpeek")) =
            Ask("section", (SUBSET Setting) \ {{}}, {None}, {FALSE})
            \cup (UNION {Ask(p, {None}, {None}, BOOLEAN) : p \in {"new_server", "edit_server"}})
            \cup Ask("delete_server", {None}, {None}, {FALSE})
    <3>1. Plain("mta") # Plain("quickpeek") /\ Plain("scores") # Plain("quickpeek")
      BY Files
    <3> QED  BY <3>1, Zenon DEF PlainPages
  <2>2. CASE ask \in Ask("section", (SUBSET Setting) \ {{}}, {None}, {FALSE})
    <3>1. ask.page = "section" /\ ask.row \in (SUBSET Setting) \ {{}} /\ Answered(ask)
      BY <2>2, AskIs
    <3> QED  BY <3>1 DEF AskOK
  <2>3. ASSUME NEW p \in {"new_server", "edit_server"}, ask \in Ask(p, {None}, {None}, BOOLEAN)
        PROVE  AskOK(ask)
    <3>1. ask.page = p /\ Answered(ask)
      BY <2>3, AskIs
    <3> QED  BY <3>1 DEF AskOK, OtherPage
  <2>4. CASE ask \in Ask("delete_server", {None}, {None}, {FALSE})
    <3>1. ask.page = "delete_server" /\ Answered(ask)
      BY <2>4, AskIs
    <3> QED  BY <3>1 DEF AskOK, OtherPage
  <2>5. \/ ask \in Ask("section", (SUBSET Setting) \ {{}}, {None}, {FALSE})
        \/ \E p \in {"new_server", "edit_server"} : ask \in Ask(p, {None}, {None}, BOOLEAN)
        \/ ask \in Ask("delete_server", {None}, {None}, {FALSE})
    <3> DEFINE N(y) == Ask(y, {None}, {None}, BOOLEAN)
    <3>1. \/ ask \in UNION {N(p) : p \in {"new_server", "edit_server"}}
          \/ ask \in Ask("section", (SUBSET Setting) \ {{}}, {None}, {FALSE})
          \/ ask \in Ask("delete_server", {None}, {None}, {FALSE})
      BY <1>5, <2>1
    <3> HIDE DEF N
    <3>2. ask \in UNION {N(p) : p \in {"new_server", "edit_server"}}
                => \E y \in {"new_server", "edit_server"} : ask \in N(y)
      OBVIOUS
    <3> QED  BY <3>1, <3>2, Zenon DEF N
  <2> QED  BY <2>2, <2>3, <2>4, <2>5
<1>6. PICK f \in files : ask \in IF f = Dkim THEN DkimPages
           ELSE IF f \in {Plain(kind) : kind \in PlainKind} THEN PlainPages(f) ELSE PolicyPages
  BY DEF Asks
<1>7. CASE f \in {Plain(kind) : kind \in PlainKind}
  <2>1. f \in {Plain("mta"), Plain("scores"), Plain("quickpeek")} /\ f # Dkim
    BY <1>7, Files DEF PlainKind
  <2> QED  BY <1>3, <1>4, <1>5, <1>6, <1>7, <2>1
<1> QED  BY <1>1, <1>2, <1>6, <1>7

(* What is left of a script is of some page, whatever rows it loaded; what it  *)
(* commits fits the rows of this bound.                                       *)
LEMMA PageScripts ==
    ASSUME SettingsAssumption, NEW b \in Nat, Cardinality(Rule) <= b, NEW D \in Rows(b), NEW ask, AskOK(ask)
    PROVE  ScriptOK(ask.page, Script(ask, D), {}, b + 1)
<1> DEFINE x == ask.row
           n == ask.name
           on == ask.on
           p == ask.page
           s == Script(ask, D)
           c == b + 1
<1>0. on \in BOOLEAN /\ c \in Nat /\ Cardinality(Rule) <= c /\ Cardinality(Rule) \in Nat
  <2>1. Cardinality(Rule) \in Nat
    BY FS_CardinalityType DEF SettingsAssumption
  <2>2. on \in BOOLEAN
    BY Zenon DEF AskOK, Answered
  <2> QED  BY <2>1, <2>2
<1>a. ScriptOK(p, <<>>, {}, c)
  BY Nothing
<1>1. CASE p \in PolicyPage
  <2>0. x \in Policy /\ (p # "delete_policy" => n \in Name)
    BY <1>1 DEF AskOK, PolicyPage, RulePage, UsePage, SettingPage, OtherPage
  <2>1. CASE p = "add_policy"
    <3>1. s = settings_add_policy(x, n)
      BY <2>1, Zenon DEF Script
    <3> QED  BY <1>0, <2>0, <2>1, <3>1, AddPolicyScript DEF settings_add_policy
  <2>2. CASE p = "edit_policy"
    <3>1. s = settings_edit_policy(D, x, n, on)
      BY <2>2, Zenon DEF Script
    <3> QED  BY <1>a, <1>0, <2>0, <2>2, <3>1, UpdatePolicyScript DEF settings_edit_policy, Loaded
  <2>3. CASE p = "delete_policy"
    <3>1. s = settings_delete_policy(D, x)
      BY <2>3, Zenon DEF Script
    <3> QED  BY <1>a, <1>0, <2>0, <2>3, <3>1, DeletePolicyScript DEF settings_delete_policy, Loaded
  <2>4. CASE p = "clone_policy"
    <3>1. s = settings_clone_policy(x, n, on)
      BY <2>4, Zenon DEF Script
    <3> QED  BY <1>0, <2>0, <2>4, <3>1, ClonePolicyScript DEF settings_clone_policy
  <2> QED  BY <1>1, <2>1, <2>2, <2>3, <2>4 DEF PolicyPage
<1>2. CASE p \in RulePage
  <2>0. x \in Rule
    BY <1>2 DEF AskOK, PolicyPage, RulePage, UsePage, SettingPage, OtherPage
  <2>d. D \in Rows(c)
    <3>1. 0 .. b \subseteq 0 .. c
      OBVIOUS
    <3> QED  BY <3>1 DEF Rows, RuleRows
  <2>1. CASE p = "add_rule"
    <3>1. s = settings_add_rule(D, x, on)
      BY <2>1, Zenon DEF Script
    <3> QED  BY <1>a, <2>0, <2>1, <3>1, AddRuleScript DEF settings_add_rule, Loaded
  <2>2. CASE p = "edit_rule"
    <3>1. s = settings_edit_rule(D, x, on)
      BY <2>2, Zenon DEF Script
    <3> QED  BY <1>a, <1>0, <2>0, <2>2, <3>1, UpdateRuleScript DEF settings_edit_rule, Loaded
  <2>3. CASE p = "delete_rule"
    <3>1. s = settings_delete_rule(D, x)
      BY <2>3, Zenon DEF Script
    <3> QED  BY <1>a, <1>0, <2>0, <2>d, <2>3, <3>1, DeleteRuleScript DEF settings_delete_rule, Loaded
  <2>4. CASE p = "move_rule"
    <3>1. s = settings_move_rule(D, x, on)
      BY <2>4, Zenon DEF Script
    <3> QED  BY <1>a, <1>0, <2>0, <2>d, <2>4, <3>1, MoveRuleScript DEF settings_move_rule, Loaded
  <2> QED  BY <1>2, <2>1, <2>2, <2>3, <2>4 DEF RulePage
<1>3. CASE p \in UsePage
  <2>0. x \in Used
    BY <1>3 DEF AskOK, PolicyPage, RulePage, UsePage, SettingPage, OtherPage
  <2>1. CASE p = "global_policies"
    <3>1. s = global_policies(D, x)
      BY <2>1, Zenon DEF Script
    <3> QED  BY <1>a, <1>0, <2>0, <3>1, GlobalScript DEF global_policies
  <2>2. CASE p = "domain_policies"
    <3>1. s = domain_policies(D, x)
      BY <2>2, Zenon DEF Script
    <3> QED  BY <1>a, <1>0, <2>0, <3>1, DomainScript DEF domain_policies
  <2> QED  BY <1>3, <2>1, <2>2 DEF UsePage
<1>4. CASE p \in SettingPage
  <2>0. x \in Setting
    BY <1>4 DEF AskOK, PolicyPage, RulePage, UsePage, SettingPage, OtherPage
  <2>1. CASE p = "add_mta_setting"
    <3>1. s = add_mta_setting(x)
      BY <2>1, Zenon DEF Script
    <3> QED  BY <1>0, <2>0, <3>1, PlainScripts DEF add_mta_setting
  <2>2. CASE p = "edit_mta_setting"
    <3>1. s = edit_mta_setting(D, x)
      BY <2>2, Zenon DEF Script
    <3>2. (CHOOSE t \in Setting : t # x) \in Setting
      BY <2>0 DEF SettingsAssumption
    <3> QED  BY <1>a, <1>0, <2>0, <3>1, <3>2, PlainScripts DEF edit_mta_setting
  <2>3. CASE p = "del_mta_setting"
    <3>1. s = del_mta_setting(D, x)
      BY <2>3, Zenon DEF Script
    <3> QED  BY <1>a, <1>0, <2>0, <3>1, PlainScripts DEF del_mta_setting
  <2>4. CASE p = "edit_local_scores"
    <3>1. s = edit_local_scores(D, x)
      BY <2>4, Zenon DEF Script
    <3> QED  BY <1>0, <2>0, <3>1, PlainScripts DEF edit_local_scores
  <2> QED  BY <1>4, <2>1, <2>2, <2>3, <2>4 DEF SettingPage
<1>5. CASE p = "section"
  <2>1. x \in SUBSET Setting
    BY <1>5 DEF AskOK, PolicyPage, RulePage, UsePage, SettingPage, OtherPage
  <2>2. s = section(D, x)
    BY <1>5, Zenon DEF Script
  <2> QED  BY <1>0, <2>1, <2>2, SectionScript
<1>6. CASE p \in OtherPage
  <2> DEFINE state == IF on THEN "enabled" ELSE "disabled"
  <2>0. state \in Server
    BY DEF Server
  <2>1. CASE p = "domain_dkim_generate"
    <3>1. s = domain_dkim_generate
      BY <2>1, Zenon DEF Script
    <3> QED  BY <1>0, <2>1, <3>1, DkimScripts
  <2>2. CASE p = "domain_dkim_enable"
    <3>1. s = domain_dkim_enable(D, on)
      BY <2>2, Zenon DEF Script
    <3> QED  BY <1>0, <2>2, <3>1, DkimScripts
  <2>3. CASE p = "new_server"
    <3>1. s = new_server(state)
      BY <2>3, Zenon DEF Script
    <3> QED  BY <1>0, <2>0, <2>3, <3>1, ServerScripts
  <2>4. CASE p = "edit_server"
    <3>1. s = edit_server(D, state)
      BY <2>4, Zenon DEF Script
    <3> QED  BY <1>0, <2>0, <2>4, <3>1, ServerScripts
  <2>5. CASE p = "delete_server"
    <3>1. s = delete_server(D)
      BY <2>5, Zenon DEF Script
    <3> QED  BY <1>0, <2>0, <2>5, <3>1, ServerScripts
  <2> QED  BY <1>6, <2>1, <2>2, <2>3, <2>4, <2>5 DEF OtherPage
<1> QED  BY <1>1, <1>2, <1>3, <1>4, <1>5, <1>6 DEF AskOK

-----------------------------------------------------------------------------
(* What a query puts in front of the rest of a script                        *)

(* The rows of the domain that name a policy, and a commit for each.          *)
LEMMA ClearedScript ==
    ASSUME SettingsAssumption, NEW p, NEW D, NEW q, NEW l, Call("ruleset", None, None) \in l,
           NEW b \in Nat, NEW s, s = [i \in DOMAIN DomainRowsOf(D, q) |-> s[i]],
           \A i \in DOMAIN DomainRowsOf(D, q) :
                /\ s[i].kind = "commit" /\ s[i].change.do = "domain"
                /\ s[i].change.row = DomainRowsOf(D, q)[i] /\ s[i].change.to = None
    PROVE  ScriptOK(p, s, l, b)
<1> DEFINE own == {g \in DomainRow : D.domain[g] = q}
           m == Cardinality(own)
           rows == DomainRowsOf(D, q)
<1>1. IsFiniteSet(own)
  BY FS_Subset DEF SettingsAssumption
<1>2. m \in Nat /\ SetToSeq(own) \in [1 .. m -> own]
  BY <1>1, SequenceOf
<1>3. rows \in [1 .. m -> own]
  BY <1>2, Zenon DEF DomainRowsOf
<1> HIDE DEF rows, m
<1>4. DOMAIN rows = 1 .. m
  BY <1>3
<1>5. ASSUME NEW i \in 1 .. m
      PROVE  StepOK(p, s[i], l, b)
  <2>1. rows[i] \in DomainRow
    BY <1>3
  <2>2. /\ s[i].kind = "commit" /\ s[i].change.do = "domain"
        /\ s[i].change.row = rows[i] /\ s[i].change.to = None
    BY <1>4 DEF rows
  <2> QED  BY <2>1, <2>2, UseCommit DEF UseChange, Used
<1> DEFINE T == {s[i] : i \in 1 .. m}
<1>6. s \in Seq(T) /\ DOMAIN s = 1 .. m
  <2>1. s = [i \in 1 .. m |-> s[i]]
    BY <1>4 DEF rows
  <2>2. s \in [1 .. m -> T] /\ DOMAIN s = 1 .. m
    BY <2>1
  <2> HIDE DEF T
  <2> QED  BY <1>2, <2>2
<1> HIDE DEF T
<1> QED  BY <1>5, <1>6, Uniform

LEMMA GlobalCleared ==
    ASSUME NEW p, NEW q, NEW l, NEW b \in Nat, Call("ruleset", None, None) \in l \/ p = "delete_policy"
    PROVE  ScriptOK(p, <<CommitTo("global", q, None)>>, l, b)
<1> DEFINE x == CommitTo("global", q, None)
<1>1. x.kind = "commit" /\ x.change.do = "global" /\ x.change.to = None
  BY CommitIs
<1> HIDE DEF x
<1>2. StepOK(p, x, l, b)
  BY <1>1, UseCommit DEF UseChange, Used
<1>3. ScriptOK(p, <<x>>, l, b)
  BY <1>2, One
<1> QED  BY <1>3 DEF x

LEMMA ThenScript ==
    ASSUME SettingsAssumption, NEW p, NEW call, NEW l, ReadOK(p, call, l), NEW D, NEW b \in Nat
    PROVE  ScriptOK(p, Then(call, D), l, b)
<1> DEFINE q == call.policy
           rows == DomainRowsOf(D, q)
           s == Then(call, D)
<1>1. CASE call.what = "setting"
  <2>1. s = IF D.global = q THEN <<CommitTo("global", q, None)>> ELSE <<>>
    BY <1>1, Zenon DEF Then
  <2>2. Call("ruleset", None, None) \in l
    BY <1>1 DEF ReadOK
  <2> QED  BY <2>1, <2>2, GlobalCleared, Nothing
<1>2. CASE call.what = "domain"
  <2>1. s = [i \in DOMAIN rows |-> CommitTo("domain", rows[i], None)]
    BY <1>2, Zenon DEF Then
  <2>2. Call("ruleset", None, None) \in l
    BY <1>2 DEF ReadOK
  <2> HIDE DEF s, rows
  <2>3. ASSUME NEW i \in DOMAIN rows
        PROVE  /\ s[i].kind = "commit" /\ s[i].change.do = "domain"
               /\ s[i].change.row = rows[i] /\ s[i].change.to = None
    <3>1. s[i] = CommitTo("domain", rows[i], None)
      BY <2>1
    <3> QED  BY <3>1, CommitIs
  <2>4. s = [i \in DOMAIN rows |-> s[i]]
    BY <2>1
  <2>5. ScriptOK(p, s, l, b)
    BY <2>2, <2>3, <2>4, ClearedScript DEF rows
  <2> QED  BY <2>5 DEF s
<1>3. CASE call.what = "delete"
  <2> DEFINE clears == D.global = q
             ruleset == backend_create_content_ruleset
             cleared == [i \in DOMAIN rows |->
                            [CommitTo("domain", rows[i], None) EXCEPT !.change.clears = (clears /\ i = 1)]]
             last == IF clears /\ rows = <<>> THEN <<CommitTo("global", q, None)>> ELSE <<>>
  <2>1. s = (cleared \o <<ruleset>>) \o last
    BY <1>3, Zenon DEF Then
  <2>2. p = "delete_policy"
    BY <1>3 DEF ReadOK
  <2>3. ScriptOK(p, last, l, b)
    BY <2>2, GlobalCleared, Nothing
  <2>4. /\ ScriptOK(p, <<ruleset>>, Published(last) \cup l, b)
        /\ Call("ruleset", None, None) \in Published(<<ruleset>>)
    BY RulesetLast
  <2>5. ASSUME NEW i \in DOMAIN rows
        PROVE  /\ cleared[i].kind = "commit" /\ cleared[i].change.do = "domain"
               /\ cleared[i].change.row = rows[i] /\ cleared[i].change.to = None
    <3>1. cleared[i] = [CommitTo("domain", rows[i], None) EXCEPT !.change.clears = (clears /\ i = 1)]
      OBVIOUS
    <3> HIDE DEF cleared, clears, rows
    <3> QED  BY <3>1, CommitIs
  <2>6. cleared = [i \in DOMAIN rows |-> cleared[i]]
    OBVIOUS
  <2> HIDE DEF cleared, last, ruleset, s
  <2>7. ScriptOK(p, cleared, Published(<<ruleset>>) \cup (Published(last) \cup l), b)
    BY <2>4, <2>5, <2>6, ClearedScript
  <2>8. ScriptOK(p, cleared \o <<ruleset>>, Published(last) \cup l, b)
    BY <2>4, <2>7, Joined
  <2>9. ScriptOK(p, (cleared \o <<ruleset>>) \o last, l, b)
    BY <2>3, <2>8, Joined
  <2> QED  BY <2>1, <2>9 DEF s
<1> QED  BY <1>1, <1>2, <1>3 DEF ReadOK

-----------------------------------------------------------------------------
(* The invariant                                                             *)

(* A file that now says x is put right by t; by a task these calls publish.   *)
Mends(t, f, x, D) == Target(t) = f /\ Right(f, Made(t, D, x), D)
Awaits(calls, f, x, D) == \E call \in calls : \E t \in Wanted(call, D) : Mends(t, f, x, D)
Pending(f) ==
    \/ f \in gaps
    \/ \E t \in queue : Mends(t, f, disk[f], db)
    \/ \E r \in Request : Awaits(Published(todo[r]), f, disk[f], db)

(* What a rule's order is at most: a request adds one rule.                   *)
Bound == Cardinality(Rule) + Cardinality(asked)

SettingsInv ==
    /\ asked \subseteq Request /\ \A r \in Request \ asked : todo[r] = <<>>
    /\ scope \subseteq SettingsFile /\ gaps \subseteq scope /\ \A t \in queue : Target(t) \in scope
    /\ DOMAIN todo = Request /\ DOMAIN page = Request /\ DOMAIN disk = scope
    /\ db \in Rows(Bound) /\ Sound(db)
    /\ \A r \in Request : ScriptOK(page[r], todo[r], {}, Bound)
    /\ \A f \in scope : Right(f, disk[f], db) \/ Pending(f)

LEMMA BoundIs ==
    ASSUME SettingsAssumption, asked \subseteq Request
    PROVE  /\ Bound \in Nat /\ Cardinality(Rule) \in Nat /\ Cardinality(Rule) <= Bound /\ Bound <= MaxOrder
           /\ MaxOrder \in Nat
           /\ \A r \in Request \ asked :
                Cardinality(Rule) + Cardinality(asked \cup {r}) = Bound + 1
<1>1. /\ IsFiniteSet(Rule) /\ IsFiniteSet(Request) /\ IsFiniteSet(asked)
      /\ Cardinality(asked) <= Cardinality(Request)
  BY FS_Subset DEF SettingsAssumption
<1>2. Cardinality(Rule) \in Nat /\ Cardinality(Request) \in Nat /\ Cardinality(asked) \in Nat
  BY <1>1, FS_CardinalityType
<1>3. \A r \in Request \ asked : Cardinality(asked \cup {r}) = Cardinality(asked) + 1
  BY <1>1, FS_AddElement
<1> QED  BY <1>1, <1>2, <1>3 DEF Bound, MaxOrder

LEMMA RowsGrow ==
    ASSUME NEW b \in Nat, NEW c \in Nat, b <= c
    PROVE  Rows(b) \subseteq Rows(c)
<1>1. 0 .. b \subseteq 0 .. c
  OBVIOUS
<1>2. RuleRows(b) \subseteq RuleRows(c)
  BY <1>1 DEF RuleRows
<1> QED  BY <1>2 DEF Rows

LEMMA PublishedOK ==
    ASSUME NEW p, NEW s, NEW l, NEW b, ScriptOK(p, s, l, b), NEW call \in Published(s)
    PROVE  CallOK(call)
<1>1. PICK i \in DOMAIN s : s[i].kind = "publish" /\ call = s[i].call
  BY DEF Published, Later
<1> QED  BY <1>1 DEF ScriptOK, StepOK

LEMMA PublishedNothing == Published(<<>>) = {}
  BY DEF Published, Later

LEMMA CoveredAwaits ==
    ASSUME NEW f, NEW calls, NEW D, Covered(f, calls, D), NEW x
    PROVE  Awaits(calls, f, x, D)
BY DEF Covered, Awaits, Makes, Mends

(* The definitions of Backend in these terms                                  *)
LEMMA MendedBy ==
    ASSUME NEW tasks, NEW f, NEW D
    PROVE  f \in Mended(tasks, D) <=> \E t \in tasks : Mends(t, f, disk[f], D)
BY MendedIs DEF Mends

LEMMA MendedComing ==
    ASSUME NEW p, NEW s, NEW l, NEW b, ScriptOK(p, s, l, b), NEW f \in scope, NEW D
    PROVE  f \in Mended(Coming(s, D), D) <=> Awaits(Published(s), f, disk[f], D)
<1>1. PICK S : s \in Seq(S)
  BY DEF ScriptOK
<1>2. \A t : t \in Coming(s, D) <=> Target(t) \in scope /\ \E call \in Published(s) : t \in Wanted(call, D)
  BY <1>1, ComingIs
<1>3. f \in Mended(Coming(s, D), D) <=> \E t \in Coming(s, D) : Mends(t, f, disk[f], D)
  BY MendedBy
<1> QED  BY <1>2, <1>3 DEF Awaits, Mends

LEMMA StaleSettles ==
    ASSUME SettingsInv
    PROVE  StaleIsPending
<1> SUFFICES ASSUME NEW f \in Stale(db)
             PROVE  \/ f \in gaps \/ f \in Mended(queue, db)
                    \/ \E r \in Request : f \in Mended(Coming(todo[r], db), db)
  BY DEF StaleIsPending
<1>1. f \in scope /\ Pending(f)
  BY DEF Stale, SettingsInv
<1>2. \A r \in Request : Awaits(Published(todo[r]), f, disk[f], db) => f \in Mended(Coming(todo[r], db), db)
  BY <1>1, MendedComing DEF SettingsInv
<1> QED  BY <1>1, <1>2, MendedBy DEF Pending

LEMMA SettingsTypes ==
    ASSUME SettingsAssumption, SettingsInv
    PROVE  TypeOK
<1> USE DEF SettingsInv
<1>1. \A k \in Rule : db.rule[k].there => db.policy[Of[k]].there /\ db.rule[k].order \in 0 .. MaxOrder
  <2>1. \A k \in Rule : db.rule[k].order \in 0 .. Bound
    BY DEF Rows, RuleRows
  <2>2. 0 .. Bound \subseteq 0 .. MaxOrder
    BY BoundIs
  <2> QED  BY <2>1, <2>2 DEF Sound
<1>2. ASSUME NEW n \in Name
      PROVE  Cardinality(Named(db, n)) <= 1
  <2>1. \A p, q \in Named(db, n) : p = q
    BY PolicyIs DEF Sound, Unique
  <2>2. CASE Named(db, n) = {}
    BY <2>2, FS_EmptySet
  <2>3. CASE Named(db, n) # {}
    <3>1. PICK p \in Named(db, n) : TRUE
      BY <2>3
    <3>2. Named(db, n) = {p}
      BY <2>1, <3>1
    <3>3. Cardinality(Named(db, n)) = 1
      BY <3>2, FS_Singleton, Zenon
    <3> QED  BY <3>3
  <2> QED  BY <2>2, <2>3
<1>3. db.global \in Policy \cup {None} /\ \A x \in DomainRow : db.domain[x] \in Policy \cup {None, Absent}
  BY DEF Rows, Used
<1>4. \A p \in Policy : db.policy[p].on => db.policy[p].there
  BY DEF Sound
<1> QED  BY <1>1, <1>2, <1>3, <1>4 DEF TypeOK

-----------------------------------------------------------------------------
(* The invariant holds at first                                              *)

LEMMA FirstRowsAre ==
    ASSUME SettingsAssumption, NEW D \in FirstRows
    PROVE  /\ D \in Rows(Cardinality(Rule)) /\ Unique(D) /\ D.server = "enabled"
           /\ \A p \in Policy : D.policy[p].on => D.policy[p].there
<1> DEFINE b == Cardinality(Rule)
           m == SetToSeq(Rule)
<1>1. PICK q \in Policy, n \in Name, on \in BOOLEAN, ks \in SUBSET Rule,
           g \in Policy \cup {None}, d \in Policy \cup {None, Absent} : D = First(q, n, on, ks, g, d)
  BY DEF FirstRows
<1>2. b \in Nat /\ DOMAIN m = 1 .. b /\ \A k \in Rule : \E i \in 1 .. b : m[i] = k
  BY SequenceOf DEF SettingsAssumption
<1>3. \A k \in Rule : (CHOOSE i \in DOMAIN m : m[i] = k) \in 0 .. b
  BY <1>2
<1> DEFINE policy == [p \in Policy |-> IF p = q THEN PolicyRow(n, on)
                                       ELSE [there |-> FALSE, on |-> FALSE, name |-> n]]
           rule == [k \in Rule |-> [RuleRow(TRUE, CHOOSE i \in DOMAIN m : m[i] = k) EXCEPT !.there = (k \in ks)]]
           domain == [x \in DomainRow |-> IF x = CHOOSE y \in DomainRow : TRUE THEN d ELSE Absent]
           dkim == [there |-> FALSE, on |-> FALSE, key |-> 0]
<1> HIDE DEF m
<1>4. policy \in PolicyRows
  BY DEF PolicyRow, PolicyRows
<1>5. rule \in RuleRows(b)
  <2>1. ASSUME NEW k \in Rule
        PROVE  rule[k] \in [there : BOOLEAN, on : BOOLEAN, order : 0 .. b]
    <3> DEFINE o == CHOOSE i \in DOMAIN m : m[i] = k
    <3>1. rule[k] = [there |-> k \in ks, on |-> TRUE, order |-> o]
      BY DEF RuleRow
    <3>2. o \in 0 .. b
      BY <1>3
    <3> HIDE DEF o, rule
    <3>3. (k \in ks) \in BOOLEAN
      OBVIOUS
    <3> QED  BY <3>1, <3>2, <3>3
  <2> QED  BY <2>1 DEF RuleRows
<1>6. domain \in [DomainRow -> Used \cup {Absent}] /\ dkim \in DkimRow
  BY DEF DkimRow, Used
<1>7. /\ \A p \in Policy : policy[p].on => policy[p].there
      /\ \A p \in Policy : policy[p].there => p = q
  BY DEF PolicyRow
<1> HIDE DEF policy, rule, domain, dkim, b
<1>8. D = [policy |-> policy, rule |-> rule, global |-> g, domain |-> domain, dkim |-> dkim,
           mta |-> {}, scores |-> {}, quickpeek |-> {}, server |-> "enabled"]
  BY <1>1, Zenon DEF First, policy, rule, domain, dkim, m
<1>9. /\ D.policy = policy /\ D.rule = rule /\ D.global = g /\ D.domain = domain /\ D.dkim = dkim
      /\ D.mta = {} /\ D.scores = {} /\ D.quickpeek = {} /\ D.server = "enabled"
  BY <1>8
<1>10. D \in Rows(b)
  BY <1>4, <1>5, <1>6, <1>8 DEF Rows, Server, Used
<1>11. Unique(D)
  BY <1>7, <1>9, <1>10, PolicyIs DEF Unique
<1> QED  BY <1>7, <1>9, <1>10, <1>11 DEF b

LEMMA InitHolds == ASSUME SettingsAssumption, Init PROVE SettingsInv
<1>1. PICK files \in Followed, D \in FirstRows :
        /\ \A p \in Policy : p \in {D.global} \cup {D.domain[x] : x \in DomainRow} => D.policy[p].on
        /\ \A p \in Policy : D.policy[p].on => get_policy_rules(D, p) # {}
        /\ \A k \in Here(D.rule) : D.policy[Of[k]].there
        /\ InitWith(D, files, [f \in files |-> IF Read_(f, D) THEN Said(f, D) ELSE Absent])
  BY DEF Init
<1>2. /\ db = D /\ scope = files /\ disk = [f \in files |-> IF Read_(f, D) THEN Said(f, D) ELSE Absent]
      /\ todo = [r \in Request |-> <<>>] /\ page = [r \in Request |-> "none"]
      /\ asked = {} /\ queue = {} /\ gaps = {}
  BY <1>1 DEF InitWith
<1>3. Bound = Cardinality(Rule) /\ Bound \in Nat
  BY <1>2, FS_EmptySet, FS_CardinalityType DEF Bound, SettingsAssumption
<1>4. /\ D \in Rows(Bound) /\ Unique(D) /\ D.server = "enabled"
      /\ \A p \in Policy : D.policy[p].on => D.policy[p].there
  BY <1>3, FirstRowsAre
<1>5. Sound(D)
  BY <1>1, <1>4, PolicyIs DEF Sound
<1>6. Dangling(D) = {}
  <2>1. ASSUME NEW p \in {D.global} \cup {D.domain[g] : g \in DomainRow}, p \notin {None, Absent}
        PROVE  p \in Here(D.policy)
    <3>1. p \in Policy
      BY <1>4, <2>1 DEF Rows, Used
    <3> QED  BY <1>1, <1>4, <2>1, <3>1, PolicyIs
  <2> QED  BY <2>1 DEF Dangling
<1>7. \A f \in scope : Right(f, disk[f], db)
  BY <1>2, <1>6 DEF Right
<1>8. files \subseteq SettingsFile
  BY DEF SettingsAssumption
<1>9. \A r \in Request : ScriptOK(page[r], todo[r], {}, Bound)
  BY <1>2, Nothing
<1> QED  BY <1>2, <1>4, <1>5, <1>7, <1>8, <1>9 DEF SettingsInv

-----------------------------------------------------------------------------
(* Each action keeps the invariant                                           *)

(* A request ends where it is: what it was about to put right is a gap.       *)
LEMMA EndsKeep ==
    ASSUME SettingsInv, NEW r \in Request, todo[r] # <<>>, gaps' = gaps \cup Abandoned(r),
           todo' = [todo EXCEPT ![r] = <<>>], UNCHANGED <<db, page, asked, scope, queue, disk>>
    PROVE  SettingsInv'
<1> USE DEF SettingsInv
<1>1. Bound' = Bound
  BY DEF Bound
<1>2. /\ \A q \in Request : q # r => todo'[q] = todo[q]
      /\ todo'[r] = <<>> /\ DOMAIN todo' = Request
  OBVIOUS
<1>3. \A q \in Request : ScriptOK(page'[q], todo'[q], {}, Bound)
  BY <1>2, Nothing
<1>4. \A f \in scope : ~ Right(f, disk[f], db) /\ Awaits(Published(todo[r]), f, disk[f], db) => f \in gaps'
  BY MendedComing DEF Abandoned, Stale
<1>5. gaps \subseteq gaps' /\ gaps' \subseteq scope
  BY DEF Abandoned, Stale
<1>6. ASSUME NEW f \in scope, ~ Right(f, disk[f], db)
      PROVE  Pending(f)'
  <2>1. Pending(f)
    BY <1>6
  <2>2. CASE f \in gaps \/ \E t \in queue : Mends(t, f, disk[f], db)
    BY <1>5, <2>2 DEF Pending
  <2>3. ASSUME NEW q \in Request, Awaits(Published(todo[q]), f, disk[f], db)
        PROVE  Pending(f)'
    <3>1. CASE q = r
      BY <1>4, <1>6, <2>3, <3>1 DEF Pending
    <3>2. CASE q # r
      <4>1. Awaits(Published(todo'[q]), f, disk'[f], db')
        BY <1>2, <2>3, <3>2
      <4> QED  BY <4>1 DEF Pending
    <3> QED  BY <3>1, <3>2
  <2> QED  BY <2>1, <2>2, <2>3 DEF Pending
<1> QED  BY <1>1, <1>2, <1>3, <1>5, <1>6

LEMMA BeginKeeps ==
    ASSUME SettingsAssumption, SettingsInv, NEW r \in Request, Begin(r)
    PROVE  SettingsInv'
<1> USE DEF SettingsInv
<1>1. PICK ask \in Asks(scope) :
        /\ page' = [page EXCEPT ![r] = ask.page]
        /\ todo' = [todo EXCEPT ![r] = Script(ask, db)]
  BY DEF Begin
<1>2. r \notin asked /\ asked' = asked \cup {r} /\ UNCHANGED <<db, scope, queue, disk, gaps>>
  BY DEF Begin, node
<1>3. /\ \A q \in Request : q # r => todo'[q] = todo[q] /\ page'[q] = page[q]
      /\ todo'[r] = Script(ask, db) /\ page'[r] = ask.page
      /\ DOMAIN todo' = Request /\ DOMAIN page' = Request
  BY <1>1
<1>4. Bound' = Bound + 1 /\ Bound \in Nat /\ Bound + 1 \in Nat /\ Bound <= Bound + 1 /\ Cardinality(Rule) <= Bound
  BY <1>2, BoundIs DEF Bound
<1>5. ScriptOK(page'[r], todo'[r], {}, Bound')
  <2>1. AskOK(ask)
    BY AsksAre
  <2>2. ScriptOK(ask.page, Script(ask, db), {}, Bound + 1)
    BY <1>4, <2>1, PageScripts
  <2> QED  BY <1>3, <1>4, <2>2
<1>6. \A q \in Request : q # r => ScriptOK(page'[q], todo'[q], {}, Bound')
  <2>1. \A q \in Request : ScriptOK(page[q], todo[q], {}, Bound)
    OBVIOUS
  <2> HIDE DEF SettingsInv
  <2> QED  BY <1>3, <1>4, <2>1, ScriptGrows
<1>7. db' \in Rows(Bound')
  BY <1>2, <1>4, RowsGrow
<1>8. todo[r] = <<>>
  BY <1>2
<1>9. ASSUME NEW f \in scope, ~ Right(f, disk[f], db)
      PROVE  Pending(f)'
  <2>1. Pending(f)
    BY <1>9
  <2>2. ASSUME NEW q \in Request, Awaits(Published(todo[q]), f, disk[f], db)
        PROVE  Pending(f)'
    <3>1. q # r
      BY <1>8, <2>2, PublishedNothing DEF Awaits
    <3>2. Awaits(Published(todo'[q]), f, disk'[f], db')
      BY <1>2, <1>3, <2>2, <3>1
    <3> QED  BY <3>2 DEF Pending
  <2> QED  BY <1>2, <2>1, <2>2 DEF Pending
<1>10. asked' \subseteq Request /\ \A q \in Request \ asked' : todo'[q] = <<>>
  BY <1>2, <1>3
<1>11. \A f \in scope' : Right(f, disk'[f], db') \/ Pending(f)'
  BY <1>2, <1>9
<1> QED  BY <1>2, <1>3, <1>5, <1>6, <1>7, <1>10, <1>11

LEMMA ReadKeeps ==
    ASSUME SettingsAssumption, SettingsInv, NEW r \in Request, ReadRows(r)
    PROVE  SettingsInv'
<1> USE DEF SettingsInv
<1> DEFINE s == todo[r]
           more == Then(Head(s).call, db)
<1>1. /\ s # <<>> /\ Head(s).kind = "read"
      /\ todo' = [todo EXCEPT ![r] = Then(Head(@).call, db) \o Tail(@)]
      /\ UNCHANGED <<db, page, asked, scope, queue, disk, gaps>>
  BY DEF ReadRows, Next_, node
<1>2. /\ \A q \in Request : q # r => todo'[q] = todo[q]
      /\ todo'[r] = more \o Tail(s) /\ DOMAIN todo' = Request
  BY <1>1
<1>3. Bound' = Bound /\ Bound \in Nat
  BY <1>1, BoundIs DEF Bound
<1>4. ScriptOK(page[r], s, {}, Bound)
  OBVIOUS
<1>5. /\ ScriptOK(page[r], Tail(s), {}, Bound)
      /\ StepOK(page[r], Head(s), Published(Tail(s)) \cup {}, Bound)
      /\ Published(s) = Published(Tail(s))
  <2> HIDE DEF SettingsInv, s
  <2> QED  BY <1>1, <1>3, <1>4, TailOK
<1>6. ReadOK(page[r], Head(s).call, Published(Tail(s)) \cup {})
  BY <1>1, <1>5 DEF StepOK
<1>7. ScriptOK(page[r], more, Published(Tail(s)) \cup {}, Bound)
  BY <1>3, <1>6, ThenScript
<1> HIDE DEF more, s
<1>8. /\ ScriptOK(page[r], more \o Tail(s), {}, Bound)
      /\ Published(Tail(s)) \subseteq Published(more \o Tail(s))
  BY <1>3, <1>5, <1>7, Joined
<1>9. \A q \in Request : ScriptOK(page'[q], todo'[q], {}, Bound)
  BY <1>1, <1>2, <1>8
<1>10. \A q \in Request : Published(todo[q]) \subseteq Published(todo'[q])
  BY <1>2, <1>5, <1>8 DEF s
<1>11. ASSUME NEW f \in scope, ~ Right(f, disk[f], db)
       PROVE  Pending(f)'
  <2>1. Pending(f)
    BY <1>11
  <2>2. ASSUME NEW q \in Request, Awaits(Published(todo[q]), f, disk[f], db)
        PROVE  Pending(f)'
    <3>1. Awaits(Published(todo'[q]), f, disk'[f], db')
      BY <1>1, <1>10, <2>2 DEF Awaits
    <3> QED  BY <3>1 DEF Pending
  <2> QED  BY <1>1, <2>1, <2>2 DEF Pending
<1>12. \A q \in Request \ asked : todo'[q] = <<>>
  BY <1>1, <1>2 DEF s
<1> QED  BY <1>1, <1>2, <1>3, <1>9, <1>11, <1>12

(* What was about to put a file right still is, where its rows did not change.*)
LEMMA MendsAfter ==
    ASSUME NEW b, NEW D \in Rows(b), NEW E \in Rows(b), Sound(D), Sound(E), NEW f, Fixed(f, D, E),
           NEW x, ~ Right(f, x, D)
    PROVE  /\ \A t : Mends(t, f, x, D) => Mends(t, f, x, E)
           /\ \A p, s, l : ScriptOK(p, s, l, b) /\ Awaits(Published(s), f, x, D) => Awaits(Published(s), f, x, E)
<1>1. ASSUME NEW t, Mends(t, f, x, D)
      PROVE  Mends(t, f, x, E)
  <2>1. Target(t) = f /\ Right(Target(t), Made(t, D, x), D)
    BY <1>1 DEF Mends
  <2>2. Right(Target(t), Made(t, E, x), E)
    BY <2>1, MendsStill
  <2> QED  BY <2>1, <2>2 DEF Mends
<1>2. ASSUME NEW p, NEW s, NEW l, ScriptOK(p, s, l, b), Awaits(Published(s), f, x, D)
      PROVE  Awaits(Published(s), f, x, E)
  <2>1. PICK call \in Published(s) : \E t \in Wanted(call, D) : Mends(t, f, x, D)
    BY <1>2 DEF Awaits
  <2>2. PICK t \in Wanted(call, D) : Mends(t, f, x, D)
    BY <2>1
  <2>3. call.do \in {"make", "remove", "ruleset", "save", "delete"} \cup PlainKind
    BY <1>2, PublishedOK DEF CallOK
  <2>4. Target(t) = f
    BY <2>2 DEF Mends
  <2>5. t \in Wanted(call, E)
    BY <2>3, <2>4, WantedStill
  <2> QED  BY <1>1, <2>2, <2>5 DEF Awaits
<1> QED  BY <1>1, <1>2

LEMMA CommitKeeps ==
    ASSUME SettingsAssumption, SettingsInv, NEW r \in Request, CommitRow(r)
    PROVE  SettingsInv'
<1> USE DEF SettingsInv
<1> DEFINE s == todo[r]
           c == Head(s).change
           p == page[r]
           later == Published(Tail(s)) \cup {}
<1>1. /\ s # <<>> /\ Head(s).kind = "commit" /\ ~ Refused(c, db) /\ db' = Apply(c, db)
      /\ gaps' = gaps \cup ({f \in scope : ~ Right(f, disk[f], db')}
                                \cap (Silenced(r, db, db') \cup Leaves(p, c, db)))
      /\ todo' = [todo EXCEPT ![r] = Tail(@)]
      /\ UNCHANGED <<page, asked, scope, queue, disk>>
  BY DEF CommitRow, Next_, node, Stale
<1>2. /\ \A q \in Request : q # r => todo'[q] = todo[q]
      /\ todo'[r] = Tail(s) /\ DOMAIN todo' = Request
  BY <1>1
<1>3. Bound' = Bound /\ Bound \in Nat
  BY <1>1, BoundIs DEF Bound
<1>4. ScriptOK(p, s, {}, Bound)
  OBVIOUS
<1>5. /\ ScriptOK(p, Tail(s), {}, Bound)
      /\ StepOK(p, Head(s), later, Bound)
      /\ Published(s) = Published(Tail(s))
  <2> HIDE DEF SettingsInv, s
  <2> QED  BY <1>1, <1>3, <1>4, TailOK
<1>6. ChangeOK(c, Bound) /\ Promised(p, c, later)
  BY <1>1, <1>5 DEF StepOK
<1>7. db \in Rows(Bound) /\ Sound(db)
  OBVIOUS
<1> HIDE DEF c, s
<1>8. db' \in Rows(Bound) /\ Sound(db')
  BY <1>1, <1>3, <1>6, <1>7, SoundKept
<1>9. \A q \in Request : ScriptOK(page[q], todo'[q], {}, Bound)
  BY <1>2, <1>5
<1>10. \A q \in Request : Published(todo'[q]) = Published(todo[q])
  BY <1>2, <1>5 DEF s
<1>11. ASSUME NEW f \in scope, ~ Right(f, disk[f], db'), f \notin gaps'
       PROVE  Pending(f)'
  <2>1. f \notin gaps /\ f \notin Leaves(p, c, db)
    BY <1>1, <1>11
  <2>2. f \in SettingsFile /\ Read_(f, db')
    BY <1>11 DEF Right
  <2>3. ~ Right(f, disk[f], db) =>
            (\E t \in queue : Mends(t, f, disk[f], db))
            \/ \E q \in Request : Awaits(Published(todo[q]), f, disk[f], db)
    BY <2>1 DEF Pending
  <2>4. f = Ruleset => Dangling(db) = {}
    <3> SUFFICES ASSUME f = Ruleset, Dangling(db) # {}
                 PROVE  FALSE
      OBVIOUS
    <3>1. \A x : ~ Right(f, x, db)
      BY RightOthers
    <3> QED  BY <2>3, <3>1 DEF Mends, Awaits
  <2>5. Fixed(f, db, db') \/ Covered(f, later, db')
    <3> HIDE DEF later, SettingsInv
    <3> QED  BY <1>1, <1>3, <1>6, <1>7, <2>1, <2>2, <2>4, Covers
  <2>6. CASE Covered(f, later, db')
    <3>1. Awaits(Published(Tail(s)) \cup {}, f, disk[f], db')
      BY <2>6, CoveredAwaits
    <3>2. Awaits(Published(todo'[r]), f, disk'[f], db')
      BY <1>1, <1>2, <3>1
    <3> QED  BY <3>2 DEF Pending
  <2>7. CASE Fixed(f, db, db')
    <3>1. ~ Right(f, disk[f], db)
      BY <1>7, <1>8, <1>11, <2>7, RightStill
    <3>2. \A t : Mends(t, f, disk[f], db) => Mends(t, f, disk[f], db')
      BY <1>7, <1>8, <2>7, <3>1, MendsAfter
    <3>3. \A q \in Request : Awaits(Published(todo[q]), f, disk[f], db) => Awaits(Published(todo[q]), f, disk[f], db')
      <4>1. \A q \in Request : ScriptOK(page[q], todo[q], {}, Bound)
        OBVIOUS
      <4> HIDE DEF SettingsInv
      <4> QED  BY <1>7, <1>8, <2>7, <3>1, <4>1, MendsAfter
    <3>4. \/ \E t \in queue' : Mends(t, f, disk'[f], db')
          \/ \E q \in Request : Awaits(Published(todo'[q]), f, disk'[f], db')
      BY <1>1, <1>10, <2>3, <3>1, <3>2, <3>3
    <3> QED  BY <3>4 DEF Pending
  <2> QED  BY <2>5, <2>6, <2>7
<1>12. gaps' \subseteq scope
  BY <1>1
<1>13. \A q \in Request \ asked : todo'[q] = <<>>
  BY <1>1, <1>2 DEF s
<1>14. \A f \in scope' : Right(f, disk'[f], db') \/ Pending(f)'
  BY <1>1, <1>11 DEF Pending
<1> QED  BY <1>1, <1>2, <1>3, <1>8, <1>9, <1>12, <1>13, <1>14

LEMMA PublishKeeps ==
    ASSUME SettingsAssumption, SettingsInv, NEW r \in Request, PublishTasks(r)
    PROVE  SettingsInv'
<1> USE DEF SettingsInv
<1> DEFINE s == todo[r]
<1>1. /\ s # <<>> /\ Head(s).kind = "publish"
      /\ queue' = queue \cup Followed_(Wanted(Head(s).call, db))
      /\ todo' = [todo EXCEPT ![r] = Tail(@)]
      /\ UNCHANGED <<db, page, asked, scope, disk, gaps>>
  BY DEF PublishTasks, Next_
<1>2. /\ \A q \in Request : q # r => todo'[q] = todo[q]
      /\ todo'[r] = Tail(s) /\ DOMAIN todo' = Request
  BY <1>1
<1>3. Bound' = Bound /\ Bound \in Nat
  BY <1>1, BoundIs DEF Bound
<1>4. ScriptOK(page[r], s, {}, Bound)
  OBVIOUS
<1>5. /\ ScriptOK(page[r], Tail(s), {}, Bound)
      /\ Published(s) = Published(Tail(s)) \cup {Head(s).call}
  <2> HIDE DEF SettingsInv, s
  <2> QED  BY <1>1, <1>3, <1>4, TailOK
<1> HIDE DEF s
<1>6. \A q \in Request : ScriptOK(page'[q], todo'[q], {}, Bound)
  BY <1>1, <1>2, <1>5
<1>7. \A t : t \in queue' <=> t \in queue \/ (t \in Wanted(Head(s).call, db) /\ Target(t) \in scope)
  BY <1>1 DEF Followed_
<1>8. ASSUME NEW f \in scope, ~ Right(f, disk[f], db)
      PROVE  Pending(f)'
  <2>1. Pending(f)
    BY <1>8
  <2>2. ASSUME NEW q \in Request, NEW call \in Published(todo[q]), NEW t \in Wanted(call, db),
               Mends(t, f, disk[f], db)
        PROVE  Pending(f)'
    <3>1. CASE q = r /\ call = Head(s).call
      <4>1. t \in queue'
        BY <1>7, <2>2, <3>1 DEF Mends
      <4> QED  BY <1>1, <2>2, <4>1 DEF Pending
    <3>2. CASE ~ (q = r /\ call = Head(s).call)
      <4>1. call \in Published(todo'[q])
        BY <1>2, <1>5, <2>2, <3>2 DEF s
      <4>2. Awaits(Published(todo'[q]), f, disk'[f], db')
        BY <1>1, <2>2, <4>1 DEF Awaits
      <4> QED  BY <4>2 DEF Pending
    <3> QED  BY <3>1, <3>2
  <2> QED  BY <1>1, <1>7, <2>1, <2>2 DEF Pending, Awaits
<1>9. \A q \in Request \ asked : todo'[q] = <<>>
  BY <1>1, <1>2 DEF s
<1>10. \A t \in queue' : Target(t) \in scope
  BY <1>7
<1> QED  BY <1>1, <1>2, <1>3, <1>6, <1>8, <1>9, <1>10

LEMMA RunKeeps ==
    ASSUME SettingsInv, NEW t \in queue, RunTask(t)
    PROVE  SettingsInv'
<1> USE DEF SettingsInv
<1> DEFINE f == Target(t)
           made == Made(t, db, disk[f])
<1>1. /\ queue' = queue \ {t}
      /\ disk' = [disk EXCEPT ![f] = made]
      /\ gaps' = IF Right(f, made, db) THEN gaps \ {f} ELSE gaps \cup {f}
      /\ UNCHANGED <<db, todo, page, asked, scope>>
  BY DEF RunTask, web
<1>2. f \in scope
  OBVIOUS
<1> HIDE DEF f, made
<1>3. disk'[f] = made /\ DOMAIN disk' = scope' /\ \A g \in scope : g # f => disk'[g] = disk[g]
  BY <1>1, <1>2
<1>4. ASSUME NEW g \in scope, ~ Right(g, disk'[g], db)
      PROVE  Pending(g)'
  <2>1. CASE g = f
    <3>1. g \in gaps'
      BY <1>1, <1>3, <1>4, <2>1
    <3> QED  BY <3>1 DEF Pending
  <2>2. CASE g # f
    <3>1. ~ Right(g, disk[g], db) /\ Pending(g)
      BY <1>3, <1>4, <2>2
    <3>2. \A x \in queue : Mends(x, g, disk[g], db) => x \in queue'
      BY <1>1, <2>2 DEF Mends, f
    <3> QED  BY <1>1, <1>3, <2>2, <3>1, <3>2 DEF Pending
  <2> QED  BY <2>1, <2>2
<1>5. Bound' = Bound
  BY <1>1 DEF Bound
<1>6. gaps' \subseteq scope
  BY <1>1, <1>2
<1> QED  BY <1>1, <1>3, <1>4, <1>5, <1>6

LEMMA NextKeeps == ASSUME SettingsAssumption, SettingsInv, [Next]_vars PROVE SettingsInv'
<1>1. ASSUME NEW r \in Request, CommitFails(r) \/ Crash(r)
      PROVE  SettingsInv'
  <2>1. /\ todo[r] # <<>> /\ gaps' = gaps \cup Abandoned(r)
        /\ todo' = [todo EXCEPT ![r] = <<>>] /\ UNCHANGED <<db, page, asked, scope, queue, disk>>
    BY <1>1 DEF CommitFails, Crash, Next_, node
  <2> QED  BY <2>1, EndsKeep
<1>2. CASE UNCHANGED vars
  BY <1>2 DEF vars, web, node, SettingsInv, Pending, Bound
<1>3. CASE Next
  BY <1>1, <1>3, BeginKeeps, ReadKeeps, CommitKeeps, PublishKeeps, RunKeeps DEF Next, Step
<1> QED  BY <1>2, <1>3

-----------------------------------------------------------------------------
(* The theorems                                                              *)

(* Whatever page is asked for, whatever rows C it loads and whatever rows D   *)
(* others have made of them when it commits: a file that its change turns     *)
(* stale, and that MailScanner reads, is made right by a task that what is    *)
(* left of the script publishes, but for those that Leaves names. The order   *)
(* of the calls in controllers/settings and lib/backend makes this true.      *)
THEOREM SettingsPublish ==
    ASSUME SettingsAssumption, NEW files, files \subseteq SettingsFile, NEW ask \in Asks(files),
           NEW b \in Nat, Cardinality(Rule) <= b, NEW C \in Rows(b),
           NEW i \in DOMAIN Script(ask, C), Script(ask, C)[i].kind = "commit",
           NEW c, c = Script(ask, C)[i].change,
           NEW D \in Rows(b + 1), Sound(D), ~ Refused(c, D),
           NEW f \in SettingsFile, f \notin Leaves(ask.page, c, D), Read_(f, Apply(c, D)),
           f = Ruleset => Dangling(D) = {}
    PROVE  Fixed(f, D, Apply(c, D)) \/ Covered(f, Later(Script(ask, C), i), Apply(c, D))
<1>1. AskOK(ask)
  BY AsksAre
<1>2. ScriptOK(ask.page, Script(ask, C), {}, b + 1)
  BY <1>1, PageScripts
<1> DEFINE s == Script(ask, C)
<1>3. ChangeOK(c, b + 1) /\ Promised(ask.page, c, Later(s, i))
  <2>1. StepOK(ask.page, s[i], Later(s, i) \cup {}, b + 1)
    BY <1>2 DEF ScriptOK
  <2>2. Later(s, i) \cup {} = Later(s, i)
    OBVIOUS
  <2> QED  BY <2>1, <2>2 DEF StepOK
<1>4. b + 1 \in Nat
  OBVIOUS
<1> QED  BY <1>3, <1>4, Covers

(* The rows keep to their keys and columns: a policy that is enabled is there *)
(* and so is that of a rule, names are unique, and a rule's order is bounded  *)
(* by the requests made; a page goes on only if it was asked for, and tasks   *)
(* are about files that are followed.                                         *)
THEOREM SettingsTypeCorrect == ASSUME SettingsAssumption PROVE Spec => []TypeOK
<1>1. Init => SettingsInv
  BY InitHolds
<1>2. SettingsInv /\ [Next]_vars => SettingsInv'
  BY NextKeeps
<1>3. SettingsInv => TypeOK
  BY SettingsTypes
<1> QED  BY <1>1, <1>2, <1>3, PTL DEF Spec

(* A rules file, a ruleset, a key or a table of settings that is not what the *)
(* rows say is about to be put right, by a queued task or by a request that   *)
(* has yet to publish it, or it is in gaps: however many of the pages run at  *)
(* once, fail and die, and whatever other pages commit between their steps.   *)
THEOREM SettingsSettle == ASSUME SettingsAssumption PROVE Spec => []StaleIsPending
<1>1. Init => SettingsInv
  BY InitHolds
<1>2. SettingsInv /\ [Next]_vars => SettingsInv'
  BY NextKeeps
<1>3. SettingsInv => StaleIsPending
  BY StaleSettles
<1> QED  BY <1>1, <1>2, <1>3, PTL DEF Spec

=============================================================================
