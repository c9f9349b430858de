-------------------------- MODULE ConfigSyncProofs --------------------------
(***************************************************************************)
(* What holds of ConfigSync for every number of nodes, changes and         *)
(* crashes, and whatever the scores are.                                   *)
(***************************************************************************)
EXTENDS ConfigSync, TLAPS

USE DEF tasks, history

(* A task is a change on a node.                                           *)
LEMMA TaskPairs ==
  ASSUME NEW t \in Task
  PROVE  t[1] \in Req /\ t[2] \in Node /\ t = <<t[1], t[2]>>
BY DEF Task

LEMMA PairTasks ==
  ASSUME NEW q \in Req, NEW n \in Node
  PROVE  <<q, n>> \in Task
BY DEF Task

(* Publishing queues the tasks of one change and leaves the others alone.  *)
LEMMA QueuedOf ==
  ASSUME NEW state \in [Task -> States], NEW q \in Req
  PROVE  /\ Queued(state, q) \in [Task -> States]
         /\ \A t \in Task : Queued(state, q)[t] = IF t[1] = q THEN "queued" ELSE state[t]
BY DEF Queued, States

(* The types hold: TypeOK is an invariant.                                 *)
THEOREM ConfigTypes == Spec => []TypeOK
<1>1. Init => TypeOK
  <2> SUFFICES ASSUME Init PROVE TypeOK
    OBVIOUS
  <2>1. rules \in [Task -> States] /\ ser \in [Task -> States]
    BY DEF Init, States
  <2>2. snap \in [Task -> Settings] /\ got \in [Task -> Nat]
    BY DEF Init, Settings
  <2> QED
    BY <2>1, <2>2 DEF Init, TypeOK, Settings
<1>2. TypeOK /\ [Next]_vars => TypeOK'
  <2> SUFFICES ASSUME TypeOK, [Next]_vars PROVE TypeOK'
    OBVIOUS
  <2> USE DEF TypeOK
  <2>1. ASSUME NEW q \in Req, Commit(q) PROVE TypeOK'
    BY <2>1 DEF Commit, Settings
  <2>2. ASSUME NEW q \in Req, PublishRules(q) PROVE TypeOK'
    <3>1. rules' \in [Task -> States]
      BY <2>2, QueuedOf DEF PublishRules
    <3> QED
      BY <2>2, <3>1 DEF PublishRules
  <2>3. ASSUME NEW q \in Req, PublishSerial(q) PROVE TypeOK'
    BY <2>3, QueuedOf DEF PublishSerial
  <2>4. ASSUME NEW q \in Req, WebCrash(q) PROVE TypeOK'
    BY <2>4 DEF WebCrash
  <2>5. ASSUME NEW t \in Task, RulesRead(t) PROVE TypeOK'
    BY <2>5 DEF RulesRead, States
  <2>6. ASSUME NEW t \in Task, RulesWrite(t) PROVE TypeOK'
    BY <2>6, TaskPairs DEF RulesWrite, States, Settings
  <2>7. ASSUME NEW t \in Task, SerialRead(t) PROVE TypeOK'
    BY <2>7 DEF SerialRead, States
  <2>8. ASSUME NEW t \in Task, SerialWrite(t) PROVE TypeOK'
    BY <2>8 DEF SerialWrite, States
  <2>9. ASSUME NEW n \in Node, WorkerCrash(n) PROVE TypeOK'
    BY <2>9 DEF WorkerCrash, States, Settings
  <2>10. ASSUME NEW n \in Node, Load(n) PROVE TypeOK'
    BY <2>10 DEF Load
  <2>11. CASE UNCHANGED vars
    BY <2>11 DEF vars
  <2> QED
    BY <2>1, <2>2, <2>3, <2>4, <2>5, <2>6, <2>7, <2>8, <2>9, <2>10, <2>11
    DEF Next, WebStep, TaskStep
<1> QED
  BY <1>1, <1>2, PTL DEF Spec

-----------------------------------------------------------------------------
(* RulesetCurrent is not inductive: a create task may be about to write    *)
(* what it has read. Unless it began before the last commit it has read    *)
(* the last settings, and a change that is not published has no tasks.     *)
RulesNone == \A q \in Req : web[q] \in {"idle", "committed"} =>
                \A n \in Node : rules[<<q, n>>] = "none"

ReadCurrent == \A q \in Req, n \in Node \ late :
                  rules[<<q, n>>] = "read" => snap[<<q, n>>] = db

RulesInv == RulesNone /\ ReadCurrent /\ RulesetCurrent

(* Every step preserves the invariant.                                     *)
LEMMA RulesInductive ==
  ASSUME TypeOK, TypeOK', RulesInv, [Next]_vars
  PROVE  RulesInv'
<1> USE DEF TypeOK
<1>1. ASSUME NEW q \in Req, Commit(q) PROVE RulesInv'
  <2>1. RulesNone'
    BY <1>1 DEF Commit, RulesInv, RulesNone
  <2>2. ReadCurrent'
    BY <1>1 DEF Commit, ReadCurrent
  <2>3. RulesetCurrent'
    BY <1>1 DEF Commit, RulesInv, RulesNone, RulesetCurrent
  <2> QED
    BY <2>1, <2>2, <2>3 DEF RulesInv
<1>2. ASSUME NEW q \in Req, PublishRules(q) PROVE RulesInv'
  <2>1. CASE Publishes(q)
    <3>1. \A t \in Task : rules'[t] = IF t[1] = q THEN "queued" ELSE rules[t]
      BY <1>2, <2>1, QueuedOf DEF PublishRules
    <3>2. \A p \in Req, n \in Node :
             rules'[<<p, n>>] = IF p = q THEN "queued" ELSE rules[<<p, n>>]
      BY <3>1, PairTasks
    <3>3. /\ web' = [web EXCEPT ![q] = "rules"]
          /\ UNCHANGED <<db, snap, file, late>>
      BY <1>2, <2>1 DEF PublishRules
    <3> QED
      BY <3>2, <3>3 DEF RulesInv, RulesNone, ReadCurrent, RulesetCurrent
  <2>2. CASE ~Publishes(q)
    BY <1>2, <2>2 DEF PublishRules, RulesInv, RulesNone, ReadCurrent, RulesetCurrent
  <2> QED
    BY <2>1, <2>2
<1>3. ASSUME NEW q \in Req, PublishSerial(q) PROVE RulesInv'
  BY <1>3 DEF PublishSerial, RulesInv, RulesNone, ReadCurrent, RulesetCurrent
<1>4. ASSUME NEW q \in Req, WebCrash(q) PROVE RulesInv'
  BY <1>4 DEF WebCrash, RulesInv, RulesNone, ReadCurrent, RulesetCurrent
<1>5. ASSUME NEW t \in Task, RulesRead(t) PROVE RulesInv'
  BY <1>5, PairTasks DEF RulesRead, RulesInv, RulesNone, ReadCurrent, RulesetCurrent
<1>6. ASSUME NEW t \in Task, RulesWrite(t) PROVE RulesInv'
  <2>1. PICK q \in Req, n \in Node : t = <<q, n>>
    BY TaskPairs
  <2>2. /\ rules[<<q, n>>] = "read"
        /\ rules' = [rules EXCEPT ![<<q, n>>] = "done"]
        /\ snap' = [snap EXCEPT ![<<q, n>>] = Initial]
        /\ file' = [file EXCEPT ![n] = snap[<<q, n>>]]
        /\ UNCHANGED <<db, web, late>>
    BY <1>6, <2>1 DEF RulesWrite
  <2>3. RulesNone'
    BY <2>2, PairTasks DEF RulesInv, RulesNone
  <2>4. ReadCurrent'
    BY <2>2, PairTasks DEF RulesInv, ReadCurrent
  <2>5. RulesetCurrent'
    <3> SUFFICES ASSUME db \in Req, NEW m \in Node \ late, rules'[<<db, m>>] = "done"
                 PROVE  file'[m] = db
      BY <2>2 DEF RulesetCurrent
    <3>1. CASE m = n
      BY <2>2, <3>1 DEF RulesInv, ReadCurrent
    <3>2. CASE m # n
      BY <2>2, <3>2, PairTasks DEF RulesInv, RulesetCurrent
    <3> QED
      BY <3>1, <3>2
  <2> QED
    BY <2>3, <2>4, <2>5 DEF RulesInv
<1>7. ASSUME NEW t \in Task, SerialRead(t) PROVE RulesInv'
  BY <1>7 DEF SerialRead, RulesInv, RulesNone, ReadCurrent, RulesetCurrent
<1>8. ASSUME NEW t \in Task, SerialWrite(t) PROVE RulesInv'
  BY <1>8 DEF SerialWrite, RulesInv, RulesNone, ReadCurrent, RulesetCurrent
<1>9. ASSUME NEW n \in Node, WorkerCrash(n) PROVE RulesInv'
  <2>1. \A q \in Req, m \in Node :
          rules'[<<q, m>>] = IF m = n /\ rules[<<q, m>>] = "read"
                               THEN "dead" ELSE rules[<<q, m>>]
    BY <1>9, PairTasks DEF WorkerCrash
  <2>2. \A q \in Req, m \in Node :
          snap'[<<q, m>>] = IF m = n THEN Initial ELSE snap[<<q, m>>]
    BY <1>9, PairTasks DEF WorkerCrash
  <2>3. UNCHANGED <<db, web, file, late>>
    BY <1>9 DEF WorkerCrash
  <2> QED
    BY <2>1, <2>2, <2>3 DEF RulesInv, RulesNone, ReadCurrent, RulesetCurrent
<1>10. ASSUME NEW n \in Node, Load(n) PROVE RulesInv'
  BY <1>10 DEF Load, RulesInv, RulesNone, ReadCurrent, RulesetCurrent
<1>11. CASE UNCHANGED vars
  BY <1>11 DEF vars, RulesInv, RulesNone, ReadCurrent, RulesetCurrent
<1> QED
  BY <1>1, <1>2, <1>3, <1>4, <1>5, <1>6, <1>7, <1>8, <1>9, <1>10, <1>11
  DEF Next, WebStep, TaskStep

(* Once the create task of the last change has run on a node, the ruleset  *)
(* is the database's, whatever overlaps afterwards or died before:         *)
(* RulesetCurrent is an invariant.                                         *)
THEOREM RulesetsAreCurrent == Spec => []RulesetCurrent
<1>1. Init => RulesInv
  BY ConstantsAssumption, PairTasks
  DEF Init, RulesInv, RulesNone, ReadCurrent, RulesetCurrent
<1>2. TypeOK /\ TypeOK' /\ RulesInv /\ [Next]_vars => RulesInv'
  BY RulesInductive
<1>3. RulesInv => RulesetCurrent
  BY DEF RulesInv
<1> QED
  BY <1>1, <1>2, <1>3, ConfigTypes, PTL DEF Spec

-----------------------------------------------------------------------------
(* SerialMoves is not inductive either: since the last commit the number   *)
(* has not gone back, and what update-serial tasks have read is no older.  *)
SerialNone == \A q \in Req : web[q] \in {"idle", "committed", "rules"} =>
                 \A n \in Node : ser[<<q, n>>] = "none"

ReadSince == ~slate => /\ serial >= base
                       /\ \A t \in Task : ser[t] = "read" => got[t] >= base

SerialInv == SerialNone /\ ReadSince /\ SerialMoves

(* Every step preserves the invariant.                                     *)
LEMMA SerialInductive ==
  ASSUME TypeOK, TypeOK', SerialInv, [Next]_vars
  PROVE  SerialInv'
<1> USE DEF TypeOK
<1>1. ASSUME NEW q \in Req, Commit(q) PROVE SerialInv'
  <2>1. SerialNone'
    BY <1>1 DEF Commit, SerialInv, SerialNone
  <2>2. ReadSince'
    BY <1>1 DEF Commit, ReadSince
  <2>3. SerialMoves'
    BY <1>1 DEF Commit, SerialInv, SerialNone, SerialMoves
  <2> QED
    BY <2>1, <2>2, <2>3 DEF SerialInv
<1>2. ASSUME NEW q \in Req, PublishRules(q) PROVE SerialInv'
  <2>1. /\ web' = [web EXCEPT ![q] = "rules"] \/ web' = [web EXCEPT ![q] = "done"]
        /\ web[q] = "committed"
        /\ UNCHANGED <<db, ser, got, serial, base, slate>>
    BY <1>2 DEF PublishRules
  <2> QED
    BY <2>1 DEF SerialInv, SerialNone, ReadSince, SerialMoves
<1>3. ASSUME NEW q \in Req, PublishSerial(q) PROVE SerialInv'
  <2>1. \A t \in Task : ser'[t] = IF t[1] = q THEN "queued" ELSE ser[t]
    BY <1>3, QueuedOf DEF PublishSerial
  <2>2. \A p \in Req, n \in Node :
           ser'[<<p, n>>] = IF p = q THEN "queued" ELSE ser[<<p, n>>]
    BY <2>1, PairTasks
  <2>3. /\ web' = [web EXCEPT ![q] = "done"]
        /\ UNCHANGED <<db, got, serial, base, slate>>
    BY <1>3 DEF PublishSerial
  <2>4. SerialNone'
    BY <2>2, <2>3 DEF SerialInv, SerialNone
  <2>5. ReadSince'
    BY <2>1, <2>3 DEF SerialInv, ReadSince
  <2>6. SerialMoves'
    BY <2>2, <2>3 DEF SerialInv, SerialMoves
  <2> QED
    BY <2>4, <2>5, <2>6 DEF SerialInv
<1>4. ASSUME NEW q \in Req, WebCrash(q) PROVE SerialInv'
  BY <1>4 DEF WebCrash, SerialInv, SerialNone, ReadSince, SerialMoves
<1>5. ASSUME NEW t \in Task, RulesRead(t) PROVE SerialInv'
  BY <1>5 DEF RulesRead, SerialInv, SerialNone, ReadSince, SerialMoves
<1>6. ASSUME NEW t \in Task, RulesWrite(t) PROVE SerialInv'
  BY <1>6 DEF RulesWrite, SerialInv, SerialNone, ReadSince, SerialMoves
<1>7. ASSUME NEW t \in Task, SerialRead(t) PROVE SerialInv'
  <2>1. SerialNone'
    BY <1>7, PairTasks DEF SerialRead, SerialInv, SerialNone
  <2>2. ReadSince'
    BY <1>7 DEF SerialRead, SerialInv, ReadSince
  <2>3. SerialMoves'
    BY <1>7, PairTasks DEF SerialRead, SerialInv, SerialMoves
  <2> QED
    BY <2>1, <2>2, <2>3 DEF SerialInv
<1>8. ASSUME NEW t \in Task, SerialWrite(t) PROVE SerialInv'
  <2>1. ~slate => serial' > base
    BY <1>8 DEF SerialWrite, SerialInv, ReadSince
  <2>2. SerialNone'
    BY <1>8, PairTasks DEF SerialWrite, SerialInv, SerialNone
  <2>3. ReadSince'
    BY <1>8, <2>1 DEF SerialWrite, SerialInv, ReadSince
  <2>4. SerialMoves'
    BY <1>8, <2>1 DEF SerialWrite, SerialMoves
  <2> QED
    BY <2>2, <2>3, <2>4 DEF SerialInv
<1>9. ASSUME NEW n \in Node, WorkerCrash(n) PROVE SerialInv'
  <2>1. \A t \in Task :
          ser'[t] = IF t[2] = n /\ ser[t] = "read" THEN "dead" ELSE ser[t]
    BY <1>9 DEF WorkerCrash
  <2>2. \A t \in Task : got'[t] = IF t[2] = n THEN 0 ELSE got[t]
    BY <1>9 DEF WorkerCrash
  <2>3. UNCHANGED <<db, web, serial, base, slate>>
    BY <1>9 DEF WorkerCrash
  <2>4. SerialNone'
    BY <2>1, <2>3, PairTasks DEF SerialInv, SerialNone
  <2>5. ReadSince'
    BY <2>1, <2>2, <2>3 DEF SerialInv, ReadSince
  <2>6. SerialMoves'
    BY <2>1, <2>3, PairTasks DEF SerialInv, SerialMoves
  <2> QED
    BY <2>4, <2>5, <2>6 DEF SerialInv
<1>10. ASSUME NEW n \in Node, Load(n) PROVE SerialInv'
  BY <1>10 DEF Load, SerialInv, SerialNone, ReadSince, SerialMoves
<1>11. CASE UNCHANGED vars
  BY <1>11 DEF vars, SerialInv, SerialNone, ReadSince, SerialMoves
<1> QED
  BY <1>1, <1>2, <1>3, <1>4, <1>5, <1>6, <1>7, <1>8, <1>9, <1>10, <1>11
  DEF Next, WebStep, TaskStep

(* One update-serial task of the last change moves the serial number past  *)
(* what it was at the commit, lost updates included: SerialMoves is an     *)
(* invariant.                                                              *)
THEOREM SerialNumberMoves == Spec => []SerialMoves
<1>1. Init => SerialInv
  BY ConstantsAssumption, PairTasks
  DEF Init, SerialInv, SerialNone, ReadSince, SerialMoves
<1>2. TypeOK /\ TypeOK' /\ SerialInv /\ [Next]_vars => SerialInv'
  BY SerialInductive
<1>3. SerialInv => SerialMoves
  BY DEF SerialInv
<1> QED
  BY <1>1, <1>2, <1>3, ConfigTypes, PTL DEF Spec
=============================================================================
