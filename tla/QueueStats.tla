------------------------------ MODULE QueueStats ------------------------------
(***************************************************************************)
(* The table mailq mirrors the two exim queues of a node. A refresh        *)
(* (update_queue_stats) lists the inbound queue, then the outbound one,    *)
(* reads what the table has of the node, deletes what it has not seen, and *)
(* then inserts or updates a message at a time, each in a transaction of   *)
(* its own. It is run by cron (a lock file keeps a second command out) and *)
(* by every process-queued-msgs task of the worker, which takes no lock.   *)
(* Meanwhile mail arrives, MailScanner moves it from one queue to the      *)
(* other under the same id, and exim delivers it.                          *)
(*                                                                         *)
(* One node: the tables of others are apart but for the deletion, which is *)
(* by message id alone. The recipients of a message have one row each and  *)
(* share their fate; a row is counted once for all of them.                *)
(***************************************************************************)
EXTENDS Naturals, FiniteSets

CONSTANTS
    Msg,
    Command,        \* the refresh by cron
    Task,           \* BOUND: the process-queued-msgs tasks
    MaxKills        \* BOUND: refreshes killed in the middle

QueueAssumption == Command \notin Task /\ MaxKills \in Nat

Refresh == Task \cup {Command}
Direction == {1, 2}     \* inbound, outbound

VARIABLES
    several,    \* the messages with more than one recipient: fixed
    stage,      \* of a message: "new", "in" the inbound queue, "copied" to
                \* the outbound one, "moved" out of the inbound one
    left,       \* the messages that have left the outbound queue, or never
                \* come there
    rows,       \* how many rows of a message the table has, by direction
    pc,         \* where a refresh is
    ins, outs,  \* the items it has yet to deal with
    ids,        \* what the table had: dbids, then preids
    asked,      \* what a task is asked for: messages, a direction, an action
    kept,       \* history: queued ever since the refresh began
    kills

mail == <<several, left>>
queues == <<stage, mail>>
queueVars == <<queues, rows, pc, ins, outs, ids, asked, kept, kills>>

Inbound == {m \in Msg : stage[m] \in {"in", "copied"}}
Outbound == {m \in Msg : stage[m] \in {"copied", "moved"}} \ left
Queued == Inbound \cup Outbound
Total(m) == rows[m][1] + rows[m][2]
Listed == {m \in Msg : Total(m) > 0}

QueueInit ==
    /\ several \in SUBSET Msg
    /\ stage = [m \in Msg |-> "new"] /\ left = {}
    /\ rows = [m \in Msg |-> [d \in Direction |-> 0]]
    /\ pc = [r \in Refresh |-> "idle"]
    /\ ins = [r \in Refresh |-> {}] /\ outs = [r \in Refresh |-> {}]
    /\ ids = [r \in Refresh |-> {}]
    /\ asked = [t \in Task |-> [msgs |-> {}, do |-> "none", direction |-> 1]]
    /\ kept = [r \in Refresh |-> {}]
    /\ kills = 0

-----------------------------------------------------------------------------
(* Mail. A message leaves kept when it leaves the last queue.                *)

Gone(m, stays) == kept' = [r \in Refresh |-> IF stays THEN kept[r] ELSE kept[r] \ {m}]
Elsewhere == <<rows, pc, ins, outs, ids, asked, kills>>

Arrive(m) ==
    /\ stage[m] = "new"
    /\ stage' = [stage EXCEPT ![m] = "in"]
    /\ UNCHANGED <<mail, kept, Elsewhere>>

(* MailScanner writes the message to the outbound queue and then removes it  *)
(* from the inbound one, or removes it because its actions say so.           *)
Requeue(m) ==
    /\ stage[m] = "in"
    /\ stage' = [stage EXCEPT ![m] = "copied"]
    /\ UNCHANGED <<mail, kept, Elsewhere>>
Unlink(m) ==
    /\ stage[m] = "copied"
    /\ stage' = [stage EXCEPT ![m] = "moved"]
    /\ Gone(m, m \notin left)
    /\ UNCHANGED <<mail, Elsewhere>>
Discard(m) ==
    /\ stage[m] = "in"
    /\ stage' = [stage EXCEPT ![m] = "moved"] /\ left' = left \cup {m}
    /\ Gone(m, FALSE)
    /\ UNCHANGED <<several, Elsewhere>>
Deliver(m) ==
    /\ m \in Outbound
    /\ left' = left \cup {m}
    /\ Gone(m, m \in Inbound)
    /\ UNCHANGED <<stage, several, Elsewhere>>

-----------------------------------------------------------------------------
(* The page: items of the table are chosen, and their direction is that of   *)
(* the first. "remove" stands for bounce and delete, "keep" for deliver and  *)
(* hold: what exim delivers is Deliver.                                      *)

ProcessMailq(t) ==
    /\ asked[t].do = "none"
    /\ \E chosen \in (SUBSET Listed) \ {{}}, do \in {"remove", "keep"}, d \in Direction :
        /\ \E m \in chosen : rows[m][d] > 0
        /\ asked' = [asked EXCEPT ![t] = [msgs |-> chosen, do |-> do, direction |-> d]]
    /\ pc' = [pc EXCEPT ![t] = "exim"]
    /\ UNCHANGED <<queues, rows, ins, outs, ids, kept, kills>>

(* exim -Mrm, -Mg, -M or -Mf; messages that it does not know it skips. Of    *)
(* the inbound queue only the first two are allowed.                         *)
InvalidAction(t) ==
    /\ pc[t] = "exim" /\ asked[t].direction = 1 /\ asked[t].do = "keep"
    /\ pc' = [pc EXCEPT ![t] = "ended"]
    /\ UNCHANGED <<queues, rows, ins, outs, ids, asked, kept, kills>>
RunExim(t) ==
    LET ask == asked[t]
        removed == IF ask.do = "keep" THEN {} ELSE
            ask.msgs \cap (IF ask.direction = 1 THEN Inbound ELSE Outbound)
        dead == {m \in removed : ask.direction = 1 /\ stage[m] = "in"}
    IN  /\ pc[t] = "exim"
        /\ ask.direction = 2 \/ ask.do = "remove"
        /\ pc' = [pc EXCEPT ![t] = "start"]
        /\ IF ask.direction = 1
           THEN /\ stage' = [m \in Msg |-> IF m \in removed THEN "moved" ELSE stage[m]]
                /\ left' = left \cup dead
           ELSE /\ left' = left \cup removed
                /\ UNCHANGED stage
        /\ kept' = [r \in Refresh |-> kept[r] \cap Queued']
        /\ UNCHANGED <<several, rows, ins, outs, ids, asked, kills>>

-----------------------------------------------------------------------------
(* A refresh. The deletion of flagged items that process_queue begins with   *)
(* never finds any: nothing sets the flag.                                   *)

(* The files of the inbound queue are named (os.path.walk)                   *)
WalkIn(r) ==
    /\ pc[r] = IF r = Command THEN "idle" ELSE "start"
    /\ pc' = [pc EXCEPT ![r] = "in"]
    /\ ins' = [ins EXCEPT ![r] = Inbound]
    /\ kept' = [kept EXCEPT ![r] = Queued]
    /\ UNCHANGED <<queues, rows, outs, ids, asked, kills>>

(* and read one by one. One that has gone meanwhile is skipped (IOError), or *)
(* was read before it went. Then come the files of the outbound queue.       *)
Opened(named, there) == {seen \in SUBSET named : named \cap there \subseteq seen}
WalkOut(r) ==
    /\ pc[r] = "in"
    /\ pc' = [pc EXCEPT ![r] = "out"]
    /\ \E seen \in Opened(ins[r], Inbound) : ins' = [ins EXCEPT ![r] = seen]
    /\ outs' = [outs EXCEPT ![r] = Outbound]
    /\ UNCHANGED <<queues, rows, ids, asked, kept, kills>>

ReadIds(r) ==
    /\ pc[r] = "out"
    /\ pc' = [pc EXCEPT ![r] = "read"]
    /\ \E seen \in Opened(outs[r], Outbound) : outs' = [outs EXCEPT ![r] = seen]
    /\ ids' = [ids EXCEPT ![r] = Listed]
    /\ UNCHANGED <<queues, rows, ins, asked, kept, kills>>

(* remids are deleted, preids remain. The mutants: the ids of the outbound   *)
(* queue are not added to the others; an empty queue is skipped as a whole.  *)
DeleteThen(r, allids) ==
    /\ pc[r] = "read"
    /\ pc' = [pc EXCEPT ![r] = "populate"]
    /\ rows' = [m \in Msg |-> IF m \in ids[r] \ allids
                              THEN [d \in Direction |-> 0] ELSE rows[m]]
    /\ ids' = [ids EXCEPT ![r] = @ \cap allids]
    /\ UNCHANGED <<queues, ins, outs, asked, kept, kills>>
DeleteGone_inbound(r) == DeleteThen(r, ins[r])
DeleteGone_skipped(r) ==
    DeleteThen(r, IF ins[r] \cup outs[r] = {} THEN ids[r] ELSE ins[r] \cup outs[r])
DeleteGone(r) == DeleteThen(r, ins[r] \cup outs[r])

(* The inbound items come first.                                             *)
NextItem(r, m, d) ==
    /\ pc[r] = "populate"
    /\ IF d = 1 THEN m \in ins[r] ELSE ins[r] = {} /\ m \in outs[r]
Done(r, m, d) ==
    /\ ins' = [ins EXCEPT ![r] = IF d = 1 THEN @ \ {m} ELSE @]
    /\ outs' = [outs EXCEPT ![r] = IF d = 2 THEN @ \ {m} ELSE @]

InsertItem(r, m, d) ==
    /\ NextItem(r, m, d) /\ Done(r, m, d)
    /\ m \notin ids[r]
    /\ rows' = [rows EXCEPT ![m][d] = @ + 1]
    /\ UNCHANGED <<queues, pc, ids, asked, kept, kills>>

(* Every row of a message with one recipient (.all()), the one row (.one())  *)
(* of each of several, is updated.                                           *)
UpdateItem_undirected(r, m, d) ==   \* a mutant: the direction is not updated
    /\ NextItem(r, m, d) /\ Done(r, m, d)
    /\ m \in ids[r] /\ (m \in several => Total(m) = 1)
    /\ UNCHANGED <<queues, rows, pc, ids, asked, kept, kills>>
UpdateItem(r, m, d) ==
    /\ NextItem(r, m, d) /\ Done(r, m, d)
    /\ m \in ids[r] /\ (m \in several => Total(m) = 1)
    /\ rows' = [rows EXCEPT ![m] = [e \in Direction |-> IF e = d THEN Total(m) ELSE 0]]
    /\ UNCHANGED <<queues, pc, ids, asked, kept, kills>>

Ends(r) ==
    /\ pc' = [pc EXCEPT ![r] = IF r = Command THEN "idle" ELSE "ended"]
    /\ ins' = [ins EXCEPT ![r] = {}] /\ outs' = [outs EXCEPT ![r] = {}]
    /\ ids' = [ids EXCEPT ![r] = {}] /\ kept' = [kept EXCEPT ![r] = {}]

(* NoResultFound or MultipleResultsFound: the refresh ends there.            *)
UpdateRaises(r, m, d) ==
    /\ NextItem(r, m, d) /\ Ends(r)
    /\ m \in ids[r] \cap several /\ Total(m) # 1
    /\ UNCHANGED <<queues, rows, asked, kills>>

Finish(r) ==
    /\ pc[r] = "populate" /\ ins[r] = {} /\ outs[r] = {}
    /\ Ends(r)
    /\ UNCHANGED <<queues, rows, asked, kills>>

Kill(r) ==
    /\ kills < MaxKills
    /\ pc[r] \in {"in", "out", "read", "populate"}
    /\ kills' = kills + 1
    /\ Ends(r)
    /\ UNCHANGED <<queues, rows, asked>>

-----------------------------------------------------------------------------
Mail(m) == Arrive(m) \/ Requeue(m) \/ Unlink(m) \/ Discard(m) \/ Deliver(m)

RefreshStep(r) ==
    \/ WalkIn(r) \/ WalkOut(r) \/ ReadIds(r) \/ DeleteGone(r) \/ Finish(r)
    \/ \E m \in Msg, d \in Direction :
        InsertItem(r, m, d) \/ UpdateItem(r, m, d) \/ UpdateRaises(r, m, d)

QueueNext ==
    \/ \E m \in Msg : Mail(m)
    \/ \E t \in Task : ProcessMailq(t) \/ InvalidAction(t) \/ RunExim(t)
    \/ \E r \in Refresh : RefreshStep(r) \/ Kill(r)

QueueSpec == QueueInit /\ [][QueueNext]_queueVars

(* cron goes on, and the worker ends what it has begun; mail and users need  *)
(* not.                                                                      *)
QueueFairness == \A r \in Refresh : WF_queueVars(RefreshStep(r))
QueueFairSpec == QueueSpec /\ QueueFairness

QueueTypeOK ==
    /\ several \subseteq Msg
    /\ stage \in [Msg -> {"new", "in", "copied", "moved"}] /\ left \subseteq Msg
    /\ rows \in [Msg -> [Direction -> Nat]]
    /\ pc \in [Refresh -> {"idle", "exim", "start", "in", "out", "read", "populate", "ended"}]
    /\ ins \in [Refresh -> SUBSET Msg] /\ outs \in [Refresh -> SUBSET Msg]
    /\ ids \in [Refresh -> SUBSET Msg] /\ kept \in [Refresh -> SUBSET Msg]
    /\ asked \in [Task -> [msgs : SUBSET Msg, do : {"none", "remove", "keep"},
                           direction : Direction]]
    /\ kills \in 0..MaxKills

(***************************************************************************)
(* A message disappears from the table only through a refresh that it was  *)
(* not queued throughout: whatever MailScanner moves while the directories *)
(* are read, and however many refreshes run at once, one that stays queued *)
(* is not lost from sight. It is the order of the two listings that does   *)
(* it (queuestats.py:116-117).                                             *)
(***************************************************************************)
StaysListed ==
    [][\A m \in Listed \ Listed' : \E r \in Refresh : pc[r] = "read" /\ m \notin kept[r]]_queueVars

(* What has left both queues leaves the table, and does not come back.       *)
GhostsGo ==
    \A m \in Msg : (stage[m] # "new" /\ m \notin Queued) ~> [](Total(m) = 0)

(***************************************************************************)
(* What stays in the outbound queue is listed there at last, and only      *)
(* there; unless a message with several recipients has two rows for each,  *)
(* at which every refresh raises MultipleResultsFound before it comes to   *)
(* the items behind (queuestats.py:62-66).                                 *)
(***************************************************************************)
Stuck == \E m \in several : Total(m) > 1
ListedAtLast ==
    \A m \in Msg : <>[](m \in Outbound \ Inbound) =>
        (<>[](rows[m][1] = 0 /\ rows[m][2] > 0) \/ []<>Stuck)
=============================================================================
