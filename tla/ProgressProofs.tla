---------------------------- MODULE ProgressProofs ----------------------------
(***************************************************************************)
(* Theorems about QueueStats, DbClean, Jobs and Passwords: for any         *)
(* messages, rows, jobs, sessions and requests, any number of refreshes,   *)
(* cleaners and imports at once, any number of them killed or lost; and    *)
(* about all of them in Progress.                                          *)
(***************************************************************************)
EXTENDS Progress, TLAPS

-----------------------------------------------------------------------------
(* QueueStats: what is queued stays listed                                 *)

(* What was queued throughout is, while the directories are listed, where    *)
(* the rest of the refresh will see it: it can only move on, to the queue    *)
(* that is listed second.                                                    *)
SeenIn(r) == pc[r] \in {"in", "out"} => kept[r] \cap Inbound \subseteq ins[r]
SeenOut(r) == pc[r] \in {"out", "read"} => kept[r] \subseteq ins[r] \cup outs[r]
KeptIsQueued(r) == kept[r] \subseteq Queued
NotBegun(r) == pc[r] \notin {"in", "out", "read", "populate"} => kept[r] = {}
SeenInv ==
    QueueTypeOK /\ \A r \in Refresh : SeenIn(r) /\ SeenOut(r) /\ KeptIsQueued(r) /\ NotBegun(r)

USE DEF Refresh, Direction, mail, queues, queueVars, Elsewhere

LEMMA RefreshTypeOK ==
    ASSUME QueueAssumption, QueueTypeOK, NEW r \in Refresh,
           RefreshStep(r) \/ Kill(r)
    PROVE  QueueTypeOK'
<1>1. CASE WalkIn(r)
  BY <1>1 DEF QueueTypeOK, WalkIn, Inbound, Outbound, Queued
<1>2. CASE WalkOut(r)
  BY <1>2 DEF QueueTypeOK, WalkOut, Opened, Outbound, Inbound
<1>3. CASE ReadIds(r)
  BY <1>3 DEF QueueTypeOK, ReadIds, Opened, Listed, Outbound
<1>4. CASE DeleteGone(r)
  BY <1>4 DEF QueueTypeOK, DeleteGone, DeleteThen
<1>5. CASE Finish(r)
  BY <1>5 DEF QueueTypeOK, Finish, Ends
<1>6. ASSUME NEW m \in Msg, NEW d \in Direction, InsertItem(r, m, d)
      PROVE  QueueTypeOK'
  BY <1>6 DEF QueueTypeOK, InsertItem, Done
<1>7. ASSUME NEW m \in Msg, NEW d \in Direction, UpdateItem(r, m, d)
      PROVE  QueueTypeOK'
  <2>1. Total(m) \in Nat
    BY DEF QueueTypeOK, Total
  <2> QED  BY <1>7, <2>1 DEF QueueTypeOK, UpdateItem, Done
<1>8. ASSUME NEW m \in Msg, NEW d \in Direction, UpdateRaises(r, m, d)
      PROVE  QueueTypeOK'
  BY <1>8 DEF QueueTypeOK, UpdateRaises, Ends
<1>9. CASE Kill(r)
  BY <1>9 DEF QueueTypeOK, Kill, Ends, QueueAssumption
<1> QED  BY <1>1, <1>2, <1>3, <1>4, <1>5, <1>6, <1>7, <1>8, <1>9 DEF RefreshStep

LEMMA MailTypeOK ==
    ASSUME QueueTypeOK, NEW m \in Msg, Mail(m)
    PROVE  QueueTypeOK'
<1>1. CASE Arrive(m)    BY <1>1 DEF QueueTypeOK, Arrive
<1>2. CASE Requeue(m)   BY <1>2 DEF QueueTypeOK, Requeue
<1>3. CASE Unlink(m)    BY <1>3 DEF QueueTypeOK, Unlink, Gone
<1>4. CASE Discard(m)   BY <1>4 DEF QueueTypeOK, Discard, Gone
<1>5. CASE Deliver(m)   BY <1>5 DEF QueueTypeOK, Deliver, Gone, Outbound
<1> QED  BY <1>1, <1>2, <1>3, <1>4, <1>5 DEF Mail

LEMMA AskedTypeOK ==
    ASSUME QueueTypeOK, NEW t \in Task,
           ProcessMailq(t) \/ InvalidAction(t) \/ RunExim(t)
    PROVE  QueueTypeOK'
<1>1. CASE ProcessMailq(t)   BY <1>1 DEF QueueTypeOK, ProcessMailq, Listed
<1>2. CASE InvalidAction(t)  BY <1>2 DEF QueueTypeOK, InvalidAction
<1>3. CASE RunExim(t)        BY <1>3 DEF QueueTypeOK, RunExim, Inbound, Outbound
<1> QED  BY <1>1, <1>2, <1>3

(* A step of the mail system or of the page leaves the refreshes alone, but  *)
(* for what has left the queues, and puts no old message into the inbound    *)
(* queue.                                                                    *)
OthersMoved ==
    /\ UNCHANGED <<ins, outs>>
    /\ \A r \in Refresh : kept'[r] \subseteq kept[r] \cap Queued'
    /\ Inbound' \cap Queued \subseteq Inbound
    /\ \A r \in Refresh : pc'[r] # pc[r] =>
            {pc[r], pc'[r]} \cap {"in", "out", "read", "populate"} = {}

LEMMA MailMoves ==
    ASSUME SeenInv, NEW m \in Msg, Mail(m)
    PROVE  OthersMoved
<1> USE DEF SeenInv, QueueTypeOK, KeptIsQueued, Queued, Inbound, Outbound, OthersMoved
<1>1. CASE Arrive(m)    BY <1>1 DEF Arrive
<1>2. CASE Requeue(m)   BY <1>2 DEF Requeue
<1>3. CASE Unlink(m)    BY <1>3 DEF Unlink, Gone
<1>4. CASE Discard(m)   BY <1>4 DEF Discard, Gone
<1>5. CASE Deliver(m)   BY <1>5 DEF Deliver, Gone
<1> QED  BY <1>1, <1>2, <1>3, <1>4, <1>5 DEF Mail

LEMMA AskedMoves ==
    ASSUME SeenInv, NEW t \in Task,
           ProcessMailq(t) \/ InvalidAction(t) \/ RunExim(t), QueueAssumption
    PROVE  OthersMoved
<1> USE DEF SeenInv, QueueTypeOK, KeptIsQueued, Queued, Inbound, Outbound, OthersMoved
<1>1. CASE ProcessMailq(t)   BY <1>1 DEF ProcessMailq
<1>2. CASE InvalidAction(t)  BY <1>2 DEF InvalidAction
<1>3. CASE RunExim(t)        BY <1>3 DEF RunExim
<1> QED  BY <1>1, <1>2, <1>3

LEMMA MovedKeepsInv ==
    ASSUME SeenInv, OthersMoved, QueueTypeOK'
    PROVE  SeenInv'
<1> SUFFICES ASSUME NEW r \in Refresh
             PROVE  (SeenIn(r) /\ SeenOut(r) /\ KeptIsQueued(r) /\ NotBegun(r))'
  BY DEF SeenInv
<1>1. SeenIn(r) /\ SeenOut(r) /\ KeptIsQueued(r) /\ NotBegun(r)
  BY DEF SeenInv
<1>2. kept'[r] \subseteq kept[r] /\ kept'[r] \subseteq Queued'
  BY DEF OthersMoved
<1>3. SeenIn(r)'
  BY <1>1, <1>2 DEF SeenIn, OthersMoved, KeptIsQueued
<1>4. SeenOut(r)'
  BY <1>1, <1>2 DEF SeenOut, OthersMoved
<1>5. NotBegun(r)'
  BY <1>1, <1>2 DEF NotBegun, OthersMoved
<1> QED  BY <1>2, <1>3, <1>4, <1>5 DEF KeptIsQueued

LEMMA RefreshKeepsInv ==
    ASSUME QueueAssumption, SeenInv, NEW r \in Refresh, RefreshStep(r) \/ Kill(r)
    PROVE  SeenInv'
<1> USE DEF SeenIn, SeenOut, KeptIsQueued, NotBegun
<1>1. QueueTypeOK'
  BY RefreshTypeOK DEF SeenInv
<1>2. UNCHANGED <<stage, left>>
  BY DEF RefreshStep, WalkIn, WalkOut, ReadIds, DeleteGone, DeleteThen, Finish, Kill,
         InsertItem, UpdateItem, UpdateRaises
<1>3. UNCHANGED <<Inbound, Outbound, Queued>>
  BY <1>2 DEF Inbound, Outbound, Queued
<1> SUFFICES ASSUME NEW q \in Refresh
             PROVE  (SeenIn(q) /\ SeenOut(q) /\ KeptIsQueued(q) /\ NotBegun(q))'
  BY <1>1 DEF SeenInv
<1>4. SeenIn(q) /\ SeenOut(q) /\ KeptIsQueued(q) /\ NotBegun(q) /\ QueueTypeOK
  BY DEF SeenInv
<1>5. CASE WalkIn(r)
  BY <1>3, <1>4, <1>5 DEF WalkIn, QueueTypeOK
<1>6. CASE WalkOut(r)
  <2>1. CASE q = r
    <3>1. PICK listed \in Opened(ins[r], Inbound) :
            ins'[r] = listed /\ outs'[r] = Outbound /\ pc'[r] = "out" /\ kept'[r] = kept[r]
      BY <1>4, <1>6 DEF WalkOut, QueueTypeOK
    <3>2. kept[r] \cap Inbound \subseteq listed
      BY <1>4, <1>6, <2>1, <3>1 DEF WalkOut, Opened
    <3>3. kept[r] \subseteq listed \cup Outbound
      BY <1>4, <2>1, <3>2 DEF Queued
    <3> QED  BY <1>3, <1>4, <2>1, <3>1, <3>2, <3>3
  <2>2. CASE q # r
    BY <1>3, <1>4, <1>6, <2>2 DEF WalkOut, QueueTypeOK
  <2> QED  BY <2>1, <2>2
<1>7. CASE ReadIds(r)
  <2>1. CASE q = r
    <3>1. PICK listed \in Opened(outs[r], Outbound) :
            outs'[r] = listed /\ ins'[r] = ins[r] /\ pc'[r] = "read" /\ kept'[r] = kept[r]
      BY <1>4, <1>7 DEF ReadIds, QueueTypeOK
    <3>2. kept[r] \subseteq ins[r] \cup (outs[r] \cap Outbound)
      BY <1>4, <1>7, <2>1 DEF ReadIds, Queued
    <3>3. kept[r] \subseteq ins[r] \cup listed
      BY <3>1, <3>2 DEF Opened
    <3> QED  BY <1>3, <1>4, <2>1, <3>1, <3>3
  <2>2. CASE q # r
    BY <1>3, <1>4, <1>7, <2>2 DEF ReadIds, QueueTypeOK
  <2> QED  BY <2>1, <2>2
<1>8. CASE DeleteGone(r)
  BY <1>3, <1>4, <1>8 DEF DeleteGone, DeleteThen, QueueTypeOK
<1>9. CASE Finish(r)
  BY <1>3, <1>4, <1>9 DEF Finish, Ends, QueueTypeOK
<1>10. ASSUME NEW m \in Msg, NEW d \in Direction, InsertItem(r, m, d) \/ UpdateItem(r, m, d)
       PROVE  (SeenIn(q) /\ SeenOut(q) /\ KeptIsQueued(q) /\ NotBegun(q))'
  <2>1. /\ UNCHANGED <<pc, kept>> /\ pc[r] = "populate"
        /\ q # r => ins'[q] = ins[q] /\ outs'[q] = outs[q]
    BY <1>4, <1>10 DEF InsertItem, UpdateItem, NextItem, Done, QueueTypeOK
  <2> QED  BY <1>3, <1>4, <2>1
<1>11. ASSUME NEW m \in Msg, NEW d \in Direction, UpdateRaises(r, m, d)
       PROVE  (SeenIn(q) /\ SeenOut(q) /\ KeptIsQueued(q) /\ NotBegun(q))'
  BY <1>3, <1>4, <1>11 DEF UpdateRaises, Ends, QueueTypeOK
<1>12. CASE Kill(r)
  BY <1>3, <1>4, <1>12 DEF Kill, Ends, QueueTypeOK
<1> QED  BY <1>5, <1>6, <1>7, <1>8, <1>9, <1>10, <1>11, <1>12 DEF RefreshStep

LEMMA SeenInductive ==
    ASSUME QueueAssumption
    PROVE  (QueueInit => SeenInv) /\ (SeenInv /\ [QueueNext]_queueVars => SeenInv')
<1>1. QueueInit => SeenInv
  BY DEF QueueInit, SeenInv, QueueTypeOK, SeenIn, SeenOut, KeptIsQueued, NotBegun,
         QueueAssumption
<1>2. ASSUME SeenInv, QueueNext  PROVE SeenInv'
  <2>1. ASSUME NEW m \in Msg, Mail(m)  PROVE SeenInv'
    BY <1>2, <2>1, MailTypeOK, MailMoves, MovedKeepsInv DEF SeenInv
  <2>2. ASSUME NEW t \in Task, ProcessMailq(t) \/ InvalidAction(t) \/ RunExim(t)
        PROVE  SeenInv'
    BY <1>2, <2>2, AskedTypeOK, AskedMoves, MovedKeepsInv DEF SeenInv
  <2>3. ASSUME NEW r \in Refresh, RefreshStep(r) \/ Kill(r)  PROVE SeenInv'
    BY <1>2, <2>3, RefreshKeepsInv
  <2> QED  BY <1>2, <2>1, <2>2, <2>3 DEF QueueNext
<1>3. ASSUME SeenInv, UNCHANGED queueVars  PROVE SeenInv'
  BY <1>3 DEF SeenInv, QueueTypeOK, SeenIn, SeenOut, KeptIsQueued, NotBegun,
              Inbound, Outbound, Queued
<1> QED  BY <1>1, <1>2, <1>3

(* The variables have their types.                                           *)
THEOREM QueueTypeCorrect == ASSUME QueueAssumption PROVE QueueSpec => []QueueTypeOK
<1>1. SeenInv => QueueTypeOK
  BY DEF SeenInv
<1> QED  BY <1>1, SeenInductive, PTL DEF QueueSpec

(* A refresh only deletes what was out of both queues at some moment of it   *)
(* (queuestats.py:116-131).                                                  *)
THEOREM QueuedStaysListed == ASSUME QueueAssumption PROVE QueueSpec => StaysListed
<1>1. ASSUME SeenInv, QueueNext, NEW m \in Listed \ Listed'
      PROVE  \E r \in Refresh : pc[r] = "read" /\ m \notin kept[r]
  <2>1. m \in Msg /\ rows[m] # rows'[m] /\ Total(m) > 0 /\ ~(Total(m) > 0)'
    BY DEF Listed, Total
  <2>2. PICK r \in Refresh : RefreshStep(r)
    BY <1>1, <2>1 DEF QueueNext, Mail, Arrive, Requeue, Unlink, Discard, Deliver,
        ProcessMailq, InvalidAction, RunExim, Kill
  <2>3. CASE DeleteGone(r)
    <3>1. pc[r] = "read" /\ m \notin ins[r] \cup outs[r]
      BY <2>1, <2>3 DEF DeleteGone, DeleteThen
    <3>2. m \notin kept[r]
      BY <1>1, <3>1 DEF SeenInv, SeenOut
    <3> QED  BY <3>1, <3>2
  <2>4. ASSUME NEW k \in Msg, NEW d \in Direction, InsertItem(r, k, d)  PROVE FALSE
    <3>1. m = k /\ rows'[m] = [rows[m] EXCEPT ![d] = @ + 1]
      BY <1>1, <2>1, <2>4 DEF InsertItem, SeenInv, QueueTypeOK
    <3>2. rows[m] \in [Direction -> Nat] /\ d \in Direction
      BY <1>1, <2>1 DEF SeenInv, QueueTypeOK
    <3>3. rows'[m][1] + rows'[m][2] > 0
      BY <3>1, <3>2
    <3> QED  BY <2>1, <3>3 DEF Total
  <2>5. ASSUME NEW k \in Msg, NEW d \in Direction, UpdateItem(r, k, d)  PROVE FALSE
    <3>1. m = k /\ rows'[m] = [e \in Direction |-> IF e = d THEN Total(m) ELSE 0]
      BY <1>1, <2>1, <2>5 DEF UpdateItem, SeenInv, QueueTypeOK
    <3>2. d \in {1, 2} /\ Total(m) \in Nat
      BY <1>1, <2>1 DEF SeenInv, QueueTypeOK, Total
    <3>3. rows'[m][1] + rows'[m][2] = Total(m)
      BY <3>1, <3>2
    <3> QED  BY <2>1, <3>3 DEF Total
  <2> QED
    BY <2>1, <2>2, <2>3, <2>4, <2>5 DEF RefreshStep, WalkIn, WalkOut, ReadIds,
        Finish, UpdateRaises
<1>2. ASSUME SeenInv, [QueueNext]_queueVars
      PROVE  [\A m \in Listed \ Listed' :
                \E r \in Refresh : pc[r] = "read" /\ m \notin kept[r]]_queueVars
  BY <1>1, <1>2
<1> QED  BY <1>2, SeenInductive, PTL DEF QueueSpec, StaysListed

HIDE DEF Refresh, Direction, mail, queues, queueVars, Elsewhere

-----------------------------------------------------------------------------
(* DbClean: a row is in one table                                          *)

(* What a run has selected, then inserted, is all that it will delete but    *)
(* for rows that were old when they came.                                    *)
Covered(r, R) == \A row \in messages : Old(row, date[r]) => row \in R \cup late
RunInv(r) ==
    /\ date[r] <= day
    /\ phase[r] = "insert" => Covered(r, selected[r])
    /\ phase[r] = "delete" => Covered(r, inserted[r])
    /\ \A row \in selected[r] \cup inserted[r] :
            row \notin Unlogged /\ Old(row, date[r])
CleanInv ==
    /\ CleanTypeOK
    /\ \A r \in Runner : RunInv(r)
    /\ (messages \cup archive) \cap Unlogged = {}
    /\ InOneTable

USE DEF tables, logged, cleanVars, LockTypeOK, acquire_lock, release_lock, Expire

LEMMA CleanTypeStep ==
    ASSUME DbCleanAssumption, CleanTypeOK, CleanNext
    PROVE  CleanTypeOK'
<1> USE DEF CleanTypeOK, DbCleanAssumption
<1>1. CASE Tomorrow     BY <1>1 DEF Tomorrow
<1>2. CASE LockExpires  BY <1>2 DEF LockExpires
<1>3. ASSUME NEW row \in Row, LogRow(row)  PROVE CleanTypeOK'
  BY <1>3 DEF LogRow, Unlogged
<1>4. ASSUME NEW r \in Runner, BeginClean(r)  PROVE CleanTypeOK'
  BY <1>4 DEF BeginClean
<1>5. ASSUME NEW r \in Runner, SelectOld(r)  PROVE CleanTypeOK'
  BY <1>5 DEF SelectOld
<1>6. ASSUME NEW r \in Runner, InsertArchive(r)  PROVE CleanTypeOK'
  BY <1>6 DEF InsertArchive, MayInsert
<1>7. ASSUME NEW r \in Runner, IntegrityError(r)  PROVE CleanTypeOK'
  BY <1>7 DEF IntegrityError, MayInsert, Stops
<1>8. ASSUME NEW r \in Runner, DeleteOld(r)  PROVE CleanTypeOK'
  BY <1>8 DEF DeleteOld, DeleteBefore
<1>9. ASSUME NEW r \in Runner, prune_archive(r)  PROVE CleanTypeOK'
  BY <1>9 DEF prune_archive, Stops
<1>10. ASSUME NEW r \in Runner, KillClean(r)  PROVE CleanTypeOK'
  BY <1>10 DEF KillClean, Stops
<1> QED
  BY <1>1, <1>2, <1>3, <1>4, <1>5, <1>6, <1>7, <1>8, <1>9, <1>10 DEF CleanNext, RunStep

LEMMA CleanInvStep ==
    ASSUME DbCleanAssumption, CleanInv, CleanNext
    PROVE  CleanInv'
<1>1. CleanTypeOK'
  BY CleanTypeStep DEF CleanInv
<1>2. CleanTypeOK /\ InOneTable /\ (messages \cup archive) \cap Unlogged = {}
  BY DEF CleanInv
<1>3. \A r \in Runner : RunInv(r)
  BY DEF CleanInv
<1> DEFINE Goal == (\A r \in Runner : RunInv(r)')
                   /\ (messages' \cup archive') \cap Unlogged' = {} /\ InOneTable'
<1> SUFFICES Goal
  BY <1>1 DEF CleanInv
<1> USE DEF RunInv, Covered, Old, Unlogged, InOneTable, CleanTypeOK, DbCleanAssumption
<1>4. CASE Tomorrow
  BY <1>2, <1>3, <1>4 DEF Tomorrow
<1>5. CASE LockExpires
  BY <1>2, <1>3, <1>5 DEF LockExpires
<1>6. ASSUME NEW row \in Row, LogRow(row)  PROVE Goal
  <2>1. PICK d \in 0..day :
            /\ stamp' = [stamp EXCEPT ![row] = d]
            /\ late' = IF d + Keep < day THEN late \cup {row} ELSE late
    BY <1>6 DEF LogRow
  <2>2. /\ row \in Unlogged /\ messages' = messages \cup {row}
        /\ UNCHANGED <<day, archive, phase, date, selected, inserted>>
    BY <1>6 DEF LogRow
  <2>3. d # MaxDay + 1 /\ Unlogged' = Unlogged \ {row}
    BY <1>2, <2>1, <2>2
  <2>4. \A k \in Row \ {row} : stamp'[k] = stamp[k]
    BY <1>2, <2>1
  <2>5. stamp'[row] = d
    BY <1>2, <2>1
  <2>6. ASSUME NEW r \in Runner  PROVE RunInv(r)'
    <3>1. \A today : today = date[r] /\ d + Keep < today => row \in late'
      BY <1>2, <1>3, <2>1
    <3>2. \A k \in messages' : Old(k, date[r])' => k \in late' \/ (k \in messages /\ Old(k, date[r]))
      BY <1>2, <2>2, <2>4, <2>5, <3>1
    <3>3. late \subseteq late'
      BY <2>1
    <3>4. \A k \in selected[r] \cup inserted[r] : k # row /\ k \in Row
      BY <1>2, <1>3, <2>2
    <3> QED  BY <1>2, <1>3, <2>2, <2>3, <2>4, <3>2, <3>3, <3>4
  <2> QED  BY <1>2, <2>2, <2>3, <2>6
<1>7. ASSUME NEW r \in Runner, BeginClean(r)  PROVE Goal
  <2>1. ASSUME NEW q \in Runner  PROVE RunInv(q)'
    <3>1. CASE q = r
      <4>1. date'[r] = day /\ phase'[r] = "begun"
        BY <1>2, <1>7 DEF BeginClean
      <4>2. \A k \in selected[r] \cup inserted[r] : Old(k, date[r]) => Old(k, day)
        BY <1>2, <1>3
      <4> QED  BY <1>2, <1>3, <1>7, <3>1, <4>1, <4>2 DEF BeginClean
    <3>2. CASE q # r
      BY <1>2, <1>3, <1>7, <3>2 DEF BeginClean
    <3> QED  BY <3>1, <3>2
  <2> QED  BY <1>2, <1>7, <2>1 DEF BeginClean
<1>8. ASSUME NEW r \in Runner, SelectOld(r)  PROVE Goal
  BY <1>2, <1>3, <1>8 DEF SelectOld
<1>9. ASSUME NEW r \in Runner, InsertArchive(r)  PROVE Goal
  BY <1>2, <1>3, <1>9 DEF InsertArchive, MayInsert
<1>10. ASSUME NEW r \in Runner, IntegrityError(r)  PROVE Goal
  BY <1>2, <1>3, <1>10 DEF IntegrityError, MayInsert, Stops
<1>11. ASSUME NEW r \in Runner, DeleteOld(r)  PROVE Goal
  BY <1>2, <1>3, <1>11 DEF DeleteOld, DeleteBefore
<1>12. ASSUME NEW r \in Runner, prune_archive(r)  PROVE Goal
  BY <1>2, <1>3, <1>12 DEF prune_archive, Stops
<1>13. ASSUME NEW r \in Runner, KillClean(r)  PROVE Goal
  BY <1>2, <1>3, <1>13 DEF KillClean, Stops
<1> QED
  BY <1>4, <1>5, <1>6, <1>7, <1>8, <1>9, <1>10, <1>11, <1>12, <1>13 DEF CleanNext, RunStep

LEMMA CleanInductive ==
    ASSUME DbCleanAssumption
    PROVE  (CleanInit => CleanInv) /\ (CleanInv /\ [CleanNext]_cleanVars => CleanInv')
<1>1. CleanInit => CleanInv
  BY DEF CleanInit, CleanInv, CleanTypeOK, LockInit, RunInv, Covered, InOneTable,
         DbCleanAssumption
<1>2. CleanInv /\ UNCHANGED cleanVars => CleanInv'
  BY DEF CleanInv, CleanTypeOK, RunInv, Covered, InOneTable, Old, Unlogged
<1> QED  BY <1>1, <1>2, CleanInvStep

(* The variables have their types.                                           *)
THEOREM CleanTypeCorrect == ASSUME DbCleanAssumption PROVE CleanSpec => []CleanTypeOK
<1>1. CleanInv => CleanTypeOK
  BY DEF CleanInv
<1> QED  BY <1>1, CleanInductive, PTL DEF CleanSpec

(* No row is ever in both tables, so that the INSERT of a cleaner that is    *)
(* alone never fails (dbclean.py:42-52).                                     *)
THEOREM RowsInOneTable == ASSUME DbCleanAssumption PROVE CleanSpec => []InOneTable
<1>1. CleanInv => InOneTable
  BY DEF CleanInv
<1> QED  BY <1>1, CleanInductive, PTL DEF CleanSpec

(* Only rows that came too late are deleted without being archived           *)
(* (dbclean.py:39-58).                                                       *)
THEOREM RowsArchivedFirst == ASSUME DbCleanAssumption PROVE CleanSpec => ArchivedFirst
<1>1. ASSUME CleanInv, CleanNext, NEW row \in messages \ messages'
      PROVE  row \in archive' \cup late
  <2>1. PICK r \in Runner : DeleteOld(r)
    BY <1>1 DEF CleanNext, RunStep, Tomorrow, LockExpires, LogRow, BeginClean, SelectOld,
        InsertArchive, IntegrityError, prune_archive, KillClean
  <2> QED
    BY <1>1, <2>1 DEF DeleteOld, DeleteBefore, CleanInv, RunInv, Covered
<1>2. ASSUME CleanInv, [CleanNext]_cleanVars
      PROVE  [\A row \in messages \ messages' : row \in archive' \cup late]_cleanVars
  BY <1>1, <1>2
<1> QED  BY <1>2, CleanInductive, PTL DEF CleanSpec, ArchivedFirst

HIDE DEF tables, logged, cleanVars, LockTypeOK, acquire_lock, release_lock, Expire

-----------------------------------------------------------------------------
(* Jobs: an upload has its path to itself                                  *)

(* An upload has the path to itself from the check of its name until its     *)
(* task has ended: the file is its own while the task is queued, runs, or    *)
(* has been lost, and there is none when it is about to write it.            *)
Excused == raced \/ crossed # {} \/ EndedLate # {}
Writing(j) == Importing(j) /\ page[j] = "checked"
Holds(j) ==
    /\ Importing(j) /\ page[j] # "gaveup"
    /\ task[j] \in {"queued", "running", "lost"}
PathInv ==
    /\ \A j \in Job : Writing(j) => file[path[j]] = NoJob
    /\ \A i, j \in Job : Writing(i) /\ Writing(j) /\ path[i] = path[j] => i = j
    /\ \A j \in Job : Holds(j) => file[path[j]] = j
    /\ \A j \in Job : Importing(j) /\ task[j] = "running" => unread[j] \subseteq Lines[j]
    /\ \A j \in Job, n \in Name : owner[n] = j => n \in Lines[j]

(* Which states a page and its task can be in together.                      *)
StageInv ==
    \A j \in Job :
        /\ task[j] = "none" <=> page[j] \in {"form", "checked", "refused"}
        /\ task[j] = "queued" => page[j] # "gaveup"
        /\ task[j] = "revoked" => page[j] = "gaveup"
        /\ ~Importing(j) => unread[j] = {}
JobsInv == JobsTypeOK /\ StageInv /\ (Excused \/ PathInv)

USE DEF fixed, web, worker, told, history, jobsVars, Importing, Kind, NewSession, Imported,
        Reads, Turns, Known, Counter, Ready

LEMMA CountsUp ==
    ASSUME JobsAssumption, NEW r \in Sessions, NEW k \in Kind, NEW n \in 0..MaxPolls
    PROVE  [r EXCEPT !.count = [r.count EXCEPT ![k] = n]] \in Sessions
BY DEF Sessions

LEMMA JobsTypeStep ==
    ASSUME JobsAssumption, JobsTypeOK, JobsNext
    PROVE  JobsTypeOK'
<1> USE DEF JobsTypeOK, JobsAssumption
<1>1. ASSUME NEW j \in Job, CheckUpload(j)  PROVE JobsTypeOK'
  BY <1>1 DEF CheckUpload, CheckWith
<1>2. ASSUME NEW j \in Job, BeginExport(j)  PROVE JobsTypeOK'
  BY <1>2 DEF BeginExport
<1>3. ASSUME NEW j \in Job, StartJob(j)  PROVE JobsTypeOK'
  <2>1. seen[j] \in Sessions /\ kind[j] \in Kind /\ path[j] \in Path
    OBVIOUS
  <2>2. 1 \in 0..MaxPolls
    OBVIOUS
  <2> DEFINE saved == [known |-> seen[j].known \cup {j},
                       count |-> [seen[j].count EXCEPT ![kind[j]] = 1],
                       file |-> IF kind[j] = "domains" THEN path[j] ELSE seen[j].file]
  <2>3. saved \in Sessions
    BY <2>1, <2>2 DEF Sessions
  <2>4. NewSession \in Sessions
    BY DEF Sessions
  <2>5. sess' = [sess EXCEPT ![session[j]] = saved] /\ seen' = [seen EXCEPT ![j] = NewSession]
    BY <1>3 DEF StartJob
  <2> HIDE DEF saved, NewSession
  <2>6. sess' \in [Session -> Sessions] /\ seen' \in [Job -> Sessions]
    BY <2>3, <2>4, <2>5
  <2> QED  BY <1>3, <2>6 DEF StartJob
<1>4. ASSUME NEW j \in Job, Expired(j)  PROVE JobsTypeOK'
  BY <1>4 DEF Expired
<1>5. ASSUME NEW j \in Job, StatusReady(j)  PROVE JobsTypeOK'
  BY <1>5 DEF StatusReady, AccountsReady, DomainsReady, OtherReady, Finished, Accounts
<1>6. ASSUME NEW j \in Job, StatusWait(j)  PROVE JobsTypeOK'
  <2>1. sess' \in [Session -> Sessions]
    <3> DEFINE n == sess[session[j]].count[kind[j]] + 1
    <3>1. sess[session[j]] \in Sessions /\ kind[j] \in Kind /\ session[j] \in Session
      OBVIOUS
    <3>2. n \in 0..MaxPolls
      BY <1>6, <3>1 DEF Sessions, StatusWait
    <3>3. [sess[session[j]] EXCEPT !.count = [sess[session[j]].count EXCEPT ![kind[j]] = n]] \in Sessions
      BY <3>1, <3>2, CountsUp
    <3>4. sess' = [sess EXCEPT ![session[j]] =
                [@ EXCEPT !.count = [sess[session[j]].count EXCEPT ![kind[j]] = n]]]
      BY <1>6, <3>1 DEF StatusWait, Waits, CountTo
    <3> QED  BY <3>1, <3>3, <3>4
  <2> QED  BY <1>6, <2>1 DEF StatusWait, Waits, CountTo
<1>7. ASSUME NEW j \in Job, NoCounter(j)  PROVE JobsTypeOK'
  BY <1>7 DEF NoCounter, Waits
<1>8. ASSUME NEW j \in Job, GiveUp(j)  PROVE JobsTypeOK'
  <2>1. sess' \in [Session -> Sessions]
    <3> DEFINE n == 0
    <3>1. sess[session[j]] \in Sessions /\ kind[j] \in Kind /\ session[j] \in Session
      OBVIOUS
    <3>2. n \in 0..MaxPolls
      BY <1>8, <3>1 DEF Sessions, GiveUp
    <3>3. [sess[session[j]] EXCEPT !.count = [sess[session[j]].count EXCEPT ![kind[j]] = n]] \in Sessions
      BY <3>1, <3>2, CountsUp
    <3>4. sess' = [sess EXCEPT ![session[j]] =
                [@ EXCEPT !.count = [sess[session[j]].count EXCEPT ![kind[j]] = n]]]
      BY <1>8, <3>1 DEF GiveUp, GiveUpWith, CountTo
    <3> QED  BY <3>1, <3>3, <3>4
  <2>2. task' \in [Job -> {"none", "queued", "revoked", "running", "done", "raised", "lost"}]
    BY <1>8 DEF GiveUp, GiveUpWith
  <2>3. page' \in [Job -> {"form", "checked", "refused", "status", "finished", "error",
                          "expired", "gaveup"}]
    BY <1>8 DEF GiveUp, GiveUpWith
  <2>4. file' \in [Path -> Job \cup {NoJob}] /\ crossed' \subseteq Job
    BY <1>8 DEF GiveUp, GiveUpWith
  <2>5. UNCHANGED <<fixed, seen, unread, owner, told, raced, lost>>
    BY <1>8 DEF GiveUp, GiveUpWith
  <2> QED  BY <2>1, <2>2, <2>3, <2>4, <2>5
<1>9. ASSUME NEW j \in Job, OpenFile(j)  PROVE JobsTypeOK'
  BY <1>9 DEF OpenFile
<1>10. ASSUME NEW j \in Job, EndImport(j)  PROVE JobsTypeOK'
  BY <1>10 DEF EndImport
<1>11. ASSUME NEW j \in Job, RunExport(j)  PROVE JobsTypeOK'
  BY <1>11 DEF RunExport
<1>12. ASSUME NEW j \in Job, EndExport(j)  PROVE JobsTypeOK'
  BY <1>12 DEF EndExport
<1>13. ASSUME NEW j \in Job, NEW n \in Name, ImportLine(j, n)  PROVE JobsTypeOK'
  BY <1>13 DEF ImportLine, ReadsLine
<1>14. ASSUME NEW j \in Job, NEW n \in Name, RefuseLine(j, n)  PROVE JobsTypeOK'
  BY <1>14 DEF RefuseLine, ReadsLine
<1>15. ASSUME NEW j \in Job, NEW n \in Name, LineRaises(j, n)  PROVE JobsTypeOK'
  BY <1>15 DEF LineRaises, ReadsLine
<1>16. ASSUME NEW j \in Job, LoseTask(j)  PROVE JobsTypeOK'
  BY <1>16 DEF LoseTask
<1> QED
  BY <1>1, <1>2, <1>3, <1>4, <1>5, <1>6, <1>7, <1>8,
     <1>9, <1>10, <1>11, <1>12, <1>13, <1>14, <1>15, <1>16
  DEF JobsNext, Status, Works

LEMMA StageStep ==
    ASSUME JobsAssumption, JobsTypeOK, StageInv, JobsNext
    PROVE  StageInv'
<1> USE DEF JobsTypeOK, StageInv
<1>1. ASSUME NEW j \in Job, CheckUpload(j)  PROVE StageInv'
  BY <1>1 DEF CheckUpload, CheckWith
<1>2. ASSUME NEW j \in Job, BeginExport(j)  PROVE StageInv'
  BY <1>2 DEF BeginExport
<1>3. ASSUME NEW j \in Job, StartJob(j)  PROVE StageInv'
  BY <1>3 DEF StartJob
<1>4. ASSUME NEW j \in Job, Expired(j)  PROVE StageInv'
  BY <1>4 DEF Expired
<1>5. ASSUME NEW j \in Job, StatusReady(j)  PROVE StageInv'
  BY <1>5 DEF StatusReady, AccountsReady, DomainsReady, OtherReady, Finished, Accounts
<1>6. ASSUME NEW j \in Job, StatusWait(j)  PROVE StageInv'
  BY <1>6 DEF StatusWait, Waits, CountTo
<1>7. ASSUME NEW j \in Job, NoCounter(j)  PROVE StageInv'
  BY <1>7 DEF NoCounter, Waits
<1>8. ASSUME NEW j \in Job, GiveUp(j)  PROVE StageInv'
  BY <1>8 DEF GiveUp, GiveUpWith, Waits, CountTo
<1>9. ASSUME NEW j \in Job, OpenFile(j)  PROVE StageInv'
  BY <1>9 DEF OpenFile
<1>10. ASSUME NEW j \in Job, EndImport(j)  PROVE StageInv'
  BY <1>10 DEF EndImport
<1>11. ASSUME NEW j \in Job, RunExport(j)  PROVE StageInv'
  BY <1>11 DEF RunExport
<1>12. ASSUME NEW j \in Job, EndExport(j)  PROVE StageInv'
  BY <1>12 DEF EndExport
<1>13. ASSUME NEW j \in Job, NEW n \in Name, ImportLine(j, n)  PROVE StageInv'
  BY <1>13 DEF ImportLine, ReadsLine
<1>14. ASSUME NEW j \in Job, NEW n \in Name, RefuseLine(j, n)  PROVE StageInv'
  BY <1>14 DEF RefuseLine, ReadsLine
<1>15. ASSUME NEW j \in Job, NEW n \in Name, LineRaises(j, n)  PROVE StageInv'
  BY <1>15 DEF LineRaises, ReadsLine
<1>16. ASSUME NEW j \in Job, LoseTask(j)  PROVE StageInv'
  BY <1>16 DEF LoseTask
<1> QED
  BY <1>1, <1>2, <1>3, <1>4, <1>5, <1>6, <1>7, <1>8,
     <1>9, <1>10, <1>11, <1>12, <1>13, <1>14, <1>15, <1>16
  DEF JobsNext, Status, Works

(* What excuses is never taken back.                                         *)

LEMMA ExcusedStays ==
    ASSUME JobsAssumption, JobsTypeOK, Excused, JobsNext
    PROVE  Excused'
<1> USE DEF JobsTypeOK, Excused, EndedLate
<1>1. ASSUME NEW j \in Job, CheckUpload(j)  PROVE Excused'
  BY <1>1 DEF CheckUpload, CheckWith
<1>2. ASSUME NEW j \in Job, BeginExport(j)  PROVE Excused'
  BY <1>2 DEF BeginExport
<1>3. ASSUME NEW j \in Job, StartJob(j)  PROVE Excused'
  BY <1>3 DEF StartJob
<1>4. ASSUME NEW j \in Job, Expired(j)  PROVE Excused'
  BY <1>4 DEF Expired
<1>5. ASSUME NEW j \in Job, StatusReady(j)  PROVE Excused'
  BY <1>5 DEF StatusReady, AccountsReady, DomainsReady, OtherReady, Finished, Accounts
<1>6. ASSUME NEW j \in Job, StatusWait(j)  PROVE Excused'
  BY <1>6 DEF StatusWait, Waits, CountTo
<1>7. ASSUME NEW j \in Job, NoCounter(j)  PROVE Excused'
  BY <1>7 DEF NoCounter, Waits
<1>8. ASSUME NEW j \in Job, GiveUp(j)  PROVE Excused'
  BY <1>8 DEF GiveUp, GiveUpWith, Waits, CountTo
<1>9. ASSUME NEW j \in Job, OpenFile(j)  PROVE Excused'
  BY <1>9 DEF OpenFile
<1>10. ASSUME NEW j \in Job, EndImport(j)  PROVE Excused'
  BY <1>10 DEF EndImport
<1>11. ASSUME NEW j \in Job, RunExport(j)  PROVE Excused'
  BY <1>11 DEF RunExport
<1>12. ASSUME NEW j \in Job, EndExport(j)  PROVE Excused'
  BY <1>12 DEF EndExport
<1>13. ASSUME NEW j \in Job, NEW n \in Name, ImportLine(j, n)  PROVE Excused'
  BY <1>13 DEF ImportLine, ReadsLine
<1>14. ASSUME NEW j \in Job, NEW n \in Name, RefuseLine(j, n)  PROVE Excused'
  BY <1>14 DEF RefuseLine, ReadsLine
<1>15. ASSUME NEW j \in Job, NEW n \in Name, LineRaises(j, n)  PROVE Excused'
  BY <1>15 DEF LineRaises, ReadsLine
<1>16. ASSUME NEW j \in Job, LoseTask(j)  PROVE Excused'
  BY <1>16 DEF LoseTask
<1> QED
  BY <1>1, <1>2, <1>3, <1>4, <1>5, <1>6, <1>7, <1>8,
     <1>9, <1>10, <1>11, <1>12, <1>13, <1>14, <1>15, <1>16
  DEF JobsNext, Status, Works

LEMMA PathStep ==
    ASSUME JobsAssumption, JobsTypeOK, StageInv, PathInv, ~Excused, ~Excused', JobsNext
    PROVE  PathInv'
<1> USE DEF JobsTypeOK, JobsAssumption, StageInv, PathInv, Excused, EndedLate, Writing,
            Holds
<1>1. ASSUME NEW j \in Job, CheckUpload(j)  PROVE PathInv'
  <2>1. PICK free \in {TRUE, FALSE} :
            /\ page' = [page EXCEPT ![j] = IF free THEN "checked" ELSE "refused"]
            /\ free => file[path[j]] = NoJob
            /\ free => \A i \in Job : page[i] = "checked" => path[i] # path[j]
    BY <1>1 DEF CheckUpload, CheckWith
  <2>2. page[j] = "form" /\ UNCHANGED <<fixed, file, worker>>
    BY <1>1 DEF CheckUpload, CheckWith
  <2> QED  BY <2>1, <2>2
<1>2. ASSUME NEW j \in Job, BeginExport(j)  PROVE PathInv'
  BY <1>2 DEF BeginExport
<1>3. ASSUME NEW j \in Job, StartJob(j)  PROVE PathInv'
  BY <1>3 DEF StartJob
<1>4. ASSUME NEW j \in Job, Expired(j)  PROVE PathInv'
  BY <1>4 DEF Expired
<1>5. ASSUME NEW j \in Job, StatusReady(j)  PROVE PathInv'
  BY <1>5 DEF StatusReady, AccountsReady, DomainsReady, OtherReady, Finished, Accounts
<1>6. ASSUME NEW j \in Job, StatusWait(j)  PROVE PathInv'
  BY <1>6 DEF StatusWait, Waits, CountTo
<1>7. ASSUME NEW j \in Job, NoCounter(j)  PROVE PathInv'
  BY <1>7 DEF NoCounter, Waits
<1>8. ASSUME NEW j \in Job, GiveUp(j)  PROVE PathInv'
  <2>1. /\ page[j] = "status" /\ task[j] \notin {"none", "revoked", "done", "raised"}
        /\ page' = [page EXCEPT ![j] = "gaveup"]
        /\ task' = [task EXCEPT ![j] = IF @ = "queued" THEN "revoked" ELSE @]
        /\ UNCHANGED <<fixed, unread, owner>>
    BY <1>8 DEF GiveUp, GiveUpWith, Waits
  <2>2. kind[j] = "domains" => sess[session[j]].file = path[j]
    BY <1>8 DEF GiveUp, GiveUpWith
  <2>3. file' = [p \in Path |-> IF p = path[j] /\ Importing(j) THEN NoJob ELSE file[p]]
    BY <1>8, <2>2 DEF GiveUp, GiveUpWith, Waits
  <2>4. Importing(j) => Holds(j)
    BY <2>1
  <2>5. ASSUME NEW i \in Job, Holds(i)'  PROVE file'[path[i]] = i
    <3>1. i # j /\ Holds(i)
      BY <2>1, <2>5
    <3>2. file[path[i]] = i
      BY <3>1
    <3>3. Importing(j) => path[i] # path[j]
      BY <2>4, <3>1, <3>2
    <3> QED  BY <2>3, <3>2, <3>3
  <2> QED  BY <2>1, <2>3, <2>5
<1>9. ASSUME NEW j \in Job, OpenFile(j)  PROVE PathInv'
  BY <1>9 DEF OpenFile
<1>10. ASSUME NEW j \in Job, EndImport(j)  PROVE PathInv'
  BY <1>10 DEF EndImport
<1>11. ASSUME NEW j \in Job, RunExport(j)  PROVE PathInv'
  BY <1>11 DEF RunExport
<1>12. ASSUME NEW j \in Job, EndExport(j)  PROVE PathInv'
  BY <1>12 DEF EndExport
<1>13. ASSUME NEW j \in Job, NEW n \in Name, ImportLine(j, n)  PROVE PathInv'
  BY <1>13 DEF ImportLine, ReadsLine
<1>14. ASSUME NEW j \in Job, NEW n \in Name, RefuseLine(j, n)  PROVE PathInv'
  BY <1>14 DEF RefuseLine, ReadsLine
<1>15. ASSUME NEW j \in Job, NEW n \in Name, LineRaises(j, n)  PROVE PathInv'
  BY <1>15 DEF LineRaises, ReadsLine
<1>16. ASSUME NEW j \in Job, LoseTask(j)  PROVE PathInv'
  BY <1>16 DEF LoseTask
<1> QED
  BY <1>1, <1>2, <1>3, <1>4, <1>5, <1>6, <1>7, <1>8,
     <1>9, <1>10, <1>11, <1>12, <1>13, <1>14, <1>15, <1>16
  DEF JobsNext, Status, Works

LEMMA JobsInductive == ASSUME JobsAssumption PROVE JobsSpec => []JobsInv
<1>1. JobsInit => JobsInv
  <2> SUFFICES ASSUME JobsInit PROVE JobsInv
    OBVIOUS
  <2>1. JobsTypeOK
    <3>1. NewSession \in Sessions
      BY DEF Sessions, JobsAssumption
    <3> HIDE DEF NewSession
    <3>2. sess \in [Session -> Sessions] /\ seen \in [Job -> Sessions]
      BY <3>1 DEF JobsInit
    <3>3. lost \in 0..MaxLost
      BY DEF JobsInit, JobsAssumption
    <3> QED  BY <3>2, <3>3 DEF JobsInit, JobsTypeOK
  <2>2. StageInv /\ PathInv
    BY DEF JobsInit, StageInv, PathInv, Writing, Holds, JobsAssumption
  <2> QED  BY <2>1, <2>2 DEF JobsInv
<1>2. JobsInv /\ [JobsNext]_jobsVars => JobsInv'
  <2> SUFFICES ASSUME JobsInv, [JobsNext]_jobsVars PROVE JobsInv'
    OBVIOUS
  <2>1. CASE JobsNext
    BY <2>1, JobsTypeStep, StageStep, ExcusedStays, PathStep DEF JobsInv
  <2>2. CASE UNCHANGED jobsVars
    BY <2>2 DEF JobsInv, JobsTypeOK, StageInv, Excused, EndedLate, PathInv, Writing, Holds
  <2> QED  BY <2>1, <2>2
<1> QED  BY <1>1, <1>2, PTL DEF JobsSpec

(* The variables have their types: no counter of a session passes the number *)
(* of refreshes at which a page gives up (organizations.py:363).             *)
THEOREM JobsTypeCorrect == ASSUME JobsAssumption PROVE JobsSpec => []JobsTypeOK
<1>1. JobsInv => JobsTypeOK
  BY DEF JobsInv
<1> QED  BY <1>1, JobsInductive, PTL

(* For any number of uploads at once, of any sessions: none imports another's*)
(* lines, but in the ways that OwnLinesOnly names (organizations.py:294-302, *)
(* 368, tasks/organizations.py:223).                                         *)
THEOREM LinesGoToTheirOwn == ASSUME JobsAssumption PROVE JobsSpec => []OwnLinesOnly
<1>1. JobsInv => OwnLinesOnly
  BY DEF JobsInv, Excused, PathInv, OwnLinesOnly
<1> QED  BY <1>1, JobsInductive, PTL

HIDE DEF fixed, web, worker, told, history, jobsVars, Importing, Kind, NewSession, Imported,
         Reads, Turns, Known, Counter, Ready

-----------------------------------------------------------------------------
(* Passwords: the types                                                    *)

(* A request that has made a token or looked one up remembers it.            *)
PasswordsInv ==
    /\ PasswordsTypeOK
    /\ \A a \in Asker : asking[a] = "inserted" => minted[a] \in Token
    /\ \A v \in Visitor : visiting[v] \in {"fresh", "stale"} => link[v] \in Token

LEMMA PasswordsInductive == ASSUME PasswordsAssumption PROVE PasswordsSpec => []PasswordsInv
<1> USE DEF PasswordsAssumption, PasswordsInv, PasswordsTypeOK, pages, counters
<1>1. PasswordsInit => PasswordsInv
  BY DEF PasswordsInit
<1>2. PasswordsInv /\ [PasswordsNext]_passwordVars => PasswordsInv'
  <2> SUFFICES ASSUME PasswordsInv, [PasswordsNext]_passwordVars PROVE PasswordsInv'
    OBVIOUS
  <2>1. ASSUME NEW a \in Asker, AskStep(a) PROVE PasswordsInv'
    <3>1. CASE AskChecks(a)   BY <3>1 DEF AskChecks, AskTurns
    <3>2. CASE AskInserts(a)  BY <3>2 DEF AskInserts, AskTurns
    <3>3. CASE AskMails(a)    BY <3>3 DEF AskMails, AskTurns
    <3>4. CASE AskMailLost(a) BY <3>4 DEF AskMailLost, AskTurns
    <3> QED BY <2>1, <3>1, <3>2, <3>3, <3>4 DEF AskStep
  <2>2. ASSUME NEW v \in Visitor, VisitStep(v) PROVE PasswordsInv'
    <3>1. CASE Visit(v)         BY <3>1 DEF Visit, VisitTurns
    <3>2. CASE TokenExpired(v)  BY <3>2 DEF TokenExpired, TokenExpiredThen, VisitTurns
    <3>3. CASE SetPassword(v)   BY <3>3 DEF SetPassword, VisitTurns
    <3>4. CASE VisitMails(v)    BY <3>4 DEF VisitMails, VisitTurns
    <3>5. CASE VisitMailLost(v) BY <3>5 DEF VisitMailLost, VisitTurns
    <3> QED BY <2>2, <3>1, <3>2, <3>3, <3>4, <3>5 DEF VisitStep
  <2>3. ASSUME NEW who \in {Own, Admin}, ChangePassword(who) PROVE PasswordsInv'
    BY <2>3 DEF ChangePassword
  <2>4. CASE Forget
    BY <2>4 DEF Forget
  <2>5. ASSUME NEW t \in Token, GrowsOld(t) PROVE PasswordsInv'
    BY <2>5 DEF GrowsOld
  <2>6. CASE UNCHANGED passwordVars
    BY <2>6 DEF passwordVars
  <2> QED BY <2>1, <2>2, <2>3, <2>4, <2>5, <2>6 DEF PasswordsNext
<1> QED BY <1>1, <1>2, PTL DEF PasswordsSpec

(* The variables have their types: a link that is followed, and a mail that  *)
(* is sent, always have a token (accounts.py:220-243, 254-284).              *)
THEOREM PasswordsTypeCorrect ==
    ASSUME PasswordsAssumption PROVE PasswordsSpec => []PasswordsTypeOK
<1>1. PasswordsInv => PasswordsTypeOK
  BY DEF PasswordsInv
<1> QED BY <1>1, PasswordsInductive, PTL

-----------------------------------------------------------------------------
(* Together: each part goes by its own specification in Progress too.        *)

LEMMA ProgressSteps ==
    ASSUME [ProgressNext]_progressVars
    PROVE  /\ [QueueNext]_queueVars /\ [CleanNext]_cleanVars
           /\ [JobsNext]_jobsVars /\ [PasswordsNext]_passwordVars
  BY DEF ProgressNext, progressVars, MailqActs, DbcleanActs, JobsActs, PasswordsActs

(* Whichever part a behaviour is about, for any values of the constants of   *)
(* all: the state of each stays within its types (the code of every part).   *)
THEOREM ProgressTypeCorrect ==
    ASSUME ProgressAssumption PROVE ProgressSpec => []ProgressTypeOK
<1> USE DEF ProgressAssumption
<1>1. ProgressInit => QueueInit /\ CleanInit /\ JobsInit /\ PasswordsInit
  BY DEF ProgressInit
<1>2. ProgressSpec => QueueSpec /\ CleanSpec /\ JobsSpec /\ PasswordsSpec
  BY <1>1, ProgressSteps, PTL DEF ProgressSpec, QueueSpec, CleanSpec, JobsSpec, PasswordsSpec
<1>3. /\ QueueSpec => []QueueTypeOK
      /\ CleanSpec => []CleanTypeOK
      /\ JobsSpec => []JobsTypeOK
      /\ PasswordsSpec => []PasswordsTypeOK
  BY QueueTypeCorrect, CleanTypeCorrect, JobsTypeCorrect, PasswordsTypeCorrect
<1>4. QueueTypeOK /\ CleanTypeOK /\ JobsTypeOK /\ PasswordsTypeOK => ProgressTypeOK
  BY DEF ProgressTypeOK
<1> QED  BY <1>2, <1>3, <1>4, PTL
=============================================================================
