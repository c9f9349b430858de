-------------------------- MODULE QuarantineProofs --------------------------
(***************************************************************************)
(* What holds of Quarantine for every number of messages, requests, links  *)
(* and crashes, and every combination of actions asked for.                *)
(***************************************************************************)
EXTENDS Quarantine, TLAPS

USE DEF store, request, work, links, cleaner

(* Where a task goes from a step of process_message.                       *)
LEMMA Onward ==
  ASSUME NEW j, NEW A
  PROVE  /\ StepAfter(j, A) \in {"release", "learn", "delete", "done"}
         /\ "release" \in A => StepAfter(j, A) # "release"
BY DEF StepAfter

(* One entry of a result changes, of one task.                             *)
LEMMA ResultOf ==
  ASSUME TypeOK, NEW j \in Job, NEW x \in Actions, NEW r \in {"ok", "failed"}
  PROVE  /\ Result(j, x, r) \in [Job -> [Actions -> {"none", "ok", "failed"}]]
         /\ \A i \in Job \ {j} : Result(j, x, r)[i] = res[i]
         /\ Result(j, x, r)[j][x] = r
         /\ \A y \in Actions \ {x} : Result(j, x, r)[j][y] = res[j][y]
BY DEF TypeOK, Result

(* process_exception fails what was asked for, of one task.                *)
LEMMA AllFailedOf ==
  ASSUME TypeOK, NEW j \in Job
  PROVE  /\ AllFailed(j) \in [Job -> [Actions -> {"none", "ok", "failed"}]]
         /\ \A i \in Job \ {j} : AllFailed(j)[i] = res[i]
         /\ \A x \in Actions : AllFailed(j)[j][x] \in {"failed", res[j][x]}
BY DEF TypeOK, AllFailed

(* The types hold: TypeOK is an invariant.                                 *)
THEOREM QuarantineTypes == Spec => []TypeOK
<1>1. Init => TypeOK
  BY DEF Init, TypeOK
<1>2. TypeOK /\ [Next]_vars => TypeOK'
  <2> SUFFICES ASSUME TypeOK, [Next]_vars PROVE TypeOK'
    OBVIOUS
  <2> USE DEF TypeOK
  <2>1. ASSUME NEW j \in Job, Detail(j) PROVE TypeOK'
    BY <2>1, ConstantsAssumption DEF Detail, Ask, Running
  <2>2. ASSUME NEW S \in SUBSET Job, Bulk(S) PROVE TypeOK'
    BY <2>2, ConstantsAssumption DEF Bulk, Ask, Running
  <2>3. ASSUME NEW l \in Link, NEW j \in Job, Autorelease(l, j) PROVE TypeOK'
    BY <2>3, ConstantsAssumption DEF Autorelease, Ask, Actions, Running
  <2>4. ASSUME NEW j \in Job, Search(j) PROVE TypeOK'
    <3>1. pc' \in [Job -> {"idle", "queued", "done", "raised", "revoked", "dead"} \cup Running]
      <4>1. CASE Found(About[j])
        BY <2>4, <4>1, Onward DEF Search, Running
      <4>2. CASE ~Found(About[j])
        BY <2>4, <4>2, Onward DEF Search, Running
      <4> QED
        BY <4>1, <4>2
    <3>2. res' \in [Job -> [Actions -> {"none", "ok", "failed"}]]
      BY <2>4, AllFailedOf DEF Search, Actions
    <3> QED
      BY <2>4, <3>1, <3>2 DEF Search
  <2>5. ASSUME NEW j \in Job, CheckMemFails(j) PROVE TypeOK'
    BY <2>5, AllFailedOf DEF CheckMemFails, Running
  <2>6. ASSUME NEW j \in Job, ReleaseRead(j) PROVE TypeOK'
    <3>1. pc' \in [Job -> {"idle", "queued", "done", "raised", "revoked", "dead"} \cup Running]
      <4>1. CASE file[About[j]]
        BY <2>6, <4>1, Onward DEF ReleaseRead, Running
      <4>2. CASE ~file[About[j]]
        BY <2>6, <4>2, Onward DEF ReleaseRead, Running
      <4> QED
        BY <4>1, <4>2
    <3>2. res' \in [Job -> [Actions -> {"none", "ok", "failed"}]]
      BY <2>6, ResultOf DEF ReleaseRead, Actions
    <3> QED
      BY <2>6, <3>1, <3>2 DEF ReleaseRead
  <2>7. ASSUME NEW j \in Job, ReleaseSend(j) PROVE TypeOK'
    BY <2>7, Onward, ResultOf DEF ReleaseSend, Actions, Running
  <2>8. ASSUME NEW j \in Job, ReleaseRaises(j) PROVE TypeOK'
    BY <2>8 DEF ReleaseRaises, Running
  <2>9. ASSUME NEW j \in Job, Learn(j) PROVE TypeOK'
    BY <2>9, Onward, ResultOf DEF Learn, Actions, Running
  <2>10. ASSUME NEW j \in Job, Delete(j) PROVE TypeOK'
    <3>1. pc' \in [Job -> {"idle", "queued", "done", "raised", "revoked", "dead"} \cup Running]
      <4>1. CASE file[About[j]]
        BY <2>10, <4>1, Onward DEF Delete, Running
      <4>2. CASE ~file[About[j]]
        BY <2>10, <4>2, Onward DEF Delete, Running
      <4> QED
        BY <4>1, <4>2
    <3>2. res' \in [Job -> [Actions -> {"none", "ok", "failed"}]]
      BY <2>10, ResultOf DEF Delete, Actions
    <3>3. file' \in [Msg -> BOOLEAN]
      BY <2>10, ConstantsAssumption DEF Delete
    <3> QED
      BY <2>10, <3>1, <3>2, <3>3 DEF Delete
  <2>11. ASSUME NEW j \in Job, Unflag(j) PROVE TypeOK'
    BY <2>11, ConstantsAssumption DEF Unflag, Running
  <2>12. ASSUME NEW j \in Job, UnflagRaises(j) PROVE TypeOK'
    BY <2>12 DEF UnflagRaises, Running
  <2>13. ASSUME NEW l \in Link, UpdateAutorelease(l) PROVE TypeOK'
    BY <2>13 DEF UpdateAutorelease, Running
  <2>14. ASSUME NEW j \in Job, Answer(j) PROVE TypeOK'
    BY <2>14, ConstantsAssumption DEF Answer
  <2>15. ASSUME NEW j \in Job, GiveUp(j) PROVE TypeOK'
    BY <2>15 DEF GiveUp
  <2>16. CASE BulkAnswer
    BY <2>16 DEF BulkAnswer, Running
  <2>17. CASE BulkRevoke
    BY <2>17 DEF BulkRevoke, Running
  <2>18. CASE CleanList
    BY <2>18 DEF CleanList
  <2>19. CASE CleanUnflag
    BY <2>19 DEF CleanUnflag, Running
  <2>20. ASSUME NEW m \in Msg, CleanRemove(m) PROVE TypeOK'
    BY <2>20 DEF CleanRemove, CleanerOff, Running
  <2>21. CASE CleanEnd
    BY <2>21 DEF CleanEnd, CleanerOff, Running
  <2>22. CASE CleanCrash
    BY <2>22 DEF CleanCrash, CleanerOff, Running
  <2>23. CASE Crash
    BY <2>23 DEF Crash, Running
  <2>24. CASE UNCHANGED vars
    BY <2>24 DEF vars
  <2> QED
    BY <2>1, <2>2, <2>3, <2>4, <2>5, <2>6, <2>7, <2>8, <2>9, <2>10, <2>11,
       <2>12, <2>13, <2>14, <2>15, <2>16, <2>17, <2>18, <2>19, <2>20, <2>21,
       <2>22, <2>23, <2>24
       DEF Next, WorkerStep, AnswerStep, CleanerStep
<1> QED
  BY <1>1, <1>2, PTL DEF Spec

-----------------------------------------------------------------------------
(* FlagHonest is not inductive. It needs that a request nobody has made    *)
(* has no task, that a task only unflags what it has removed, and that the *)
(* cleaner removes only what it listed and unflagged.                      *)
NoTaskYet == \A j \in Job : from[j] = "nobody" => pc[j] = "idle"

UnflagsDeleted == \A j \in Job : pc[j] = "unflag" => res[j]["delete"] = "ok"

CleanerInv ==
  /\ cpc = "unflag" => \A m \in Msg : file[m] => m \in ids
  /\ cpc = "rmtree" => \A m \in ctodo \ Late : ~flag[m]

FlagInv == FlagHonest /\ NoTaskYet /\ UnflagsDeleted /\ CleanerInv

(* A new request touches neither a file, nor a row, nor a task that runs.  *)
LEMMA AskKeeps ==
  ASSUME TypeOK, FlagInv, NEW S \in SUBSET Job, NEW who \in {"page", "bulk"} \cup Link, NEW A,
         Ask(S, who, A)
  PROVE  FlagInv'
<1> USE ConstantsAssumption DEF FlagInv
<1>1. \A j \in Job : pc[j] # "idle" => pc'[j] = pc[j]
  BY DEF Ask, NoTaskYet, TypeOK
<1>2. \A j \in Job : pc'[j] = pc[j] \/ pc'[j] = "queued"
  BY DEF Ask, TypeOK
<1>3. \A j \in Job : BetweenFileAndRow(j) => BetweenFileAndRow(j)'
  BY <1>1 DEF Ask, BetweenFileAndRow
<1>4. FlagHonest'
  BY <1>3 DEF Ask, FlagHonest
<1>5. NoTaskYet'
  <2> SUFFICES ASSUME NEW j \in Job, from'[j] = "nobody" PROVE pc'[j] = "idle"
    BY DEF NoTaskYet
  <2>1. j \notin S
    BY DEF Ask, TypeOK
  <2> QED
    BY <2>1 DEF Ask, NoTaskYet, TypeOK
<1>6. UnflagsDeleted'
  BY <1>2 DEF Ask, UnflagsDeleted
<1>7. CleanerInv'
  BY DEF Ask, CleanerInv
<1> QED
  BY <1>4, <1>5, <1>6, <1>7

(* FlagInv is kept by every step.                                          *)
LEMMA FlagInductive ==
  ASSUME TypeOK, FlagInv, [Next]_vars
  PROVE  FlagInv'
<1> USE DEF FlagInv
<1>1. ASSUME NEW j \in Job, Detail(j) PROVE FlagInv'
  BY <1>1, AskKeeps DEF Detail
<1>2. ASSUME NEW S \in SUBSET Job, Bulk(S) PROVE FlagInv'
  BY <1>2, AskKeeps DEF Bulk
<1>3. ASSUME NEW l \in Link, NEW j \in Job, Autorelease(l, j) PROVE FlagInv'
  BY <1>3, AskKeeps DEF Autorelease
<1>4. ASSUME NEW j \in Job, Search(j) PROVE FlagInv'
  <2>1. \A i \in Job \ {j} : pc'[i] = pc[i] /\ res'[i] = res[i]
    BY <1>4, AllFailedOf DEF Search, TypeOK
  <2>2. ~BetweenFileAndRow(j) /\ pc[j] # "idle" /\ pc'[j] # "unflag"
    BY <1>4, Onward DEF Search, BetweenFileAndRow, TypeOK
  <2> QED
    BY <1>4, <2>1, <2>2
       DEF Search, FlagHonest, NoTaskYet, UnflagsDeleted, CleanerInv, BetweenFileAndRow
<1>5. ASSUME NEW j \in Job, CheckMemFails(j) PROVE FlagInv'
  <2>1. \A i \in Job \ {j} : pc'[i] = pc[i] /\ res'[i] = res[i]
    BY <1>5, AllFailedOf DEF CheckMemFails, TypeOK
  <2>2. ~BetweenFileAndRow(j) /\ pc[j] # "idle" /\ pc'[j] # "unflag"
    BY <1>5, Onward DEF CheckMemFails, BetweenFileAndRow, TypeOK
  <2> QED
    BY <1>5, <2>1, <2>2
       DEF CheckMemFails, FlagHonest, NoTaskYet, UnflagsDeleted, CleanerInv,
           BetweenFileAndRow
<1>6. ASSUME NEW j \in Job, ReleaseRead(j) PROVE FlagInv'
  <2>1. \A i \in Job \ {j} : pc'[i] = pc[i] /\ res'[i] = res[i]
    BY <1>6, ResultOf DEF ReleaseRead, Actions, TypeOK
  <2>2. ~BetweenFileAndRow(j) /\ pc[j] # "idle" /\ pc'[j] # "unflag"
    BY <1>6, Onward DEF ReleaseRead, BetweenFileAndRow, TypeOK
  <2> QED
    BY <1>6, <2>1, <2>2
       DEF ReleaseRead, FlagHonest, NoTaskYet, UnflagsDeleted, CleanerInv, BetweenFileAndRow
<1>7. ASSUME NEW j \in Job, ReleaseSend(j) PROVE FlagInv'
  <2>1. \A i \in Job \ {j} : pc'[i] = pc[i] /\ res'[i] = res[i]
    BY <1>7, ResultOf DEF ReleaseSend, Actions, TypeOK
  <2>2. ~BetweenFileAndRow(j) /\ pc[j] # "idle" /\ pc'[j] # "unflag"
    BY <1>7, Onward DEF ReleaseSend, BetweenFileAndRow, TypeOK
  <2> QED
    BY <1>7, <2>1, <2>2
       DEF ReleaseSend, FlagHonest, NoTaskYet, UnflagsDeleted, CleanerInv, BetweenFileAndRow
<1>8. ASSUME NEW j \in Job, ReleaseRaises(j) PROVE FlagInv'
  <2>1. \A i \in Job \ {j} : pc'[i] = pc[i] /\ res'[i] = res[i]
    BY <1>8 DEF ReleaseRaises, TypeOK
  <2>2. ~BetweenFileAndRow(j) /\ pc[j] # "idle" /\ pc'[j] # "unflag"
    BY <1>8, Onward DEF ReleaseRaises, BetweenFileAndRow, TypeOK
  <2> QED
    BY <1>8, <2>1, <2>2
       DEF ReleaseRaises, FlagHonest, NoTaskYet, UnflagsDeleted, CleanerInv,
           BetweenFileAndRow
<1>9. ASSUME NEW j \in Job, Learn(j) PROVE FlagInv'
  <2>1. \A i \in Job \ {j} : pc'[i] = pc[i] /\ res'[i] = res[i]
    BY <1>9, ResultOf DEF Learn, Actions, TypeOK
  <2>2. ~BetweenFileAndRow(j) /\ pc[j] # "idle" /\ pc'[j] # "unflag"
    BY <1>9, Onward DEF Learn, BetweenFileAndRow, TypeOK
  <2> QED
    BY <1>9, <2>1, <2>2
       DEF Learn, FlagHonest, NoTaskYet, UnflagsDeleted, CleanerInv, BetweenFileAndRow
<1>10. ASSUME NEW j \in Job, Delete(j) PROVE FlagInv'
  <2>1. \A i \in Job \ {j} : pc'[i] = pc[i] /\ res'[i] = res[i]
    BY <1>10, ResultOf DEF Delete, Actions, TypeOK
  <2>2. ~BetweenFileAndRow(j) /\ pc[j] # "idle"
    BY <1>10 DEF Delete, BetweenFileAndRow, TypeOK
  <2>3. pc'[j] = "unflag" => res'[j]["delete"] = "ok"
    BY <1>10, ResultOf DEF Delete, Actions, TypeOK
  <2>4. \A m \in Msg : file[m] => file'[m] \/ (m = About[j] /\ pc'[j] = "unflag")
    BY <1>10 DEF Delete, TypeOK
  <2>5. \A m \in Msg : file'[m] => file[m]
    BY <1>10 DEF Delete, TypeOK
  <2> QED
    BY <1>10, <2>1, <2>2, <2>3, <2>4, <2>5
       DEF Delete, FlagHonest, NoTaskYet, UnflagsDeleted, CleanerInv, BetweenFileAndRow
<1>11. ASSUME NEW j \in Job, Unflag(j) PROVE FlagInv'
  <2>1. \A i \in Job \ {j} : pc'[i] = pc[i] /\ res'[i] = res[i]
    BY <1>11 DEF Unflag, TypeOK
  <2>2. pc[j] # "idle" /\ pc'[j] = "done"
    BY <1>11 DEF Unflag, TypeOK
  <2>3. \A m \in Msg : flag'[m] => flag[m] /\ m # About[j]
    BY <1>11 DEF Unflag, TypeOK
  <2>4. BetweenFileAndRow(j) /\ \A i \in Job \ {j} : BetweenFileAndRow(i) => BetweenFileAndRow(i)'
    BY <1>11, <2>1 DEF Unflag, BetweenFileAndRow
  <2> QED
    BY <1>11, <2>1, <2>2, <2>3, <2>4
       DEF Unflag, FlagHonest, NoTaskYet, UnflagsDeleted, CleanerInv
<1>12. ASSUME NEW j \in Job, UnflagRaises(j) PROVE FlagInv'
  <2>1. \A i \in Job \ {j} : pc'[i] = pc[i] /\ res'[i] = res[i]
    BY <1>12 DEF UnflagRaises, TypeOK
  <2>2. BetweenFileAndRow(j)' /\ pc[j] # "idle" /\ pc'[j] # "unflag"
    BY <1>12 DEF UnflagRaises, BetweenFileAndRow, UnflagsDeleted, TypeOK
  <2> QED
    BY <1>12, <2>1, <2>2
       DEF UnflagRaises, FlagHonest, NoTaskYet, UnflagsDeleted, CleanerInv, BetweenFileAndRow
<1>13. ASSUME NEW l \in Link, UpdateAutorelease(l) PROVE FlagInv'
  BY <1>13
     DEF UpdateAutorelease, FlagHonest, NoTaskYet, UnflagsDeleted, CleanerInv,
         BetweenFileAndRow
<1>14. ASSUME NEW j \in Job, Answer(j) PROVE FlagInv'
  <2>1. \A m \in Msg : flag'[m] => flag[m]
    BY <1>14 DEF Answer, TypeOK
  <2>2. UNCHANGED <<file, pc, res, from, cleaner>>
    BY <1>14 DEF Answer
  <2> QED
    BY <2>1, <2>2
       DEF FlagHonest, NoTaskYet, UnflagsDeleted, CleanerInv, BetweenFileAndRow, TypeOK
<1>15. ASSUME NEW j \in Job, GiveUp(j) PROVE FlagInv'
  BY <1>15 DEF GiveUp, FlagHonest, NoTaskYet, UnflagsDeleted, CleanerInv, BetweenFileAndRow
<1>16. CASE BulkAnswer
  BY <1>16
     DEF BulkAnswer, FlagHonest, NoTaskYet, UnflagsDeleted, CleanerInv, BetweenFileAndRow
<1>17. CASE BulkRevoke
  <2>1. \A i \in Job : pc'[i] = pc[i] \/ (pc[i] = "queued" /\ pc'[i] = "revoked")
    BY <1>17 DEF BulkRevoke, TypeOK
  <2> QED
    BY <1>17, <2>1
       DEF BulkRevoke, FlagHonest, NoTaskYet, UnflagsDeleted, CleanerInv, BetweenFileAndRow
<1>18. CASE CleanList
  BY <1>18
     DEF CleanList, FlagHonest, NoTaskYet, UnflagsDeleted, CleanerInv, BetweenFileAndRow
<1>19. CASE CleanUnflag
  <2>1. \A m \in Msg : flag'[m] => flag[m] /\ m \notin ids \ Late
    BY <1>19 DEF CleanUnflag, TypeOK
  <2> QED
    BY <1>19, <2>1
       DEF CleanUnflag, FlagHonest, NoTaskYet, UnflagsDeleted, CleanerInv, BetweenFileAndRow
<1>20. ASSUME NEW m \in Msg, CleanRemove(m) PROVE FlagInv'
  <2>1. \A i \in Msg : file'[i] => file[i]
    BY <1>20 DEF CleanRemove, TypeOK
  <2>2. \A i \in Msg : file[i] => file'[i] \/ (i = m /\ i \in ctodo)
    BY <1>20 DEF CleanRemove, TypeOK
  <2> QED
    BY <1>20, <2>1, <2>2
       DEF CleanRemove, CleanerOff, FlagHonest, NoTaskYet, UnflagsDeleted, CleanerInv,
           BetweenFileAndRow
<1>21. CASE CleanEnd
  BY <1>21
     DEF CleanEnd, FlagHonest, NoTaskYet, UnflagsDeleted, CleanerInv, BetweenFileAndRow,
         CleanerOff
<1>22. CASE CleanCrash
  BY <1>22
     DEF CleanCrash, FlagHonest, NoTaskYet, UnflagsDeleted, CleanerInv, BetweenFileAndRow,
         CleanerOff
<1>23. CASE Crash
  <2>1. \A i \in Job : \/ pc'[i] = pc[i] /\ pc[i] \notin Running
                       \/ pc[i] \in Running /\ pc'[i] = "dead"
    BY <1>23 DEF Crash, TypeOK
  <2> QED
    BY <1>23, <2>1
       DEF Crash, Running, FlagHonest, NoTaskYet, UnflagsDeleted, CleanerInv,
           BetweenFileAndRow
<1>24. CASE UNCHANGED vars
  BY <1>24 DEF vars, FlagHonest, NoTaskYet, UnflagsDeleted, CleanerInv, BetweenFileAndRow
<1> QED
  BY <1>1, <1>2, <1>3, <1>4, <1>5, <1>6, <1>7, <1>8, <1>9, <1>10, <1>11,
     <1>12, <1>13, <1>14, <1>15, <1>16, <1>17, <1>18, <1>19, <1>20, <1>21,
     <1>22, <1>23, <1>24
     DEF Next, WorkerStep, AnswerStep, CleanerStep

(* A row says quarantined while its file is there, or else some task was   *)
(* between the two: FlagHonest is an invariant, with any number of         *)
(* requests, crashes and runs of the cleaner.                              *)
THEOREM RowsAreHonest == Spec => []FlagHonest
<1>1. Init => FlagInv
  BY DEF Init, FlagInv, FlagHonest, NoTaskYet, UnflagsDeleted, CleanerInv
<1>2. TypeOK /\ FlagInv /\ [Next]_vars => FlagInv'
  BY FlagInductive
<1>3. FlagInv => FlagHonest
  BY DEF FlagInv
<1> QED
  BY <1>1, <1>2, <1>3, QuarantineTypes, PTL DEF Spec

-----------------------------------------------------------------------------
(* What a task knows of its release is what the mail server knows, at      *)
(* every step of it and not only when it is reported: this is inductive.   *)
(* It says nothing of bulk requests, whose result check_mem may overwrite. *)
BeforeRelease == {"idle", "queued", "release", "sending"}

NotYetSent ==
  \A j \in Job : pc[j] \in BeforeRelease => ~sent[j] /\ res[j]["release"] = "none"

Knows(j) ==
  /\ res[j]["release"] = "ok" => sent[j]
  /\ res[j]["release"] = "failed" => SmtpDoubt \/ ~sent[j]

AnsweredIsDone == \A j \in Job : ui[j] = "answered" => pc[j] = "done"

ReportInv ==
  /\ NoTaskYet
  /\ NotYetSent
  /\ \A j \in Job : from[j] # "bulk" => Knows(j)
  /\ AnsweredIsDone
  /\ MarkedWasSent

(* A new request starts with nothing sent and nothing reported.            *)
LEMMA AskReports ==
  ASSUME TypeOK, ReportInv, NEW S \in SUBSET Job, NEW who \in {"page", "bulk"} \cup Link, NEW A,
         Ask(S, who, A)
  PROVE  ReportInv'
<1> USE ConstantsAssumption DEF ReportInv
<1>1. \A j \in S : from[j] = "nobody" /\ pc[j] = "idle"
  BY DEF Ask, NoTaskYet
<1>2. \A j \in Job \ S : from'[j] = from[j] /\ pc'[j] = pc[j] /\ ui'[j] = ui[j]
  BY DEF Ask, TypeOK
<1>3. \A j \in S : from'[j] = who /\ pc'[j] = "queued" /\ ui'[j] = "waiting"
  BY DEF Ask, TypeOK
<1>4. UNCHANGED <<res, sent, marks, released>>
  BY DEF Ask
<1>5. NoTaskYet'
  <2>1. who # "nobody"
    OBVIOUS
  <2> QED
    BY <1>2, <1>3, <2>1 DEF NoTaskYet
<1>6. NotYetSent'
  BY <1>1, <1>2, <1>3, <1>4 DEF NotYetSent, BeforeRelease
<1>7. \A j \in Job : (from[j] # "bulk")' => Knows(j)'
  BY <1>1, <1>2, <1>3, <1>4 DEF NotYetSent, BeforeRelease, Knows
<1>8. AnsweredIsDone'
  BY <1>2, <1>3 DEF AnsweredIsDone
<1>9. MarkedWasSent'
  <2> SUFFICES ASSUME NEW l \in Link, released[l] \/ l \in marks
               PROVE  \E j \in Job : from'[j] = l /\ sent[j] /\ ui'[j] = "answered"
    BY <1>4 DEF MarkedWasSent
  <2>1. PICK j \in Job : from[j] = l /\ sent[j] /\ ui[j] = "answered"
    BY DEF MarkedWasSent
  <2>2. j \notin S
    BY <1>1, <2>1
  <2> QED
    BY <1>2, <2>1, <2>2
<1> QED
  BY <1>5, <1>6, <1>7, <1>8, <1>9

(* ReportInv is kept by every step.                                        *)
LEMMA ReportInductive ==
  ASSUME TypeOK, ReportInv, [Next]_vars
  PROVE  ReportInv'
<1> USE DEF ReportInv
<1>1. ASSUME NEW j \in Job, Detail(j) PROVE ReportInv'
  BY <1>1, AskReports DEF Detail
<1>2. ASSUME NEW S \in SUBSET Job, Bulk(S) PROVE ReportInv'
  BY <1>2, AskReports DEF Bulk
<1>3. ASSUME NEW l \in Link, NEW j \in Job, Autorelease(l, j) PROVE ReportInv'
  BY <1>3, AskReports DEF Autorelease
<1>4. ASSUME NEW j \in Job, Search(j) PROVE ReportInv'
  <2>1. \A i \in Job \ {j} : pc'[i] = pc[i] /\ res'[i] = res[i] /\ sent'[i] = sent[i]
    BY <1>4, AllFailedOf DEF Search, TypeOK
  <2>2. ui[j] # "answered" /\ pc[j] # "idle"
    BY <1>4 DEF Search, AnsweredIsDone
  <2>3. /\ pc'[j] \in BeforeRelease => ~sent'[j] /\ res'[j]["release"] = "none"
        /\ from[j] # "bulk" => Knows(j)'
    <3>1. ~sent[j] /\ res[j]["release"] = "none" /\ UNCHANGED sent
      BY <1>4 DEF Search, NotYetSent, BeforeRelease
    <3>2. CASE Found(About[j])
      BY <1>4, <3>1, <3>2, Onward DEF Search, Knows, BeforeRelease, TypeOK
    <3>3. CASE ~Found(About[j])
      <4>1. pc'[j] \notin BeforeRelease
        BY <1>4, <3>3, Onward DEF Search, BeforeRelease, TypeOK
      <4>2. res'[j]["release"] \in {"none", "failed"}
        BY <1>4, <3>1, <3>3, AllFailedOf DEF Search, Actions
      <4> QED
        BY <3>1, <4>1, <4>2 DEF Knows
    <3> QED
      BY <3>2, <3>3
  <2> QED
    BY <1>4, <2>1, <2>2, <2>3
       DEF Search, NoTaskYet, NotYetSent, BeforeRelease, Knows, AnsweredIsDone,
           MarkedWasSent
<1>5. ASSUME NEW j \in Job, CheckMemFails(j) PROVE ReportInv'
  <2>1. \A i \in Job \ {j} : pc'[i] = pc[i] /\ res'[i] = res[i] /\ sent'[i] = sent[i]
    BY <1>5, AllFailedOf DEF CheckMemFails, TypeOK
  <2>2. ui[j] # "answered" /\ pc[j] # "idle"
    BY <1>5 DEF CheckMemFails, AnsweredIsDone
  <2>3. from[j] = "bulk" /\ pc'[j] = "done"
    BY <1>5 DEF CheckMemFails, TypeOK
  <2> QED
    BY <1>5, <2>1, <2>2, <2>3
       DEF CheckMemFails, NoTaskYet, NotYetSent, BeforeRelease, Knows, AnsweredIsDone,
           MarkedWasSent
<1>6. ASSUME NEW j \in Job, ReleaseRead(j) PROVE ReportInv'
  <2>1. \A i \in Job \ {j} : pc'[i] = pc[i] /\ res'[i] = res[i] /\ sent'[i] = sent[i]
    BY <1>6, ResultOf DEF ReleaseRead, Actions, TypeOK
  <2>2. ui[j] # "answered" /\ pc[j] # "idle"
    BY <1>6 DEF ReleaseRead, AnsweredIsDone
  <2>3. /\ pc'[j] \in BeforeRelease => ~sent'[j] /\ res'[j]["release"] = "none"
        /\ from[j] # "bulk" => Knows(j)'
    <3>1. ~sent[j] /\ res[j]["release"] = "none" /\ UNCHANGED sent
      BY <1>6 DEF ReleaseRead, NotYetSent, BeforeRelease
    <3>2. CASE file[About[j]]
      BY <1>6, <3>1, <3>2, Onward DEF ReleaseRead, Knows, BeforeRelease, TypeOK
    <3>3. CASE ~file[About[j]]
      <4>1. pc'[j] \notin BeforeRelease
        BY <1>6, <3>3, Onward DEF ReleaseRead, BeforeRelease, TypeOK
      <4>2. res'[j]["release"] \in {"none", "failed"}
        BY <1>6, <3>1, <3>3, ResultOf DEF ReleaseRead, Actions
      <4> QED
        BY <3>1, <4>1, <4>2 DEF Knows
    <3> QED
      BY <3>2, <3>3
  <2> QED
    BY <1>6, <2>1, <2>2, <2>3
       DEF ReleaseRead, NoTaskYet, NotYetSent, BeforeRelease, Knows, AnsweredIsDone,
           MarkedWasSent
<1>7. ASSUME NEW j \in Job, ReleaseSend(j) PROVE ReportInv'
  <2>1. \A i \in Job \ {j} : pc'[i] = pc[i] /\ res'[i] = res[i] /\ sent'[i] = sent[i]
    BY <1>7, ResultOf DEF ReleaseSend, Actions, TypeOK
  <2>2. ui[j] # "answered" /\ pc[j] # "idle"
    BY <1>7 DEF ReleaseSend, AnsweredIsDone
  <2>3. Knows(j)' /\ pc'[j] \notin BeforeRelease
    BY <1>7, ResultOf, Onward DEF ReleaseSend, Knows, BeforeRelease, Actions, TypeOK
  <2> QED
    BY <1>7, <2>1, <2>2, <2>3
       DEF ReleaseSend, NoTaskYet, NotYetSent, BeforeRelease, Knows, AnsweredIsDone,
           MarkedWasSent
<1>8. ASSUME NEW j \in Job, ReleaseRaises(j) PROVE ReportInv'
  <2>1. \A i \in Job \ {j} : pc'[i] = pc[i] /\ res'[i] = res[i] /\ sent'[i] = sent[i]
    BY <1>8 DEF ReleaseRaises, TypeOK
  <2>2. ui[j] # "answered" /\ pc[j] # "idle"
    BY <1>8 DEF ReleaseRaises, AnsweredIsDone
  <2>3. pc'[j] = "raised" /\ UNCHANGED <<res, sent>>
    BY <1>8 DEF ReleaseRaises, TypeOK
  <2> QED
    BY <1>8, <2>1, <2>2, <2>3
       DEF ReleaseRaises, NoTaskYet, NotYetSent, BeforeRelease, Knows, AnsweredIsDone,
           MarkedWasSent
<1>9. ASSUME NEW j \in Job, Learn(j) PROVE ReportInv'
  <2>1. \A i \in Job \ {j} : pc'[i] = pc[i] /\ res'[i] = res[i] /\ sent'[i] = sent[i]
    BY <1>9, ResultOf DEF Learn, Actions, TypeOK
  <2>2. ui[j] # "answered" /\ pc[j] # "idle"
    BY <1>9 DEF Learn, AnsweredIsDone
  <2>3. /\ pc'[j] \notin BeforeRelease /\ UNCHANGED sent
        /\ res'[j]["release"] = res[j]["release"]
    <3>1. pc'[j] \notin BeforeRelease /\ UNCHANGED sent
      BY <1>9, Onward DEF Learn, BeforeRelease, TypeOK
    <3>2. \E r \in {"ok", "failed"} : res' = Result(j, "learn", r)
      BY <1>9 DEF Learn
    <3>3. res'[j]["release"] = res[j]["release"]
      BY <3>2, ResultOf DEF Actions
    <3> QED
      BY <3>1, <3>3
  <2> QED
    BY <1>9, <2>1, <2>2, <2>3
       DEF Learn, NoTaskYet, NotYetSent, BeforeRelease, Knows, AnsweredIsDone, MarkedWasSent
<1>10. ASSUME NEW j \in Job, Delete(j) PROVE ReportInv'
  <2>1. \A i \in Job \ {j} : pc'[i] = pc[i] /\ res'[i] = res[i] /\ sent'[i] = sent[i]
    BY <1>10, ResultOf DEF Delete, Actions, TypeOK
  <2>2. ui[j] # "answered" /\ pc[j] # "idle"
    BY <1>10 DEF Delete, AnsweredIsDone
  <2>3. /\ pc'[j] \notin BeforeRelease /\ UNCHANGED sent
        /\ res'[j]["release"] = res[j]["release"]
    <3>1. pc'[j] \notin BeforeRelease /\ UNCHANGED sent
      BY <1>10, Onward DEF Delete, BeforeRelease, TypeOK
    <3>2. \E r \in {"ok", "failed"} : res' = Result(j, "delete", r)
      BY <1>10 DEF Delete
    <3>3. res'[j]["release"] = res[j]["release"]
      BY <3>2, ResultOf DEF Actions
    <3> QED
      BY <3>1, <3>3
  <2> QED
    BY <1>10, <2>1, <2>2, <2>3
       DEF Delete, NoTaskYet, NotYetSent, BeforeRelease, Knows, AnsweredIsDone,
           MarkedWasSent
<1>11. ASSUME NEW j \in Job, Unflag(j) PROVE ReportInv'
  <2>1. \A i \in Job \ {j} : pc'[i] = pc[i] /\ res'[i] = res[i] /\ sent'[i] = sent[i]
    BY <1>11 DEF Unflag, TypeOK
  <2>2. ui[j] # "answered" /\ pc[j] # "idle"
    BY <1>11 DEF Unflag, AnsweredIsDone
  <2>3. pc'[j] = "done" /\ UNCHANGED <<res, sent>>
    BY <1>11 DEF Unflag, TypeOK
  <2> QED
    BY <1>11, <2>1, <2>2, <2>3
       DEF Unflag, NoTaskYet, NotYetSent, BeforeRelease, Knows, AnsweredIsDone,
           MarkedWasSent
<1>12. ASSUME NEW j \in Job, UnflagRaises(j) PROVE ReportInv'
  <2>1. \A i \in Job \ {j} : pc'[i] = pc[i] /\ res'[i] = res[i] /\ sent'[i] = sent[i]
    BY <1>12 DEF UnflagRaises, TypeOK
  <2>2. ui[j] # "answered" /\ pc[j] # "idle"
    BY <1>12 DEF UnflagRaises, AnsweredIsDone
  <2>3. pc'[j] = "raised" /\ UNCHANGED <<res, sent>>
    BY <1>12 DEF UnflagRaises, TypeOK
  <2> QED
    BY <1>12, <2>1, <2>2, <2>3
       DEF UnflagRaises, NoTaskYet, NotYetSent, BeforeRelease, Knows, AnsweredIsDone,
           MarkedWasSent
<1>13. ASSUME NEW l \in Link, UpdateAutorelease(l) PROVE ReportInv'
  <2>1. \A k \in Link : released'[k] \/ k \in marks' => released[k] \/ k \in marks
    BY <1>13 DEF UpdateAutorelease, TypeOK
  <2> QED
    BY <1>13, <2>1
       DEF UpdateAutorelease, NoTaskYet, NotYetSent, BeforeRelease, Knows, AnsweredIsDone,
           MarkedWasSent
<1>14. ASSUME NEW j \in Job, Answer(j) PROVE ReportInv'
  <2>1. \A i \in Job \ {j} : ui'[i] = ui[i]
    BY <1>14 DEF Answer, TypeOK
  <2>2. ui'[j] = "answered" /\ pc[j] = "done" /\ UNCHANGED <<from, pc, res, sent, released>>
    BY <1>14 DEF Answer, TypeOK
  <2>3. ASSUME NEW l \in marks' \ marks PROVE l = from[j] /\ sent[j]
    BY <1>14, <2>3 DEF Answer, Knows
  <2>4. MarkedWasSent'
    BY <1>14, <2>1, <2>2, <2>3 DEF MarkedWasSent
  <2> QED
    BY <2>1, <2>2, <2>4 DEF NoTaskYet, NotYetSent, Knows, AnsweredIsDone
<1>15. ASSUME NEW j \in Job, GiveUp(j) PROVE ReportInv'
  <2>1. \A i \in Job : ui'[i] = ui[i] \/ (ui[i] = "waiting" /\ ui'[i] = "gaveup")
    BY <1>15 DEF GiveUp, TypeOK
  <2> QED
    BY <1>15, <2>1
       DEF GiveUp, NoTaskYet, NotYetSent, BeforeRelease, Knows, AnsweredIsDone,
           MarkedWasSent
<1>16. CASE BulkAnswer
  <2>1. \A i \in Job : \/ ui'[i] = ui[i]
                       \/ /\ ui[i] = "waiting" /\ ui'[i] \in {"answered", "gaveup"}
                          /\ ui'[i] = "answered" => pc[i] = "done"
    BY <1>16 DEF BulkAnswer, Group, TypeOK
  <2> QED
    BY <1>16, <2>1
       DEF BulkAnswer, NoTaskYet, NotYetSent, BeforeRelease, Knows, AnsweredIsDone,
           MarkedWasSent
<1>17. CASE BulkRevoke
  <2>1. \A i \in Job : /\ ui'[i] = ui[i] \/ (ui[i] = "waiting" /\ ui'[i] = "gaveup")
                       /\ pc'[i] = pc[i] \/ (pc[i] = "queued" /\ pc'[i] = "revoked")
    BY <1>17 DEF BulkRevoke, Group, TypeOK
  <2>2. \A i \in Job : from[i] = "nobody" => pc'[i] = pc[i]
    BY <2>1 DEF NoTaskYet
  <2> QED
    BY <1>17, <2>1, <2>2
       DEF BulkRevoke, NoTaskYet, NotYetSent, BeforeRelease, Knows, AnsweredIsDone,
           MarkedWasSent
<1>18. CASE CleanList
  BY <1>18
     DEF CleanList, NoTaskYet, NotYetSent, BeforeRelease, Knows, AnsweredIsDone,
         MarkedWasSent
<1>19. CASE CleanUnflag
  BY <1>19
     DEF CleanUnflag, NoTaskYet, NotYetSent, BeforeRelease, Knows, AnsweredIsDone,
         MarkedWasSent
<1>20. ASSUME NEW m \in Msg, CleanRemove(m) PROVE ReportInv'
  BY <1>20
     DEF CleanRemove, NoTaskYet, NotYetSent, BeforeRelease, Knows, AnsweredIsDone,
         MarkedWasSent
<1>21. CASE CleanEnd
  BY <1>21
     DEF CleanEnd, NoTaskYet, NotYetSent, BeforeRelease, Knows, AnsweredIsDone,
         MarkedWasSent
<1>22. CASE CleanCrash
  BY <1>22
     DEF CleanCrash, NoTaskYet, NotYetSent, BeforeRelease, Knows, AnsweredIsDone,
         MarkedWasSent
<1>23. CASE Crash
  <2>1. \A i \in Job : \/ pc'[i] = pc[i]
                       \/ pc[i] \in Running /\ pc'[i] = "dead"
    BY <1>23 DEF Crash, TypeOK
  <2> QED
    BY <1>23, <2>1
       DEF Crash, Running, NoTaskYet, NotYetSent, BeforeRelease, Knows, AnsweredIsDone,
           MarkedWasSent
<1>24. CASE UNCHANGED vars
  BY <1>24
     DEF vars, NoTaskYet, NotYetSent, BeforeRelease, Knows, AnsweredIsDone, MarkedWasSent
<1> QED
  BY <1>1, <1>2, <1>3, <1>4, <1>5, <1>6, <1>7, <1>8, <1>9, <1>10, <1>11,
     <1>12, <1>13, <1>14, <1>15, <1>16, <1>17, <1>18, <1>19, <1>20, <1>21,
     <1>22, <1>23, <1>24
     DEF Next, WorkerStep, AnswerStep, CleanerStep

(* ReportInv is an invariant.                                              *)
LEMMA ReportInvariant == Spec => []ReportInv
<1>1. Init => ReportInv
  BY DEF Init, ReportInv, NoTaskYet, NotYetSent, BeforeRelease, Knows, AnsweredIsDone,
         MarkedWasSent, Actions
<1>2. TypeOK /\ ReportInv /\ [Next]_vars => ReportInv'
  BY ReportInductive
<1> QED
  BY <1>1, <1>2, QuarantineTypes, PTL DEF Spec

(* Pages and links report what happened, however many of them are about    *)
(* one message and whoever deletes it meanwhile.                           *)
THEOREM PagesAreTruthful == Spec => []ReportTruthful
<1>1. ReportInv => ReportTruthful
  BY DEF ReportInv, ReportTruthful, Truthful, Knows
<1> QED
  BY <1>1, ReportInvariant, PTL

(* A link is spent only by a release that its user was told of.            *)
THEOREM MarkedLinksWereSent == Spec => []MarkedWasSent
<1>1. ReportInv => MarkedWasSent
  BY DEF ReportInv
<1> QED
  BY <1>1, ReportInvariant, PTL
=============================================================================
