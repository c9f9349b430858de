----------------------------- MODULE Quarantine -----------------------------
(***************************************************************************)
(* Quarantined messages: the files on a MailScanner node, the isquarantined*)
(* column of their rows, and everyone who acts on both:                    *)
(*                                                                         *)
(*   - users, through the message page (detail), the bulk form             *)
(*     (quarantine, process) and the link of a quarantine report           *)
(*     (autorelease), in controllers/messages.py;                          *)
(*   - the celery worker of the node, tasks/messages.py over               *)
(*     lib/mail/message.py, whose tasks are green threads that switch at   *)
(*     SMTP, sa-learn, the database and sleep;                             *)
(*   - the command cleanquarantine, which removes old directories.         *)
(*                                                                         *)
(* A page or a link waits 30 seconds for its task and gives up; the task   *)
(* is not told. Bayesian learning changes nothing in this module but its   *)
(* own result.                                                             *)
(***************************************************************************)
EXTENDS Naturals, FiniteSets

CONSTANTS
    Msg,        \* quarantined messages, all of one directory (one day) that
                \* is old enough for cleanquarantine
    Late,       \* those scanned before midnight and logged after: the row is
                \* of another day than the directory
    Located,    \* those whose row has msgfiles, the place of the file
    Link,       \* links of quarantine reports
    LinkMsg,    \* the message of a link
    Job,        \* BOUND: the requests made
    About,      \* the message of a request
    Asks,       \* BOUND: the combinations of actions that are asked for
    SmtpDoubt,  \* the mail server may accept a message and the answer be lost
    MaxCrash    \* BOUND: crashes, of the worker or of the cleaner

Actions == {"release", "learn", "delete"}

ASSUME ConstantsAssumption ==
    /\ Late \subseteq Msg /\ Located \subseteq Msg
    /\ LinkMsg \in [Link -> Msg]
    /\ Link \cap {"nobody", "page", "bulk"} = {}
    /\ About \in [Job -> Msg]
    /\ Asks \subseteq (SUBSET Actions) \ {{}}
    /\ SmtpDoubt \in BOOLEAN
    /\ MaxCrash \in Nat

VARIABLES
    file,       \* the message is on disk
    flag,       \* isquarantined of its row
    from,       \* who asked: "nobody" yet, the "page", the "bulk" form, a link
    acts,       \* what is asked for
    pc,         \* what the worker is doing with it
    res,        \* result['release'], ['learn'], ['delete']
    sent,       \* the mail server has taken its message
    ui,         \* what the user was told
    marks,      \* queued update-auto-release-record tasks
    released,   \* releases.released
    cpc, ids, ctodo,    \* the cleaner: its place, message ids, files to remove
    crashes

store == <<file, flag>>
request == <<from, acts>>
work == <<pc, res, sent>>
links == <<marks, released>>
cleaner == <<cpc, ids, ctodo>>
vars == <<store, request, work, ui, links, cleaner, crashes>>

Init ==
    /\ file = [m \in Msg |-> TRUE]
    /\ flag = [m \in Msg |-> TRUE]
    /\ from = [j \in Job |-> "nobody"]
    /\ acts = [j \in Job |-> {}]
    /\ pc = [j \in Job |-> "idle"]
    /\ res = [j \in Job |-> [x \in Actions |-> "none"]]
    /\ sent = [j \in Job |-> FALSE]
    /\ ui = [j \in Job |-> "none"]
    /\ marks = {}
    /\ released = [l \in Link |-> FALSE]
    /\ cpc = "off" /\ ids = {} /\ ctodo = {}
    /\ crashes = 0

(***************************************************************************)
(* Requests. None of them looks at the disk.                               *)
(***************************************************************************)
Ask(S, who, A) ==
    /\ \A j \in S : from[j] = "nobody"
    /\ from' = [j \in Job |-> IF j \in S THEN who ELSE from[j]]
    /\ acts' = [j \in Job |-> IF j \in S THEN A ELSE acts[j]]
    /\ pc' = [j \in Job |-> IF j \in S THEN "queued" ELSE pc[j]]
    /\ ui' = [j \in Job |-> IF j \in S THEN "waiting" ELSE ui[j]]
    /\ UNCHANGED <<store, res, sent, links, cleaner, crashes>>

Detail(j) == \E A \in Asks : Ask({j}, "page", A)

Group == {j \in Job : from[j] = "bulk" /\ ui[j] = "waiting"}

(* One task per selected row. A message has a row per recipient, so two    *)
(* tasks of a group may be about one file.                                 *)
(* BOUND: one group at a time.                                             *)
Bulk(S) ==
    /\ Group = {}
    /\ \E A \in Asks : Ask(S, "bulk", A)

(* The link is refused once its record says released.                      *)
Autorelease(l, j) ==
    /\ ~released[l]
    /\ About[j] = LinkMsg[l]
    /\ Ask({j}, l, {"release"})

(***************************************************************************)
(* The worker: process_message and, for links, release_message.            *)
(***************************************************************************)
StepAfter(j, done) ==
    LET left == acts[j] \ done
    IN  IF "release" \in left THEN "release"
        ELSE IF "learn" \in left THEN "learn"
        ELSE IF "delete" \in left THEN "delete" ELSE "done"

Result(j, act, r) == [res EXCEPT ![j] = [@ EXCEPT ![act] = r]]

(* process_exception: whatever was asked for has failed.                   *)
AllFailed(j) ==
    [res EXCEPT ![j] = [x \in Actions |-> IF x \in acts[j] THEN "failed" ELSE @[x]]]

(* With msgfiles the place is known and not looked at; without, the file   *)
(* is searched for in the directory of the day of the row.                 *)
Found(m) == m \in Located \/ (file[m] /\ m \notin Late)

Search(j) ==
    /\ pc[j] = "queued"
    /\ IF Found(About[j])
         THEN pc' = [pc EXCEPT ![j] = StepAfter(j, {})] /\ UNCHANGED res
         ELSE pc' = [pc EXCEPT ![j] = "done"] /\ res' = AllFailed(j)
    /\ UNCHANGED <<store, request, sent, ui, links, cleaner, crashes>>

(* check_mem of a bulk request gives up after ten tries.                   *)
CheckMemFails(j) ==
    /\ from[j] = "bulk"
    /\ pc[j] \in {"release", "learn"}
    /\ pc' = [pc EXCEPT ![j] = "done"]
    /\ res' = AllFailed(j)
    /\ UNCHANGED <<store, request, sent, ui, links, cleaner, crashes>>

(* PQM.release reads the whole file, then talks to the mail server.        *)
ReleaseRead(j) ==
    /\ pc[j] = "release"
    /\ IF file[About[j]]
         THEN pc' = [pc EXCEPT ![j] = "sending"] /\ UNCHANGED res
         ELSE /\ pc' = [pc EXCEPT ![j] = StepAfter(j, {"release"})]
              /\ res' = Result(j, "release", "failed")
    /\ UNCHANGED <<store, request, sent, ui, links, cleaner, crashes>>

(* Mutant of ReleaseSend: the result of smtp.send is not looked at.        *)
ReleaseSendUnchecked(j) ==
    /\ pc[j] = "sending"
    /\ \E taken \in BOOLEAN : sent' = [sent EXCEPT ![j] = taken]
    /\ res' = Result(j, "release", "ok")
    /\ pc' = [pc EXCEPT ![j] = StepAfter(j, {"release"})]
    /\ UNCHANGED <<store, request, ui, links, cleaner, crashes>>

(* Accepted; refused; accepted with the answer lost.                       *)
ReleaseSend(j) ==
    /\ pc[j] = "sending"
    /\ \E taken \in BOOLEAN, ok \in BOOLEAN :
          /\ ok => taken
          /\ taken /\ ~ok => SmtpDoubt
          /\ sent' = [sent EXCEPT ![j] = taken]
          /\ res' = Result(j, "release", IF ok THEN "ok" ELSE "failed")
    /\ pc' = [pc EXCEPT ![j] = StepAfter(j, {"release"})]
    /\ UNCHANGED <<store, request, ui, links, cleaner, crashes>>

(* An smtplib error on connecting is no IOError: the task itself fails.    *)
ReleaseRaises(j) ==
    /\ pc[j] = "sending"
    /\ pc' = [pc EXCEPT ![j] = "raised"]
    /\ UNCHANGED <<store, request, res, sent, ui, links, cleaner, crashes>>

Learn(j) ==
    /\ pc[j] = "learn"
    /\ \/ file[About[j]] /\ res' = Result(j, "learn", "ok")
       \/ res' = Result(j, "learn", "failed")
    /\ pc' = [pc EXCEPT ![j] = StepAfter(j, {"release", "learn"})]
    /\ UNCHANGED <<store, request, sent, ui, links, cleaner, crashes>>

(* The file first, whether or not the release worked ...                   *)
Delete(j) ==
    /\ pc[j] = "delete"
    /\ IF file[About[j]]
         THEN /\ file' = [file EXCEPT ![About[j]] = FALSE]
              /\ pc' = [pc EXCEPT ![j] = "unflag"]
              /\ res' = Result(j, "delete", "ok")
         ELSE /\ pc' = [pc EXCEPT ![j] = "done"]
              /\ res' = Result(j, "delete", "failed")
              /\ UNCHANGED file
    /\ UNCHANGED <<flag, request, sent, ui, links, cleaner, crashes>>

(* ... then UPDATE messages SET isquarantined = 0.                         *)
Unflag(j) ==
    /\ pc[j] = "unflag"
    /\ flag' = [flag EXCEPT ![About[j]] = FALSE]
    /\ pc' = [pc EXCEPT ![j] = "done"]
    /\ UNCHANGED <<file, request, res, sent, ui, links, cleaner, crashes>>

(* The database refuses: no OSError either.                                *)
UnflagRaises(j) ==
    /\ pc[j] = "unflag"
    /\ pc' = [pc EXCEPT ![j] = "raised"]
    /\ UNCHANGED <<store, request, res, sent, ui, links, cleaner, crashes>>

(* Celery acknowledges a task before running it: a running task dies with  *)
(* its worker, a queued one waits for the next.                            *)
Running == {"release", "sending", "learn", "delete", "unflag"}

Crash ==
    /\ crashes < MaxCrash
    /\ crashes' = crashes + 1
    /\ pc' = [j \in Job |-> IF pc[j] \in Running THEN "dead" ELSE pc[j]]
    /\ \E L \in SUBSET marks : marks' = marks \ L
    /\ UNCHANGED <<store, request, res, sent, ui, released, cleaner>>

(* Mutant of UpdateAutorelease: nothing is committed.                      *)
UpdateAutoreleaseNoCommit(l) ==
    /\ l \in marks
    /\ marks' = marks \ {l}
    /\ UNCHANGED <<store, request, work, ui, released, cleaner, crashes>>

(* update-auto-release-record.                                             *)
UpdateAutorelease(l) ==
    /\ l \in marks
    /\ marks' = marks \ {l}
    /\ released' = [released EXCEPT ![l] = TRUE]
    /\ UNCHANGED <<store, request, work, ui, cleaner, crashes>>

(***************************************************************************)
(* Answers.                                                                *)
(***************************************************************************)
(* Mutant of Answer: the link is marked whatever result['success'] says.   *)
AnswerMarks(j) ==
    /\ ui[j] = "waiting" /\ from[j] # "bulk"
    /\ pc[j] = "done"
    /\ ui' = [ui EXCEPT ![j] = "answered"]
    /\ marks' = marks \cup (Link \cap {from[j]})
    /\ UNCHANGED <<store, request, work, released, cleaner, crashes>>

(* detail unflags once more; autorelease has the link marked.              *)
Answer(j) ==
    /\ ui[j] = "waiting" /\ from[j] # "bulk"
    /\ pc[j] = "done"
    /\ ui' = [ui EXCEPT ![j] = "answered"]
    /\ IF res[j]["delete"] = "ok"
         THEN flag' = [flag EXCEPT ![About[j]] = FALSE]
         ELSE UNCHANGED flag
    /\ IF from[j] \in Link /\ res[j]["release"] = "ok"
         THEN marks' = marks \cup {from[j]}
         ELSE UNCHANGED marks
    /\ UNCHANGED <<file, request, work, released, cleaner, crashes>>

(* task.wait(30) timed out, or the task failed.                            *)
GiveUp(j) ==
    /\ ui[j] = "waiting" /\ from[j] # "bulk"
    /\ pc[j] # "done"
    /\ ui' = [ui EXCEPT ![j] = "gaveup"]
    /\ UNCHANGED <<store, request, work, links, cleaner, crashes>>

Ended == {"done", "raised", "revoked"}

(* Mutant of BulkAnswer: it waits until every task was successful.         *)
BulkAnswerSuccessful ==
    /\ Group # {}
    /\ \A j \in Group : pc[j] = "done"
    /\ ui' = [j \in Job |-> IF j \in Group THEN "answered" ELSE ui[j]]
    /\ UNCHANGED <<store, request, work, links, cleaner, crashes>>

(* process: the whole group is ready.                                      *)
BulkAnswer ==
    /\ Group # {}
    /\ \A j \in Group : pc[j] \in Ended
    /\ ui' = [j \in Job |-> IF j \in Group
                              THEN IF \A i \in Group : pc[i] = "done"
                                     THEN "answered" ELSE "gaveup"
                              ELSE ui[j]]
    /\ UNCHANGED <<store, request, work, links, cleaner, crashes>>

(* Ten polls and no task has succeeded: what has not started is revoked.   *)
BulkRevoke ==
    /\ \A j \in Group : pc[j] # "done"
    /\ \E j \in Group : pc[j] \notin Ended
    /\ ui' = [j \in Job |-> IF j \in Group THEN "gaveup" ELSE ui[j]]
    /\ pc' = [j \in Job |-> IF j \in Group /\ pc[j] = "queued"
                              THEN "revoked" ELSE pc[j]]
    /\ UNCHANGED <<store, request, res, sent, links, cleaner, crashes>>

(***************************************************************************)
(* cleanquarantine, one directory: list it and its subdirectories, unflag  *)
(* what was listed, remove the tree.                                       *)
(***************************************************************************)
(* Mutants of CleanList: the rows are not updated; a directory none of     *)
(* whose rows is in quarantine is passed over.                             *)
CleanListNoUpdate ==
    /\ cpc = "off"
    /\ ids' = {m \in Msg : file[m]}
    /\ ctodo' = ids'
    /\ cpc' = "rmtree"
    /\ UNCHANGED <<store, request, work, ui, links, crashes>>

CleanListFlagged ==
    /\ cpc = "off"
    /\ cpc' = IF \E m \in Msg : file[m] /\ flag[m] THEN "unflag" ELSE "off"
    /\ ids' = {m \in Msg : file[m] /\ cpc' = "unflag"}
    /\ UNCHANGED <<store, request, work, ui, links, ctodo, crashes>>

CleanList ==
    /\ cpc = "off"
    /\ ids' = {m \in Msg : file[m]}
    /\ cpc' = "unflag"
    /\ UNCHANGED <<store, request, work, ui, links, ctodo, crashes>>

(* UPDATE messages ... WHERE messageid IN ids AND timestamp within the day. *)
CleanUnflag ==
    /\ cpc = "unflag"
    /\ flag' = [m \in Msg |-> flag[m] /\ m \notin ids \ Late]
    /\ ctodo' = {m \in Msg : file[m]}
    /\ cpc' = "rmtree"
    /\ UNCHANGED <<file, request, work, ui, links, ids, crashes>>

CleanerOff ==
    cpc' = "off" /\ ids' = {} /\ ctodo' = {}

(* A file that is gone already was not listed, or raises an OSError: not   *)
(* the shutil.Error that is caught, so the command ends there.             *)
CleanRemove(m) ==
    /\ cpc = "rmtree" /\ m \in ctodo
    /\ \/ /\ file' = [file EXCEPT ![m] = FALSE]
          /\ ctodo' = ctodo \ {m}
          /\ UNCHANGED <<cpc, ids>>
       \/ ~file[m] /\ CleanerOff /\ UNCHANGED file
    /\ UNCHANGED <<flag, request, work, ui, links, crashes>>

CleanEnd ==
    /\ cpc = "rmtree" /\ ctodo = {}
    /\ CleanerOff
    /\ UNCHANGED <<store, request, work, ui, links, crashes>>

CleanCrash ==
    /\ cpc # "off" /\ crashes < MaxCrash
    /\ crashes' = crashes + 1
    /\ CleanerOff
    /\ UNCHANGED <<store, request, work, ui, links>>

WorkerStep(j) ==
    \/ Search(j) \/ CheckMemFails(j) \/ ReleaseRead(j) \/ ReleaseSend(j)
    \/ ReleaseRaises(j) \/ Learn(j) \/ Delete(j) \/ Unflag(j) \/ UnflagRaises(j)

AnswerStep == (\E j \in Job : Answer(j) \/ GiveUp(j)) \/ BulkAnswer \/ BulkRevoke

CleanerStep == CleanList \/ CleanUnflag \/ CleanEnd \/ \E m \in Msg : CleanRemove(m)

Next ==
    \/ \E j \in Job : Detail(j) \/ WorkerStep(j) \/ \E l \in Link : Autorelease(l, j)
    \/ \E S \in (SUBSET Job) \ {{}} : Bulk(S)
    \/ \E l \in Link : UpdateAutorelease(l)
    \/ AnswerStep \/ CleanerStep \/ CleanCrash \/ Crash

Spec == Init /\ [][Next]_vars

(* The worker, the cleaner (run from cron) and the web server run; users   *)
(* and crashes need not.                                                   *)
FairSpec ==
    /\ Spec
    /\ \A j \in Job : WF_vars(WorkerStep(j))
    /\ \A l \in Link : WF_vars(UpdateAutorelease(l))
    /\ WF_vars(AnswerStep) /\ WF_vars(CleanerStep)

-----------------------------------------------------------------------------
(* The state has its types.                                                *)
TypeOK ==
    /\ file \in [Msg -> BOOLEAN] /\ flag \in [Msg -> BOOLEAN]
    /\ from \in [Job -> {"nobody", "page", "bulk"} \cup Link]
    /\ acts \in [Job -> SUBSET Actions]
    /\ pc \in [Job -> {"idle", "queued", "done", "raised", "revoked", "dead"} \cup Running]
    /\ res \in [Job -> [Actions -> {"none", "ok", "failed"}]]
    /\ sent \in [Job -> BOOLEAN]
    /\ ui \in [Job -> {"none", "waiting", "answered", "gaveup"}]
    /\ marks \subseteq Link
    /\ released \in [Link -> BOOLEAN]
    /\ cpc \in {"off", "unflag", "rmtree"} /\ ids \subseteq Msg /\ ctodo \subseteq Msg
    /\ crashes \in Nat

(* A row that says quarantined has its file, unless a task is between      *)
(* processor.delete() and its UPDATE, was killed there, or had the UPDATE  *)
(* refused; deletions and the cleaner may interleave in any way. Rows of   *)
(* another day than their directory are beyond the cleaner's UPDATE.       *)
BetweenFileAndRow(j) ==
    \/ pc[j] \in {"unflag", "dead"}
    \/ pc[j] = "raised" /\ res[j]["delete"] = "ok"

FlagHonest ==
    \A m \in Msg \ Late :
        flag[m] => file[m] \/ \E j \in Job : About[j] = m /\ BetweenFileAndRow(j)

(* A request is answered with what its task did: "could not be released"   *)
(* means that nothing was sent (unless the mail server's answer was lost), *)
(* "released" that it was.                                                 *)
Truthful(j) ==
    ui[j] = "answered" =>
        /\ res[j]["release"] = "ok" => sent[j]
        /\ res[j]["release"] = "failed" => SmtpDoubt \/ ~sent[j]

(* Of the message page and of the links.                                   *)
ReportTruthful == \A j \in Job : from[j] # "bulk" => Truthful(j)

(* Of the bulk form too (taskstatus.html shows the errors of each task).   *)
BulkTruthful == \A j \in Job : Truthful(j)

(* A link is spent only by a delivery that one of its own requests was     *)
(* answered with: nobody loses the one release the link stands for.        *)
MarkedWasSent ==
    \A l \in Link : released[l] \/ l \in marks =>
        \E j \in Job : from[j] = l /\ sent[j] /\ ui[j] = "answered"

(* A link releases its message once (controllers/messages.py:605).         *)
LinkOnce ==
    \A l \in Link : \A i, j \in Job :
        from[i] = l /\ from[j] = l /\ sent[i] /\ sent[j] => i = j

(* Nobody waits for ever, unless a task was killed with its worker (the    *)
(* other tasks of its group may then keep the page polling).               *)
EveryoneAnswered ==
    \A j \in Job : ui[j] = "waiting" ~> ui[j] # "waiting" \/ crashes > 0

(* What the cleaner has hidden from the users it does remove, whoever else *)
(* deletes files under it.                                                 *)
HiddenIsRemoved == \A m \in Msg : (file[m] /\ ~flag[m]) ~> ~file[m]

(* A release through a link that was answered "released" spends the link.  *)
AnsweredIsMarked ==
    \A j \in Job, l \in Link :
        (from[j] = l /\ ui[j] = "answered" /\ res[j]["release"] = "ok")
            ~> (released[l] \/ crashes > 0)
=============================================================================
