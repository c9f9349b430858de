------------------------------- MODULE Progress -------------------------------
(***************************************************************************)
(* Parts that share neither tables nor files and have something to bring   *)
(* to an end: QueueStats, DbClean, Jobs and Passwords. A behaviour is      *)
(* about one of them, its area; the others stay in an initial state.       *)
(***************************************************************************)
EXTENDS QueueStats, DbClean, Jobs, Passwords

VARIABLE area

ProgressAssumption ==
    QueueAssumption /\ DbCleanAssumption /\ JobsAssumption /\ PasswordsAssumption

progressVars == <<area, queueVars, cleanVars, jobsVars, passwordVars>>

ProgressInit ==
    /\ area \in {"mailq", "dbclean", "jobs", "passwords"}
    /\ QueueInit /\ CleanInit /\ JobsInit /\ PasswordsInit

(* A step of the part that the behaviour is about.                           *)
MailqActs ==
    /\ area = "mailq" /\ QueueNext
    /\ UNCHANGED <<area, cleanVars, jobsVars, passwordVars>>
DbcleanActs ==
    /\ area = "dbclean" /\ CleanNext
    /\ UNCHANGED <<area, queueVars, jobsVars, passwordVars>>
JobsActs ==
    /\ area = "jobs" /\ JobsNext
    /\ UNCHANGED <<area, queueVars, cleanVars, passwordVars>>
PasswordsActs ==
    /\ area = "passwords" /\ PasswordsNext
    /\ UNCHANGED <<area, queueVars, cleanVars, jobsVars>>

ProgressNext == MailqActs \/ DbcleanActs \/ JobsActs \/ PasswordsActs

ProgressSpec == ProgressInit /\ [][ProgressNext]_progressVars

(* The fairness that each module states; cron is the cleaner that comes      *)
(* every night.                                                              *)
ProgressFairness(cron) ==
    /\ \A r \in Refresh : WF_queueVars(area = "mailq" /\ RefreshStep(r))
    /\ \A r \in Runner : WF_cleanVars(area = "dbclean" /\ RunStep(r))
    /\ SF_cleanVars(area = "dbclean" /\ BeginClean(cron))
    /\ WF_cleanVars(area = "dbclean" /\ LockExpires)
    /\ \A j \in Job :
        /\ WF_jobsVars(area = "jobs" /\ StartJob(j))
        /\ WF_jobsVars(area = "jobs" /\ Status(j))
        /\ WF_jobsVars(area = "jobs" /\ Works(j))
    /\ \A a \in Asker : WF_passwordVars(area = "passwords" /\ AskStep(a))
    /\ \A v \in Visitor : WF_passwordVars(area = "passwords" /\ VisitStep(v))

(* The types of all. The other properties are the modules' own.              *)
ProgressTypeOK == QueueTypeOK /\ CleanTypeOK /\ JobsTypeOK /\ PasswordsTypeOK
=============================================================================
