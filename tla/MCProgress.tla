----------------------------- MODULE MCProgress ------------------------------
(***************************************************************************)
(* Progress with bounds on what happens to the queues and on the jobs.     *)
(***************************************************************************)
EXTENDS Progress, Sequences, TLC

CONSTANTS j1, j2, n1, f1, m1, m2, m3, cron
MCLines == j1 :> {m1, m2} @@ j2 :> {m2, m3}

ASSUME ProgressAssumption

-----------------------------------------------------------------------------
(* BOUND: at most one of a killed refresh, a page that is used, and a second *)
(* message.                                                                  *)
FewInQueue ==
    (IF \A m \in Msg : stage[m] # "new" THEN 1 ELSE 0) + kills
        + (IF \E t \in Task : asked[t].do # "none" THEN 1 ELSE 0) <= 1

(* BOUND: the first upload comes from the session n1 and is of the file f1;  *)
(* an export has no file; two jobs of different kinds have but that file.    *)
FewJobs ==
    /\ session[j1] = n1 /\ path[j1] = f1 /\ (\A j \in Job : ~Importing(j) => path[j] = f1)
    /\ kind[j1] = kind[j2] \/ path[j2] = f1

(* What is chosen at the start is chosen where it is asked about.            *)
MCProgressInit ==
    /\ ProgressInit /\ FewJobs
    /\ area = "mailq" \/ several = {}
    /\ area = "jobs" \/ \A j \in Job : kind[j] = "export" /\ session[j] = n1
    /\ area = "passwords" \/ account = "local"

MCProgressNext ==
    \/ MailqActs /\ FewInQueue'
    \/ DbcleanActs
    \/ JobsActs
    \/ PasswordsActs

MCProgressSpec ==
    MCProgressInit /\ [][MCProgressNext]_progressVars /\ ProgressFairness(cron)
=============================================================================
