------------------------------- MODULE Reports --------------------------------
(***************************************************************************)
(* The two commands that mail reports: quarantinereportsng, of what was    *)
(* quarantined in the last 24 hours, with a link to release each message   *)
(* for those who administer nothing, and pdfreportsng, of users or of      *)
(* domains. Cron starts them every hour on every node; whose own clock is  *)
(* not at the hour send_at is skipped. The lock of the command, which      *)
(* outlives a run by 300 seconds, lets one node in; a Release record keeps *)
(* a message out of the reports to come.                                   *)
(*                                                                         *)
(* A day has two hours here and an hour two ticks: cron starts in the      *)
(* first, within 300 seconds on all nodes, and a run may go on into the    *)
(* second. BOUND: it ends within the hour.                                 *)
(***************************************************************************)
EXTENDS Naturals, FiniteSets, CommandLock

CONSTANTS
    Node,           \* the crons
    Manual,         \* a run by hand, with the options -f, -i or -e
    Recipient,      \* users
    Plain,          \* those that are is_peleb
    Raising,        \* users with two domains or more, the first in English
    ReportedDomain, \* the report goes to the admins of its organizations
    Msg,
    Sees,           \* the users whose filter shows a message
    At,             \* the hour of the day at which it is send_at for a user
    MaxRecords,
    MaxTick,        \* BOUND
    MaxFaults       \* BOUND: runs by hand, runs killed, mails refused, and
                    \* memcached restarts

Command == {"quarantinereportsng", "pdfreportsng"}
Day == 4
Tick == 0..MaxTick
Never == MaxTick + 1
Runner == Node \cup {Manual}
Target == Recipient \cup ReportedDomain
ReportsAssumption ==
    /\ Command \subseteq Key /\ Manual \notin Node /\ Node # {}
    /\ Recipient \cap ReportedDomain = {}
    /\ Plain \subseteq Recipient /\ Raising \subseteq Recipient
    /\ Sees \in [Msg -> SUBSET Recipient] /\ At \in [Target -> {0, 1}]
    /\ MaxRecords \in Nat /\ MaxTick \in Nat /\ MaxFaults \in Nat

VARIABLES
    command,        \* the one this behaviour is about
    now,
    born,           \* when a message was logged
    releases,       \* when the Release record of a message was made
    launched,       \* the nodes whose cron has started it this hour
    at, todo, force, current, found,    \* of a run
    mailed,         \* how many reports a user, or of a domain, was sent this hour
    sent, twice,    \* <<user, message>> pairs that were reported (twice)
    last,           \* history: when a user's messages were last looked for
    excused,        \* history: pairs that will not be reported, for a reason
    unrecorded,     \* history: reported, and the run killed before its commit
    disturbed,      \* history: a run by hand, or a lock lost, this hour
    overlapped,     \* history: two runs were going on at once
    faults

clock == <<now, born, launched>>
run == <<at, todo, force, current, found>>
outcome == <<mailed, sent, twice, releases>>
history == <<last, excused, unrecorded, disturbed, overlapped, faults>>
reportVars == <<lock, command, clock, run, outcome, history>>

Hour(t) == (t \div 2) % 2
First(t) == t % 2 = 0
Due(u) == Hour(now) = At[u]
Running == {r \in Runner : at[r] # "idle"}
Shown(u) == {m \in Msg : born[m] # Never /\ u \in Sees[m]}
Recorded == {m \in Msg : releases[m] # Never}

ReportsInit ==
    /\ LockInit /\ command \in Command
    /\ now = 0 /\ born = [m \in Msg |-> Never] /\ launched = {}
    /\ at = [r \in Runner |-> "idle"] /\ todo = [r \in Runner |-> {}]
    /\ force = [r \in Runner |-> FALSE]
    /\ current = [r \in Runner |-> {}] /\ found = [r \in Runner |-> {}]
    /\ mailed = [u \in Target |-> 0] /\ sent = {} /\ twice = {}
    /\ releases = [m \in Msg |-> Never]
    /\ last = [u \in Recipient |-> 0] /\ excused = {} /\ unrecorded = {}
    /\ disturbed = FALSE /\ overlapped = FALSE /\ faults = 0

-----------------------------------------------------------------------------
Quarantined(m) ==
    /\ command = "quarantinereportsng" /\ born[m] = Never
    /\ born' = [born EXCEPT ![m] = now]
    /\ UNCHANGED <<lock, command, now, launched, run, outcome, history>>

(* A tick is longer than 300 seconds: the lock is gone. An hour in which     *)
(* every cron found the lock taken by hand excuses who was due in it.        *)
Unserved == {u \in Recipient : Due(u) /\ last[u] < now - 1 /\ disturbed}
Pass ==
    /\ now < MaxTick
    /\ launched = Node
    /\ First(now) \/ Running = {}
    /\ now' = now + 1
    /\ lock' = [lock EXCEPT ![command] = "free"]
    /\ IF First(now) THEN UNCHANGED <<launched, mailed, excused, disturbed>>
       ELSE /\ launched' = {} /\ mailed' = [u \in Target |-> 0] /\ disturbed' = FALSE
            /\ excused' = excused \cup {p \in Unserved \X Msg : p[2] \in Shown(p[1])}
    /\ UNCHANGED <<command, born, run, sent, twice, releases, last, unrecorded,
                   overlapped, faults>>

(* The database cleaner, two days later (dbclean.py)                         *)
PruneReleases ==
    /\ \E m \in Recorded : releases[m] + 2 * Day < now
    /\ releases' = [m \in Msg |-> IF releases[m] + 2 * Day < now THEN Never ELSE releases[m]]
    /\ UNCHANGED <<lock, command, clock, run, mailed, sent, twice, history>>

-----------------------------------------------------------------------------
Starts(r, targets, forced) ==
    /\ acquire_lock(command)
    /\ at' = [at EXCEPT ![r] = "users"]
    /\ todo' = [todo EXCEPT ![r] = targets]
    /\ force' = [force EXCEPT ![r] = forced]
    /\ overlapped' = (overlapped \/ Running # {})
    /\ UNCHANGED <<command, now, born, current, found, outcome, last, excused,
                   unrecorded>>

(* The option -t of pdfreportsng. Both types have the one lock.              *)
Types == IF command = "pdfreportsng" THEN {Recipient, ReportedDomain} ELSE {Recipient}
Launch(n) ==
    /\ First(now) /\ n \notin launched
    /\ launched' = launched \cup {n}
    /\ \E targets \in Types : Starts(n, targets, FALSE)
    /\ UNCHANGED <<disturbed, faults>>
Refused(n) ==
    /\ First(now) /\ n \notin launched
    /\ lock[command] = "held"
    /\ launched' = launched \cup {n}
    /\ UNCHANGED <<lock, command, now, born, run, outcome, history>>
ByHand ==
    /\ at[Manual] = "idle" /\ faults < MaxFaults
    /\ faults' = faults + 1
    /\ disturbed' = TRUE
    /\ \E targets \in Types : \E some \in SUBSET targets, forced \in BOOLEAN :
        Starts(Manual, some, forced)
    /\ UNCHANGED launched

-----------------------------------------------------------------------------
(* One user after another, in no order. Whoever is not due is passed over,   *)
(* which leaves no trace: the run ends when nobody else is left.             *)

Elsewhere == <<lock, command, clock>>
Served(r, u) == Due(u) \/ force[r]
Next1(r, u) == at[r] = "users" /\ u \in todo[r] /\ Served(r, u)
Taken(r, u) == todo' = [todo EXCEPT ![r] = @ \ {u}]

(* The quarantine of the last 24 hours, without what has a Release record,   *)
(* the newest first, and so many of them. Excused are those beyond that      *)
(* number, those with the record of another user's report, and those that    *)
(* fell between the 24 hours of this report and the report before.           *)
Window_short(u) == {m \in Shown(u) : born[m] + Day > now}     \* a mutant
Window(u) == {m \in Shown(u) : born[m] + Day >= now}
Wanted(u) == Window(u) \ Recorded
Newest(u, S) ==
    /\ S \subseteq Wanted(u)
    /\ Cardinality(S) <= MaxRecords
    /\ S = Wanted(u) \/ Cardinality(S) = MaxRecords
    /\ \A m \in S, k \in Wanted(u) \ S : born[k] <= born[m]
LeftOut(u, S) ==
    (Window(u) \ S) \cup {m \in Shown(u) : last[u] <= born[m] /\ born[m] + Day < now}

process_report(r, u) ==
    /\ command = "quarantinereportsng"
    /\ Next1(r, u) /\ Taken(r, u)
    /\ \E S \in SUBSET Msg :
        /\ Newest(u, S)
        /\ found' = [found EXCEPT ![r] = S]
        /\ current' = [current EXCEPT ![r] = {u}]
        /\ at' = [at EXCEPT ![r] = IF S = {} THEN "users" ELSE "send"]
        /\ excused' = excused \cup ({u} \X LeftOut(u, S))
    /\ last' = [last EXCEPT ![u] = now]
    /\ UNCHANGED <<Elsewhere, force, outcome, unrecorded, disturbed, overlapped, faults>>

Pairs(r) == current[r] \X found[r]
SendMail_norecord(r) ==     \* a mutant: no Release is made
    /\ at[r] = "send"
    /\ sent' = sent \cup Pairs(r) /\ twice' = twice \cup (sent \cap Pairs(r))
    /\ mailed' = [u \in Target |-> mailed[u] + (IF u \in current[r] THEN 1 ELSE 0)]
    /\ at' = [at EXCEPT ![r] = "users"]
    /\ UNCHANGED <<Elsewhere, todo, force, current, found, releases, history>>
SendMail(r) ==
    /\ at[r] = "send"
    /\ sent' = sent \cup Pairs(r) /\ twice' = twice \cup (sent \cap Pairs(r))
    /\ mailed' = [u \in Target |-> mailed[u] + (IF u \in current[r] THEN 1 ELSE 0)]
    /\ at' = [at EXCEPT ![r] = IF current[r] \subseteq Plain THEN "commit" ELSE "users"]
    /\ UNCHANGED <<Elsewhere, todo, force, current, found, releases, history>>
SendFails(r) ==
    /\ at[r] = "send" /\ faults < MaxFaults
    /\ faults' = faults + 1
    /\ excused' = excused \cup Pairs(r)
    /\ at' = [at EXCEPT ![r] = "users"]
    /\ UNCHANGED <<Elsewhere, todo, force, current, found, outcome, last, unrecorded,
                   disturbed, overlapped>>
CommitReleases(r) ==
    /\ at[r] = "commit"
    /\ releases' = [m \in Msg |-> IF m \in found[r] THEN now ELSE releases[m]]
    /\ at' = [at EXCEPT ![r] = "users"]
    /\ UNCHANGED <<Elsewhere, todo, force, current, found, mailed, sent, twice, history>>

(* A PDF report raises nothing but for a user with more than one domain:     *)
(* then the tuples that are left are unpacked into two names, and the        *)
(* ValueError ends the whole run.                                            *)
SendPdf(r, u) ==
    /\ command = "pdfreportsng"
    /\ Next1(r, u) /\ Taken(r, u)
    /\ u \in Recipient \ Raising
    /\ mailed' = [mailed EXCEPT ![u] = @ + 1]
    /\ UNCHANGED <<Elsewhere, at, force, current, found, sent, twice, releases, history>>

(* To each admin of each of its organizations                                *)
SendDomainReport(r, d) ==
    /\ Next1(r, d) /\ Taken(r, d)
    /\ d \in ReportedDomain
    /\ mailed' = [mailed EXCEPT ![d] = @ + 1]
    /\ UNCHANGED <<Elsewhere, at, force, current, found, sent, twice, releases, history>>

Stops(r) ==
    /\ at' = [at EXCEPT ![r] = "idle"]
    /\ todo' = [todo EXCEPT ![r] = {}] /\ force' = [force EXCEPT ![r] = FALSE]
    /\ current' = [current EXCEPT ![r] = {}] /\ found' = [found EXCEPT ![r] = {}]
Finally(r) == Stops(r) /\ release_lock_after(command)

PdfRaises(r, u) ==
    /\ command = "pdfreportsng"
    /\ Next1(r, u)
    /\ u \in Raising
    /\ Finally(r)
    /\ UNCHANGED <<command, clock, outcome, history>>

Finish_now(r) ==    \* a mutant: release_lock
    /\ at[r] = "users" /\ \A u \in todo[r] : ~Served(r, u)
    /\ Stops(r) /\ release_lock_after_now(command)
    /\ UNCHANGED <<command, clock, outcome, history>>
Finish(r) ==
    /\ at[r] = "users" /\ \A u \in todo[r] : ~Served(r, u)
    /\ Finally(r)
    /\ UNCHANGED <<command, clock, outcome, history>>

KillReport(r) ==
    /\ at[r] # "idle" /\ faults < MaxFaults
    /\ faults' = faults + 1
    /\ excused' = excused \cup
        {p \in ((todo[r] \cup current[r]) \cap Recipient) \X Msg : p[2] \in Shown(p[1])}
    /\ unrecorded' = IF at[r] = "commit" THEN unrecorded \cup found[r] ELSE unrecorded
    /\ Stops(r)
    /\ UNCHANGED <<Elsewhere, outcome, last, disturbed, overlapped>>
LockLost ==
    /\ faults < MaxFaults
    /\ faults' = faults + 1
    /\ Expire(command)
    /\ disturbed' = TRUE
    /\ UNCHANGED <<command, clock, run, outcome, last, excused, unrecorded, overlapped>>

-----------------------------------------------------------------------------
ReportStep(r) ==
    \/ SendMail(r) \/ SendFails(r) \/ CommitReleases(r) \/ Finish(r) \/ KillReport(r)
    \/ \E u \in Recipient :
        process_report(r, u) \/ SendPdf(r, u) \/ PdfRaises(r, u)
    \/ \E d \in ReportedDomain : SendDomainReport(r, d)

ReportsNext ==
    \/ Pass \/ PruneReleases \/ ByHand \/ LockLost
    \/ \E m \in Msg : Quarantined(m)
    \/ \E n \in Node : Launch(n) \/ Refused(n)
    \/ \E r \in Runner : ReportStep(r)

ReportsSpec == ReportsInit /\ [][ReportsNext]_reportVars

ReportsTypeOK ==
    /\ LockTypeOK /\ command \in Command
    /\ now \in Tick /\ born \in [Msg -> 0..Never] /\ releases \in [Msg -> 0..Never]
    /\ launched \subseteq Node
    /\ at \in [Runner -> {"idle", "users", "send", "commit"}]
    /\ todo \in [Runner -> SUBSET Target] /\ force \in [Runner -> BOOLEAN]
    /\ current \in [Runner -> SUBSET Recipient] /\ found \in [Runner -> SUBSET Msg]
    /\ mailed \in [Target -> Nat] /\ last \in [Recipient -> Tick]
    /\ sent \subseteq Recipient \X Msg /\ twice \subseteq sent
    /\ excused \subseteq Recipient \X Msg /\ unrecorded \subseteq Msg
    /\ disturbed \in BOOLEAN /\ overlapped \in BOOLEAN /\ faults \in 0..MaxFaults

(***************************************************************************)
(* Cron starts the command on every node, and one of them sends: nobody    *)
(* gets two reports in an hour, unless somebody starts it by hand or       *)
(* memcached loses the lock. release_lock would not do, as the first run   *)
(* may be over before the cron of the next node starts (cache.py:49-51,    *)
(* quarantinereportsng.py:294, pdfreportsng.py:532).                       *)
(***************************************************************************)
OneReportAnHour == disturbed \/ \A u \in Target : mailed[u] <= 1

(***************************************************************************)
(* No message is in two reports of a user who has releases, unless two     *)
(* runs overlapped, or one was killed between the mail and the commit of   *)
(* its Release records (quarantinereportsng.py:141-144, 180).              *)
(***************************************************************************)
ReportedOnce ==
    \A p \in twice : p[1] \in Plain => overlapped \/ p[2] \in unrecorded

(***************************************************************************)
(* The report is "of the quarantined messages for the past 24 hours" for   *)
(* "each user" (docs/source/commands.rst:32-33). What a user has not been  *)
(* shown when it falls out of the 24 hours, he was not shown for one of    *)
(* the reasons above: there were more than MaxRecords, another user's      *)
(* report has a Release of it, this report is later in the hour than the   *)
(* one before it, the mail was refused, the run was killed, or every cron  *)
(* found the lock taken by hand. There is no other way to lose one.        *)
(***************************************************************************)
ReportedOrExcused ==
    command = "quarantinereportsng" =>
        \A u \in Recipient, m \in Msg :
            (m \in Shown(u) /\ born[m] + Day < now /\ ~Due(u)) => <<u, m>> \in sent \cup excused
=============================================================================
