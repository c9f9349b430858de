--------------------------------- MODULE Jobs ---------------------------------
(***************************************************************************)
(* Pages that hand a job to the worker and then refresh themselves every   *)
(* five seconds until it is done: the import of accounts into a domain and *)
(* of domains into an organization, from a CSV file that the page saves    *)
(* under its own file name; the exports, and the test of a server. The     *)
(* worker imports a line at a time, each in a transaction of its own, and  *)
(* removes the file. The page that finds the task done has the rulesets    *)
(* made anew after an import of accounts; after one of domains it only     *)
(* raises the serial number, and asks for no file. It gives a task up      *)
(* after so many refreshes.                                                *)
(*                                                                         *)
(* What a page knows is in the session of its user: the ids of his tasks,  *)
(* a counter for each kind of job, and the file of the last upload. A      *)
(* request reads the whole session when it begins and writes the whole of  *)
(* it when it ends.                                                        *)
(*                                                                         *)
(* A line is the name of the account or domain that it imports; what       *)
(* process_aux and add_address add to it has no effect on the others.      *)
(***************************************************************************)
EXTENDS Naturals, FiniteSets

CONSTANTS
    Job, Session,
    Path, NoPath,
    Name,
    Lines,          \* the names in the file of a job
    Invalid,        \* names that the form refuses
    Raising,        \* names at which the task raises what it does not catch
    NoJob,
    MaxPolls,       \* 10 in the code, 20 for the audit log
    MaxLost         \* BOUND: tasks lost with their worker

(* "export" stands for accounts, domains and the test of a server.           *)
Kind == {"accounts", "domains", "export", "audit"}

JobsAssumption ==
    /\ Lines \in [Job -> SUBSET Name] /\ Invalid \subseteq Name /\ Raising \subseteq Name
    /\ NoJob \notin Job /\ NoPath \notin Path
    /\ MaxPolls \in Nat \ {0, 1} /\ MaxLost \in Nat

VARIABLES
    kind, session, path,    \* of a job: fixed
    page,
    sess,           \* a session as it was saved last
    seen,           \* as the request of a job has read it
    file,           \* whose upload is in a file
    task,
    unread,         \* the lines the task has yet to deal with
    owner,          \* whose target a name belongs to in the database
    published,      \* the names whose files are asked for: create tasks are published
    reloaded,       \* the names there were when a higher serial number was last asked for
    raced,          \* history: two uploads were past the check at once
    crossed,        \* history: a page that gave up removed another's file
    lost

fixed == <<kind, session, path>>
web == <<page, sess, seen>>
worker == <<task, unread, owner>>
told == <<published, reloaded>>
history == <<raced, crossed, lost>>
jobsVars == <<fixed, web, file, worker, told, history>>

Importing(j) == kind[j] \in {"accounts", "domains"}
Imported == {n \in Name : owner[n] # NoJob}
Accounts == {n \in Imported : kind[owner[n]] = "accounts"}
NewSession == [known |-> {}, count |-> [k \in Kind |-> 0], file |-> NoPath]

JobsInit ==
    /\ kind \in [Job -> Kind] /\ session \in [Job -> Session] /\ path \in [Job -> Path]
    /\ page = [j \in Job |-> "form"]
    /\ sess = [s \in Session |-> NewSession] /\ seen = [j \in Job |-> NewSession]
    /\ file = [p \in Path |-> NoJob]
    /\ task = [j \in Job |-> "none"] /\ unread = [j \in Job |-> {}]
    /\ owner = [n \in Name |-> NoJob]
    /\ published = {} /\ reloaded = {}
    /\ raced = FALSE /\ crossed = {} /\ lost = 0

-----------------------------------------------------------------------------
(* The page that starts a job. os.path.exists and open are two steps, and so *)
(* are the reading and the writing of the session.                           *)

Reads(j) == seen' = [seen EXCEPT ![j] = sess[session[j]]]
CheckWith(j, free) ==
    /\ page[j] = "form" /\ Importing(j)
    /\ Reads(j)
    /\ page' = [page EXCEPT ![j] = IF free THEN "checked" ELSE "refused"]
    /\ raced' = (raced \/ (free /\ \E i \in Job : page[i] = "checked" /\ path[i] = path[j]))
    /\ UNCHANGED <<fixed, sess, file, worker, told, crossed, lost>>
CheckUpload_anyway(j) == CheckWith(j, TRUE)     \* a mutant: no check
CheckUpload(j) == CheckWith(j, file[path[j]] = NoJob)

BeginExport(j) ==
    /\ page[j] = "form" /\ ~Importing(j)
    /\ Reads(j)
    /\ page' = [page EXCEPT ![j] = "checked"]
    /\ UNCHANGED <<fixed, sess, file, worker, told, history>>

StartJob(j) ==
    /\ page[j] = "checked"
    /\ page' = [page EXCEPT ![j] = "status"]
    /\ sess' = [sess EXCEPT ![session[j]] =
            [known |-> seen[j].known \cup {j},
             count |-> [seen[j].count EXCEPT ![kind[j]] = 1],
             file |-> IF kind[j] = "domains" THEN path[j] ELSE seen[j].file]]
    /\ seen' = [seen EXCEPT ![j] = NewSession]
    /\ file' = IF Importing(j) THEN [file EXCEPT ![path[j]] = j] ELSE file
    /\ task' = [task EXCEPT ![j] = "queued"]
    /\ UNCHANGED <<fixed, unread, owner, told, history>>

-----------------------------------------------------------------------------
(* The status page, one refresh at a time                                    *)

Known(j) == j \in sess[session[j]].known
Counter(j) == sess[session[j]].count[kind[j]]
Ready(j) == task[j] \in {"done", "raised"}
Turns(j, to) == page' = [page EXCEPT ![j] = to]

(* "The task status requested has expired or does not exist"                 *)
Expired(j) ==
    /\ page[j] = "status" /\ ~Known(j)
    /\ Turns(j, "expired")
    /\ UNCHANGED <<fixed, sess, seen, file, worker, told, history>>

(* The result is there. An exception, an export: nobody is told.             *)
Finished(j) ==
    /\ page[j] = "status" /\ Known(j) /\ Ready(j)
    /\ Turns(j, IF task[j] = "done" THEN "finished" ELSE "error")
    /\ UNCHANGED <<fixed, sess, seen, file, worker, history>>
OtherReady(j) ==
    /\ Importing(j) => task[j] = "raised"
    /\ Finished(j)
    /\ UNCHANGED told

(* update_serial.delay() and no more: neither relay domains, routes, servers *)
(* nor rulesets are asked for, as update_domain_backend does for one domain. *)
DomainsReady(j) ==
    /\ kind[j] = "domains" /\ task[j] = "done"
    /\ Finished(j)
    /\ reloaded' = Imported
    /\ UNCHANGED published

(* backend_user_update(None, True): the rulesets that name accounts, made    *)
(* from every row, and the serial number. Of the files of a domain, three    *)
(* are among them, which is not enough to count it as published.             *)
AccountsReady_serial(j) ==      \* a mutant: told as after domains
    /\ kind[j] = "accounts" /\ task[j] = "done"
    /\ Finished(j)
    /\ reloaded' = Imported
    /\ UNCHANGED published
AccountsReady(j) ==
    /\ kind[j] = "accounts" /\ task[j] = "done"
    /\ Finished(j)
    /\ published' = Accounts
    /\ reloaded' = Imported

StatusReady(j) == AccountsReady(j) \/ DomainsReady(j) \/ OtherReady(j)

(* Its state is PENDING while it is queued, while it runs and when it was    *)
(* lost. The counter of the accounts page is not saved in the session, and   *)
(* never comes to ten.                                                       *)
Waits(j) == page[j] = "status" /\ Known(j) /\ ~Ready(j) /\ kind[j] # "accounts"
CountTo(j, n) ==
    sess' = [sess EXCEPT ![session[j]].count = [@ EXCEPT ![kind[j]] = n]]

StatusWait_on(j) ==         \* a mutant: without an end
    /\ Waits(j)
    /\ Counter(j) = 0 => kind[j] = "export"
    /\ CountTo(j, Counter(j) + 1)
    /\ UNCHANGED <<fixed, page, seen, file, worker, told, history>>
StatusWait(j) ==
    /\ Waits(j)
    /\ Counter(j) + 1 < MaxPolls
    /\ Counter(j) = 0 => kind[j] = "export"
    /\ CountTo(j, Counter(j) + 1)
    /\ UNCHANGED <<fixed, page, seen, file, worker, told, history>>

(* Another job of the kind was given up: its counter is gone (KeyError).     *)
NoCounter(j) ==
    /\ Waits(j) /\ Counter(j) = 0 /\ kind[j] # "export"
    /\ Turns(j, "error")
    /\ UNCHANGED <<fixed, sess, seen, file, worker, told, history>>

(* A revoked task is not started; one that runs goes on. The file that is    *)
(* removed is the last one of this session, whoever's.                       *)
GiveUpWith(j, removed) ==
    /\ Waits(j)
    /\ Counter(j) # 0 /\ Counter(j) + 1 >= MaxPolls
    /\ Turns(j, "gaveup")
    /\ CountTo(j, 0)
    /\ task' = [task EXCEPT ![j] = IF @ = "queued" THEN "revoked" ELSE @]
    /\ file' = [p \in Path |-> IF p \in removed THEN NoJob ELSE file[p]]
    /\ crossed' = IF kind[j] = "domains" /\ sess[session[j]].file # path[j]
                  THEN crossed \cup {j} ELSE crossed
    /\ UNCHANGED <<fixed, seen, unread, owner, told, raced, lost>>
GiveUp_file(j) == GiveUpWith(j, {})     \* a mutant: the file stays
GiveUp(j) ==
    GiveUpWith(j, IF kind[j] = "domains" THEN {sess[session[j]].file} ELSE {})

-----------------------------------------------------------------------------
(* The worker                                                                *)

(* Without the file there is an IOError, which is a result like others.      *)
OpenFile(j) ==
    LET whose == file[path[j]]
    IN  /\ task[j] = "queued" /\ Importing(j)
        /\ task' = [task EXCEPT ![j] = IF whose = NoJob THEN "done" ELSE "running"]
        /\ unread' = [unread EXCEPT ![j] = IF whose = NoJob THEN {} ELSE Lines[whose]]
        /\ UNCHANGED <<fixed, web, file, owner, told, history>>

ReadsLine(j, n) ==
    /\ task[j] = "running" /\ n \in unread[j]
    /\ unread' = [unread EXCEPT ![j] = @ \ {n}]
ImportLine(j, n) ==
    /\ ReadsLine(j, n)
    /\ n \notin Invalid \cup Raising \cup Imported
    /\ owner' = [owner EXCEPT ![n] = j]
    /\ UNCHANGED <<fixed, web, file, task, told, history>>
(* form.errors, or the IntegrityError of a name that is there                *)
RefuseLine(j, n) ==
    /\ ReadsLine(j, n)
    /\ n \in (Invalid \cup Imported) \ Raising
    /\ UNCHANGED <<fixed, web, file, task, owner, told, history>>
(* A line that is not UTF-8 (DataError), an organization or domain that has  *)
(* gone (NoResultFound): the lines behind are not read, nor the file removed.*)
LineRaises(j, n) ==
    /\ ReadsLine(j, n)
    /\ n \in Raising
    /\ task' = [task EXCEPT ![j] = "raised"]
    /\ UNCHANGED <<fixed, web, file, owner, told, history>>

(* os.unlink, of whatever has the name by now                                *)
EndImport(j) ==
    /\ task[j] = "running" /\ Importing(j) /\ unread[j] = {}
    /\ task' = [task EXCEPT ![j] = "done"]
    /\ file' = [file EXCEPT ![path[j]] = NoJob]
    /\ UNCHANGED <<fixed, web, unread, owner, told, history>>

(* The others only read, and hand over what they have read or an error.      *)
RunExport(j) ==
    /\ task[j] = "queued" /\ ~Importing(j)
    /\ task' = [task EXCEPT ![j] = "running"]
    /\ UNCHANGED <<fixed, web, file, unread, owner, told, history>>
EndExport(j) ==
    /\ task[j] = "running" /\ ~Importing(j)
    /\ \E result \in {"done", "raised"} : task' = [task EXCEPT ![j] = result]
    /\ UNCHANGED <<fixed, web, file, unread, owner, told, history>>

LoseTask(j) ==
    /\ task[j] = "running" /\ lost < MaxLost
    /\ lost' = lost + 1
    /\ task' = [task EXCEPT ![j] = "lost"]
    /\ UNCHANGED <<fixed, web, file, unread, owner, told, raced, crossed>>

-----------------------------------------------------------------------------
Status(j) == Expired(j) \/ StatusReady(j) \/ StatusWait(j) \/ NoCounter(j) \/ GiveUp(j)
Works(j) ==
    \/ OpenFile(j) \/ EndImport(j) \/ RunExport(j) \/ EndExport(j)
    \/ \E n \in Name : ImportLine(j, n) \/ RefuseLine(j, n) \/ LineRaises(j, n)

JobsNext ==
    \E j \in Job :
        CheckUpload(j) \/ BeginExport(j) \/ StartJob(j) \/ Status(j) \/ Works(j) \/ LoseTask(j)

JobsSpec == JobsInit /\ [][JobsNext]_jobsVars

(* A request ends what it begins, the page refreshes itself, and the worker  *)
(* goes on.                                                                  *)
JobsFairness ==
    \A j \in Job :
        WF_jobsVars(StartJob(j)) /\ WF_jobsVars(Status(j)) /\ WF_jobsVars(Works(j))

Sessions == [known : SUBSET Job, count : [Kind -> 0..MaxPolls], file : Path \cup {NoPath}]
JobsTypeOK ==
    /\ kind \in [Job -> Kind] /\ session \in [Job -> Session] /\ path \in [Job -> Path]
    /\ page \in [Job -> {"form", "checked", "refused", "status", "finished", "error",
                         "expired", "gaveup"}]
    /\ sess \in [Session -> Sessions] /\ seen \in [Job -> Sessions]
    /\ file \in [Path -> Job \cup {NoJob}]
    /\ task \in [Job -> {"none", "queued", "revoked", "running", "done", "raised", "lost"}]
    /\ unread \in [Job -> SUBSET Name]
    /\ owner \in [Name -> Job \cup {NoJob}]
    /\ published \subseteq Name /\ reloaded \subseteq Name
    /\ raced \in BOOLEAN /\ crossed \subseteq Job /\ lost \in 0..MaxLost

(***************************************************************************)
(* No upload brings the names of another's file into its own target, one   *)
(* organization's domains into another, unless two uploads of one name     *)
(* both passed os.path.exists before either opened the file, or a file was *)
(* removed under the name of another: by a page that gave up, or by an     *)
(* import that ended after its page had given it up. A third upload can    *)
(* then take the name of one that waits (organizations.py:294-302, 368,    *)
(* tasks/organizations.py:223, accounts.py:768-778).                       *)
(***************************************************************************)
EndedLate == {j \in Job : Importing(j) /\ page[j] = "gaveup" /\ task[j] = "done"}
OwnLinesOnly ==
    \/ raced \/ crossed # {} \/ EndedLate # {}
    \/ \A j \in Job, n \in Name : owner[n] = j => n \in Lines[j]

(***************************************************************************)
(* A file name is free again. If not, a task raised or was lost, and its   *)
(* page did not give it up; or it did, and removed the file of a later     *)
(* upload of the same session (organizations.py:308, 368). Every later     *)
(* upload of that name is then told that it is being processed.            *)
(***************************************************************************)
NameFreed ==
    \A p \in Path : []<>(file[p] = NoJob \/
        \E j \in Job : path[j] = p /\ (task[j] \in {"raised", "lost"} \/ j \in crossed))

(***************************************************************************)
(* An account that was imported is published, with the serial number. For  *)
(* a domain this says no more than the code does: that the number is       *)
(* raised once its row is there; whoever reads the database sees it, and   *)
(* no file names it until some other page publishes (organizations.py:356, *)
(* of lib/backend.py:50-89 nothing). Neither happens if the task raised    *)
(* behind that line or was lost, the page gave it up while it was running, *)
(* or does not know it: another request of the session has written the     *)
(* list of its tasks without this one, or has removed the counter. Then    *)
(* the rows are in the database and nobody is told.                        *)
(***************************************************************************)
Told == {n \in Imported : n \in reloaded /\ (n \in Accounts => n \in published)}
ImportTold ==
    \A n \in Name : n \in Imported ~>
        \/ n \in Told
        \/ \E j \in Job : owner[n] = j /\
                (task[j] \in {"raised", "lost"} \/ page[j] \in {"gaveup", "expired", "error"})
=============================================================================
