------------------------------- MODULE Backend -------------------------------
(***************************************************************************)
(* How a page of Baruwa changes the settings of a cluster. A handler of    *)
(* controllers/ calls functions of lib/api.py; each commits rows to        *)
(* PostgreSQL, one transaction after another, and then publishes tasks     *)
(* (lib/backend.py) to a fanout exchange. The celery worker of every node  *)
(* takes its copy of a task and makes a file of the node from what the     *)
(* rows are THEN. Nothing but the order of these calls ties a file to the  *)
(* rows it is made from.                                                   *)
(*                                                                         *)
(* A handler is a script, the sequence of its reads, commits and           *)
(* publications, records of that kind; this module runs scripts. The       *)
(* modules that know the rows, the scripts and the files (Directory,       *)
(* Settings) instantiate it. One node stands for all: each has its own     *)
(* queue and its own files. Tasks start in any order, a hundred at a time  *)
(* (celeryd.concurrency), but each is one step here; ConfigSync splits     *)
(* them.                                                                   *)
(***************************************************************************)
EXTENDS Naturals, Sequences

CONSTANTS
    Request,            \* BOUND: the requests that are made
    MaxCrash,           \* BOUND: web processes killed in the middle of one
    Asks(_),            \* what may be asked for, given the files followed
    Script(_, _),       \* the script of a page, given the rows it loads
    Then(_, _),         \* what a later read puts in front of the rest of it
    Apply(_, _),        \* the rows after a change is committed
    Refused(_, _),      \* the change raises instead (IntegrityError, ...)
    Wanted(_, _),       \* the tasks of a publication, given the rows
    Target(_),          \* the file a task makes
    Made(_, _, _),      \* what it makes of the rows and of the file before
    Right(_, _, _),     \* the file says what the rows say
    Leaves(_, _, _)     \* the files that a page is known not to publish when
                        \* it commits a change

VARIABLES
    db,         \* the rows
    todo,       \* the rest of the script of a request
    page,       \* what was asked for
    asked,      \* the requests made so far
    scope,      \* the files followed
    queue,      \* the tasks of the node
    disk,       \* the files of the node
    gaps,       \* files left behind: by a page that does not publish them, a
                \* process that died, or a task that made them wrong
    crashes

web == <<todo, page, asked>>
node == <<queue, disk>>
vars == <<db, web, scope, node, gaps, crashes>>

(* The tasks about the files followed that the rest of a script will publish, *)
(* as the rows are now; a read adds none.                                     *)
Followed_(tasks) == {t \in tasks : Target(t) \in scope}
Coming(script, D) ==
    Followed_(UNION {IF script[i].kind = "publish" THEN Wanted(script[i].call, D) ELSE {}
                        : i \in DOMAIN script})

(* The files that are not what the rows say *)
Stale(D) == {f \in scope : ~ Right(f, disk[f], D)}

(* The files that a set of tasks would put right *)
Mended(tasks, D) ==
    {Target(t) : t \in {x \in tasks : Right(Target(x), Made(x, D, disk[Target(x)]), D)}}

(* The files that another request was about to put right, and no longer is: a *)
(* backend function reads the row after its commit, and goes by what a later  *)
(* commit left of it.                                                         *)
Silenced(r, D, E) ==
    (UNION {Mended(Coming(todo[q], D), D) \ Mended(Coming(todo[q], E), E) : q \in Request \ {r}})
        \ Mended(Coming(Tail(todo[r]), E), E)

(* The stale files that a request which ends here was about to put right *)
Abandoned(r) == Stale(db) \cap Mended(Coming(todo[r], db), db)

InitWith(rows, files, made) ==
    /\ db = rows
    /\ scope = files
    /\ todo = [r \in Request |-> <<>>]
    /\ page = [r \in Request |-> "none"]
    /\ asked = {}
    /\ queue = {}
    /\ disk = made
    /\ gaps = {}
    /\ crashes = 0

(* A page is asked for and loads its rows *)
Begin(r) ==
    /\ r \notin asked
    /\ asked' = asked \cup {r}
    /\ \E ask \in Asks(scope) :
        /\ page' = [page EXCEPT ![r] = ask.page]
        /\ todo' = [todo EXCEPT ![r] = Script(ask, db)]
    /\ UNCHANGED <<db, scope, node, gaps, crashes>>

Next_(r, kind) == todo[r] # <<>> /\ Head(todo[r]).kind = kind

(* A query in the middle of the handler decides what it commits next *)
ReadRows(r) ==
    /\ Next_(r, "read")
    /\ todo' = [todo EXCEPT ![r] = Then(Head(@).call, db) \o Tail(@)]
    /\ UNCHANGED <<db, page, asked, scope, node, gaps, crashes>>

(* Session.commit() *)
CommitRow(r) ==
    /\ Next_(r, "commit")
    /\ LET change == Head(todo[r]).change
       IN  /\ ~ Refused(change, db)
           /\ db' = Apply(change, db)
           /\ gaps' = gaps \cup (Stale(db') \cap
                        (Silenced(r, db, db') \cup Leaves(page[r], change, db)))
    /\ todo' = [todo EXCEPT ![r] = Tail(@)]
    /\ UNCHANGED <<page, asked, scope, node, crashes>>

(* The commit raises: the rest of the script is not reached *)
CommitFails(r) ==
    /\ Next_(r, "commit")
    /\ Refused(Head(todo[r]).change, db)
    /\ gaps' = gaps \cup Abandoned(r)
    /\ todo' = [todo EXCEPT ![r] = <<>>]
    /\ UNCHANGED <<db, page, asked, scope, node, crashes>>

(* apply_async(exchange=FANOUT_XCHG), for each task of a backend function *)
PublishTasks(r) ==
    /\ Next_(r, "publish")
    /\ queue' = queue \cup Followed_(Wanted(Head(todo[r]).call, db))
    /\ todo' = [todo EXCEPT ![r] = Tail(@)]
    /\ UNCHANGED <<db, page, asked, scope, disk, gaps, crashes>>

(* The web process dies: what it had not published stays unpublished *)
Crash(r) ==
    /\ crashes < MaxCrash
    /\ todo[r] # <<>>
    /\ crashes' = crashes + 1
    /\ gaps' = gaps \cup Abandoned(r)
    /\ todo' = [todo EXCEPT ![r] = <<>>]
    /\ UNCHANGED <<db, page, asked, scope, node>>

(* The worker of the node runs a task *)
RunTask(t) ==
    LET f == Target(t)
        made == Made(t, db, disk[f])
    IN  /\ t \in queue
        /\ queue' = queue \ {t}
        /\ disk' = [disk EXCEPT ![f] = made]
        /\ gaps' = IF Right(f, made, db) THEN gaps \ {f} ELSE gaps \cup {f}
        /\ UNCHANGED <<db, web, scope, crashes>>

Step(r) == ReadRows(r) \/ CommitRow(r) \/ CommitFails(r) \/ PublishTasks(r)

Next ==
    \/ \E r \in Request : Begin(r) \/ Step(r) \/ Crash(r)
    \/ \E t \in queue : RunTask(t)

(***************************************************************************)
(* A file that is not what the rows say is about to be put right: a task   *)
(* that would do it is queued, or a request has yet to publish one. The    *)
(* exceptions are the pages that publish nothing for the file (Leaves),    *)
(* processes that died, and tasks that put a file wrong.                   *)
(***************************************************************************)
StaleIsPending ==
    \A f \in Stale(db) :
        \/ f \in gaps
        \/ f \in Mended(queue, db)
        \/ \E r \in Request : f \in Mended(Coming(todo[r], db), db)

=============================================================================
