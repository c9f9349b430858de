----------------------------- MODULE MessageLog -----------------------------
(***************************************************************************)
(* How a scanned message reaches the PostgreSQL "messages" table           *)
(* (extras/perl/BS.pm), one row per recipient:                             *)
(*                                                                         *)
(*   - a MailScanner child (BaruwaLog) sends the record over a unix socket *)
(*     to the logger; without a logger it writes the rows itself to a      *)
(*     SQLite table "tm", or to one file per row when SQLite refuses;      *)
(*   - the logger (handle_conn), a single threaded event loop, inserts     *)
(*     each row in PostgreSQL or falls back to the same backups, and after *)
(*     a success copies the backed up rows to PostgreSQL, row by row;      *)
(*   - extras/perl/baruwa-backup2db.pl does the copying too, as a separate *)
(*     process started by an administrator.                                *)
(*                                                                         *)
(* Indexing in sphinx is left out: index_record swallows its errors and    *)
(* touches no state of this module.                                        *)
(***************************************************************************)
EXTENDS Naturals, FiniteSets

CONSTANTS
    Msg,        \* scanned messages
    Rcpt,       \* recipient addresses
    To,         \* To[m]: the recipients of m, in the order-free form of keys %rcpts
    Garbled,    \* messages whose frame the logger cannot decode: the uuencoded
                \* text contains "END", or outgrows the socket buffer
    Bad,        \* rows PostgreSQL refuses whatever its state
    Limit,      \* SELECT * FROM tm LIMIT 100
    MaxScan,    \* files of one restore_from_file pass (25)
    UseScript,  \* baruwa-backup2db.pl is run
    Faulty,     \* the kinds of failure that happen
    MaxFaults   \* BOUND: failures of each kind

Row == {r \in Msg \X Rcpt : r[2] \in To[r[1]]}

NoRow == <<>>

(* The failures: an INSERT or DELETE refused by SQLite (locked, disk full), *)
(* a row file that cannot be written, an error after the PostgreSQL INSERT *)
(* committed (last_insert_id, lost connection), a process killed.          *)
Kinds == {"sqlite_insert", "sqlite_delete", "store", "late_error", "crash"}

ASSUME ConstantsAssumption ==
    /\ To \in [Msg -> SUBSET Rcpt]
    /\ Garbled \subseteq Msg
    /\ Bad \subseteq Row
    /\ Limit \in Nat \ {0}
    /\ MaxScan \in Nat \ {0}
    /\ UseScript \in BOOLEAN
    /\ Faulty \subseteq Kinds
    /\ MaxFaults \in Nat

VARIABLES
    pgup,       \* PostgreSQL answers
    stage,      \* where MailScanner's record of a message is
    pend,       \* the recipients of it nobody has logged yet
    tm,         \* rows of the SQLite table
    files,      \* rows stored under restoredb/
    locks,      \* restoredb/<md5>.lock files
    copies,     \* rows of the PostgreSQL table "messages"
    srv,        \* what the logger's event loop is doing
    sentry,     \* $sentry of handle_conn
    todo,       \* rows of the logger's current restore pass
    rpc,        \* its place in the body of that pass's loop
    held,       \* the row that body works on
    script,     \* what baruwa-backup2db.pl is doing
    stodo,      \* rows its SELECT has not returned yet
    ids,        \* @ids: message ids it has inserted
    faults      \* failures so far, by kind

client  == <<stage, pend>>
backup  == <<tm, files, locks>>
logger  == <<srv, sentry, todo, rpc, held>>
scriptv == <<script, stodo, ids>>
vars == <<pgup, client, backup, copies, logger, scriptv, faults>>

Init ==
    /\ pgup = TRUE
    /\ stage = [m \in Msg |-> "new"]
    /\ pend = To
    /\ tm = {} /\ files = {} /\ locks = {}
    /\ copies = [r \in Row |-> 0]
    /\ srv = "idle" /\ sentry = FALSE /\ todo = {} /\ rpc = "fetch" /\ held = NoRow
    /\ script = "off" /\ stodo = {} /\ ids = {}
    /\ faults = [k \in Kinds |-> 0]

(***************************************************************************)
(* Failures.                                                               *)
(***************************************************************************)
Fail(k) ==
    /\ k \in Faulty
    /\ faults[k] < MaxFaults
    /\ faults' = [faults EXCEPT ![k] = @ + 1]

NoFault == UNCHANGED faults

(* PostgreSQL can be reached, or reached again, and takes this row.        *)
Accepts(r) == pgup /\ r \notin Bad

InsertRecord(r) ==
    /\ Accepts(r)
    /\ copies' = [copies EXCEPT ![r] = @ + 1]

(* SQLite lets a process write only while no other process is reading:    *)
(* a SELECT that is being fetched holds a shared lock.                     *)
LoggerMayWrite == script # "copy"
ScriptMayWrite == srv # "tm"
ClientMayWrite == LoggerMayWrite /\ ScriptMayWrite

(* Mutant of LogToBackup: the error of the INSERT is only logged.          *)
LogToBackupNoFile(r, mayWrite) ==
    /\ \/ mayWrite /\ tm' = tm \cup {r} /\ NoFault
       \/ Fail("sqlite_insert") /\ UNCHANGED tm
    /\ UNCHANGED <<files, locks>>

(* store_record: a file named after the row; it swallows its own errors.   *)
StoreRecord(r) ==
    \/ /\ Fail("sqlite_insert")
       /\ files' = files \cup {r}
    \/ /\ {"sqlite_insert", "store"} \subseteq Faulty
       /\ faults["sqlite_insert"] < MaxFaults /\ faults["store"] < MaxFaults
       /\ faults' = [faults EXCEPT !["sqlite_insert"] = @ + 1, !["store"] = @ + 1]
       /\ UNCHANGED files

(* log2backup of one row: SQLite or, when that fails, a file.              *)
LogToBackup(r, mayWrite) ==
    /\ \/ mayWrite /\ tm' = tm \cup {r} /\ UNCHANGED files /\ NoFault
       \/ StoreRecord(r) /\ UNCHANGED tm
    /\ UNCHANGED locks

(***************************************************************************)
(* BaruwaLog, in a MailScanner child.                                      *)
(***************************************************************************)
(* The record goes to the logger and the child closes the connection: it   *)
(* never learns what became of it.                                         *)
Send(m) ==
    /\ stage[m] = "new"
    /\ srv # "down"
    /\ stage' = [stage EXCEPT ![m] = "queued"]
    /\ UNCHANGED <<pgup, pend, backup, copies, logger, scriptv, faults>>

(* No connection (no logger, or its backlog is full): the child backs the  *)
(* rows up itself.                                                         *)
Fallback(m) ==
    /\ stage[m] = "new"
    /\ stage' = [stage EXCEPT ![m] = "fallback"]
    /\ UNCHANGED <<pgup, pend, backup, copies, logger, scriptv, faults>>

FallbackRow(m, a) ==
    /\ stage[m] = "fallback"
    /\ a \in pend[m]
    /\ LogToBackup(<<m, a>>, ClientMayWrite)
    /\ pend' = [pend EXCEPT ![m] = @ \ {a}]
    /\ UNCHANGED <<pgup, stage, copies, logger, scriptv>>

FallbackDone(m) ==
    /\ stage[m] = "fallback"
    /\ pend[m] = {}
    /\ stage' = [stage EXCEPT ![m] = "done"]
    /\ UNCHANGED <<pgup, pend, backup, copies, logger, scriptv, faults>>

FallbackCrash(m) ==
    /\ stage[m] = "fallback"
    /\ Fail("crash")
    /\ stage' = [stage EXCEPT ![m] = "lost"]
    /\ UNCHANGED <<pgup, pend, backup, copies, logger, scriptv>>

(***************************************************************************)
(* handle_conn, in the logger.                                             *)
(***************************************************************************)
Receive(m) ==
    /\ srv = "idle"
    /\ stage[m] = "queued"
    /\ IF m \in Garbled
         THEN /\ stage' = [stage EXCEPT ![m] = "lost"]
              /\ UNCHANGED logger
         ELSE /\ stage' = [stage EXCEPT ![m] = "serving"]
              /\ srv' = "serve"
              /\ sentry' = FALSE
              /\ UNCHANGED <<todo, rpc, held>>
    /\ UNCHANGED <<pgup, pend, backup, copies, scriptv, faults>>

(* insert_record returned: the row is in PostgreSQL.                       *)
ServeInsert(m, a) ==
    /\ srv = "serve" /\ stage[m] = "serving"
    /\ a \in pend[m]
    /\ InsertRecord(<<m, a>>)
    /\ sentry' = TRUE
    /\ pend' = [pend EXCEPT ![m] = @ \ {a}]
    /\ UNCHANGED <<pgup, stage, backup, srv, todo, rpc, held, scriptv, faults>>

(* insert_record died before anything was committed.                       *)
ServeBackup(m, a) ==
    /\ srv = "serve" /\ stage[m] = "serving"
    /\ a \in pend[m]
    /\ ~Accepts(<<m, a>>)
    /\ LogToBackup(<<m, a>>, LoggerMayWrite)
    /\ sentry' = FALSE
    /\ pend' = [pend EXCEPT ![m] = @ \ {a}]
    /\ UNCHANGED <<pgup, stage, copies, srv, todo, rpc, held, scriptv>>

(* insert_record died after the INSERT had committed: backed up as well.   *)
(* BOUND: not together with a refusal of SQLite.                           *)
ServeLateError(m, a) ==
    /\ srv = "serve" /\ stage[m] = "serving"
    /\ a \in pend[m]
    /\ InsertRecord(<<m, a>>)
    /\ Fail("late_error")
    /\ LoggerMayWrite
    /\ tm' = tm \cup {<<m, a>>}
    /\ sentry' = FALSE
    /\ pend' = [pend EXCEPT ![m] = @ \ {a}]
    /\ UNCHANGED <<pgup, stage, files, locks, srv, todo, rpc, held, scriptv>>

(* The SELECT of restore_from_backup.                                      *)
Selection(S) ==
    /\ S \subseteq tm
    /\ Cardinality(S) <= Limit
    /\ Cardinality(S) < Limit => S = tm

(* After the last recipient: restore only if that one went to PostgreSQL.  *)
ServeDone(m) ==
    /\ srv = "serve" /\ stage[m] = "serving"
    /\ pend[m] = {}
    /\ stage' = [stage EXCEPT ![m] = "done"]
    /\ IF sentry
         THEN /\ srv' = "tm"
              /\ \E S \in SUBSET tm : Selection(S) /\ todo' = S
         ELSE srv' = "idle" /\ UNCHANGED todo
    /\ UNCHANGED <<pgup, pend, backup, copies, sentry, rpc, held, scriptv, faults>>

(* Mail goes on arriving: the logger has just logged some other message.   *)
OtherMail ==
    /\ srv = "idle" /\ pgup
    /\ srv' = "tm"
    /\ sentry' = TRUE
    /\ \E S \in SUBSET tm : Selection(S) /\ todo' = S
    /\ UNCHANGED <<pgup, client, backup, copies, rpc, held, scriptv, faults>>

(***************************************************************************)
(* restore_from_backup, a row at a time.                                   *)
(***************************************************************************)
Fetching(mode) == srv = mode /\ rpc = "fetch"

(* No lock file: insert, then delete.                                      *)
RestoreInsert(r) ==
    /\ Fetching("tm") /\ r \in todo
    /\ r \notin locks
    /\ InsertRecord(r)
    /\ todo' = todo \ {r}
    /\ \/ rpc' = "delete" /\ held' = r /\ NoFault
       \/ Fail("late_error") /\ UNCHANGED <<rpc, held>>
    /\ UNCHANGED <<pgup, client, backup, srv, sentry, scriptv>>

(* Mutants of RestoreRefused: the DELETE, or the lock file, does not wait  *)
(* for the INSERT to succeed.                                              *)
RestoreRefusedDeletes(r) ==
    /\ Fetching("tm") /\ r \in todo
    /\ r \notin locks
    /\ ~Accepts(r)
    /\ todo' = todo \ {r}
    /\ tm' = tm \ {r}
    /\ UNCHANGED <<pgup, client, files, locks, copies, srv, sentry, rpc, held, scriptv, faults>>

RestoreRefusedLocks(r) ==
    /\ Fetching("tm") /\ r \in todo
    /\ r \notin locks
    /\ ~Accepts(r)
    /\ todo' = todo \ {r}
    /\ locks' = locks \cup {r}
    /\ UNCHANGED <<pgup, client, tm, files, copies, srv, sentry, rpc, held, scriptv, faults>>

RestoreRefused(r) ==
    /\ Fetching("tm") /\ r \in todo
    /\ r \notin locks
    /\ ~Accepts(r)
    /\ todo' = todo \ {r}
    /\ UNCHANGED <<pgup, client, backup, copies, srv, sentry, rpc, held, scriptv, faults>>

(* A lock file says the row is in PostgreSQL already: only delete it.      *)
RestoreStale(r) ==
    /\ Fetching("tm") /\ r \in todo
    /\ r \in locks
    /\ todo' = todo \ {r}
    /\ rpc' = "stale" /\ held' = r
    /\ UNCHANGED <<pgup, client, backup, copies, srv, sentry, scriptv, faults>>

(* Mutant of RestoreDelete: the lock file of a stale record stays.         *)
RestoreDeleteNoUnlock ==
    /\ srv = "tm" /\ rpc \in {"delete", "stale"}
    /\ LoggerMayWrite
    /\ tm' = tm \ {held}
    /\ rpc' = "fetch" /\ held' = NoRow
    /\ UNCHANGED <<pgup, client, files, locks, copies, srv, sentry, todo, scriptv, faults>>

RestoreDelete ==
    /\ srv = "tm" /\ rpc \in {"delete", "stale"}
    /\ LoggerMayWrite
    /\ tm' = tm \ {held}
    /\ IF rpc = "delete"
         THEN rpc' = "fetch" /\ held' = NoRow
         ELSE rpc' = "unlock" /\ UNCHANGED held
    /\ UNCHANGED <<pgup, client, files, locks, copies, srv, sentry, todo, scriptv, faults>>

(* Mutant of RestoreDeleteFails: the failure is only logged.               *)
RestoreDeleteFailsNoLock ==
    /\ srv = "tm" /\ rpc \in {"delete", "stale"}
    /\ Fail("sqlite_delete")
    /\ rpc' = "fetch" /\ held' = NoRow
    /\ UNCHANGED <<pgup, client, backup, copies, srv, sentry, todo, scriptv>>

(* The DELETE failed: create_lock, unless there is one already.            *)
RestoreDeleteFails ==
    /\ srv = "tm" /\ rpc \in {"delete", "stale"}
    /\ Fail("sqlite_delete")
    /\ locks' = locks \cup {held}
    /\ rpc' = "fetch" /\ held' = NoRow
    /\ UNCHANGED <<pgup, client, tm, files, copies, srv, sentry, todo, scriptv>>

RestoreUnlock ==
    /\ srv = "tm" /\ rpc = "unlock"
    /\ locks' = locks \ {held}
    /\ rpc' = "fetch" /\ held' = NoRow
    /\ UNCHANGED <<pgup, client, tm, files, copies, srv, sentry, todo, scriptv, faults>>

(* Mutant of RestoreDone: the files are forgotten.                         *)
RestoreDoneNoFiles ==
    /\ Fetching("tm") /\ todo = {}
    /\ srv' = "idle"
    /\ UNCHANGED <<pgup, client, backup, copies, sentry, todo, rpc, held, scriptv, faults>>

(* restore_from_file opens the directory.                                  *)
RestoreDone ==
    /\ Fetching("tm") /\ todo = {}
    /\ srv' = "files"
    /\ \E S \in SUBSET files :
          /\ Cardinality(S) <= MaxScan
          /\ Cardinality(S) < MaxScan => S = files
          /\ todo' = S
    /\ UNCHANGED <<pgup, client, backup, copies, sentry, rpc, held, scriptv, faults>>

(***************************************************************************)
(* restore_from_file, a file at a time. A file whose own lock file exists  *)
(* does not come up: a row is backed up once, in tm or in a file, and only *)
(* rows of tm are locked.                                                  *)
(***************************************************************************)
FileInsert(r) ==
    /\ Fetching("files") /\ r \in todo
    /\ r \notin locks
    /\ InsertRecord(r)
    /\ todo' = todo \ {r}
    /\ \/ rpc' = "delete" /\ held' = r /\ NoFault
       \/ Fail("late_error") /\ UNCHANGED <<rpc, held>>
    /\ UNCHANGED <<pgup, client, backup, srv, sentry, scriptv>>

FileRefused(r) ==
    /\ Fetching("files") /\ r \in todo
    /\ r \notin locks
    /\ ~Accepts(r)
    /\ todo' = todo \ {r}
    /\ UNCHANGED <<pgup, client, backup, copies, srv, sentry, rpc, held, scriptv, faults>>

FileUnlink ==
    /\ srv = "files" /\ rpc = "delete"
    /\ files' = files \ {held}
    /\ rpc' = "fetch" /\ held' = NoRow
    /\ UNCHANGED <<pgup, client, tm, locks, copies, srv, sentry, todo, scriptv, faults>>

(* The directory holds the lock files too; retrieve dies on the empty file *)
(* and takes the rest of the pass with it.                                 *)
FilesDie ==
    /\ Fetching("files")
    /\ locks # {}
    /\ srv' = "idle"
    /\ todo' = {}
    /\ UNCHANGED <<pgup, client, backup, copies, sentry, rpc, held, scriptv, faults>>

FilesDone ==
    /\ Fetching("files") /\ todo = {}
    /\ locks = {}
    /\ srv' = "idle"
    /\ UNCHANGED <<pgup, client, backup, copies, sentry, todo, rpc, held, scriptv, faults>>

(***************************************************************************)
(* The logger dies with the connections it has, and is started again.      *)
(***************************************************************************)
Crash ==
    /\ srv # "down"
    /\ Fail("crash")
    /\ srv' = "down"
    /\ todo' = {} /\ rpc' = "fetch" /\ held' = NoRow
    /\ stage' = [m \in Msg |->
                    IF stage[m] \in {"queued", "serving"} THEN "lost" ELSE stage[m]]
    /\ UNCHANGED <<pgup, pend, backup, copies, sentry, scriptv>>

Start ==
    /\ srv = "down"
    /\ srv' = "idle"
    /\ UNCHANGED <<pgup, client, backup, copies, sentry, todo, rpc, held, scriptv, faults>>

(***************************************************************************)
(* baruwa-backup2db.pl: every row is inserted first, then the message ids  *)
(* that were inserted are deleted; it knows nothing of the lock files.     *)
(***************************************************************************)
ScriptStart ==
    /\ UseScript /\ script = "off"
    /\ script' = "copy"
    /\ stodo' = tm
    /\ UNCHANGED <<pgup, client, backup, copies, logger, ids, faults>>

ScriptInsert(r) ==
    /\ script = "copy" /\ r \in stodo
    /\ InsertRecord(r)
    /\ stodo' = stodo \ {r}
    /\ \/ ids' = ids \cup {r[1]} /\ NoFault
       \/ Fail("late_error") /\ UNCHANGED ids
    /\ UNCHANGED <<pgup, client, backup, logger, script>>

ScriptRefused(r) ==
    /\ script = "copy" /\ r \in stodo
    /\ ~Accepts(r)
    /\ stodo' = stodo \ {r}
    /\ UNCHANGED <<pgup, client, backup, copies, logger, script, ids, faults>>

ScriptFetched ==
    /\ script = "copy" /\ stodo = {}
    /\ script' = "clean"
    /\ UNCHANGED <<pgup, client, backup, copies, logger, stodo, ids, faults>>

(* Mutant of ScriptClean: nothing is deleted.                              *)
ScriptCleanNothing ==
    /\ script = "clean"
    /\ script' = "off" /\ ids' = {}
    /\ UNCHANGED <<pgup, client, backup, copies, logger, stodo, faults>>

(* DELETE FROM tm WHERE messageid IN (...); a failure is only reported.    *)
(* BOUND: one batch, for the code deletes the ids 50 at a time.            *)
ScriptClean ==
    /\ script = "clean"
    /\ \/ /\ ScriptMayWrite
          /\ tm' = {r \in tm : r[1] \notin ids}
          /\ NoFault
       \/ Fail("sqlite_delete") /\ UNCHANGED tm
    /\ script' = "off" /\ ids' = {}
    /\ UNCHANGED <<pgup, client, files, locks, copies, logger, stodo>>

ScriptCrash ==
    /\ script # "off"
    /\ Fail("crash")
    /\ script' = "off" /\ stodo' = {} /\ ids' = {}
    /\ UNCHANGED <<pgup, client, backup, copies, logger>>

(***************************************************************************)
(* PostgreSQL goes and comes.                                              *)
(***************************************************************************)
PgDown == pgup /\ pgup' = FALSE
          /\ UNCHANGED <<client, backup, copies, logger, scriptv, faults>>
PgUp   == ~pgup /\ pgup' = TRUE
          /\ UNCHANGED <<client, backup, copies, logger, scriptv, faults>>

ClientStep ==
    \E m \in Msg :
        \/ Send(m) \/ Fallback(m) \/ FallbackDone(m)
        \/ \E a \in Rcpt : FallbackRow(m, a)

ServeStep ==
    \E m \in Msg :
        \/ Receive(m) \/ ServeDone(m)
        \/ \E a \in Rcpt : ServeInsert(m, a) \/ ServeBackup(m, a) \/ ServeLateError(m, a)

RestoreStep ==
    \/ \E r \in Row : \/ RestoreInsert(r) \/ RestoreRefused(r) \/ RestoreStale(r)
                      \/ FileInsert(r) \/ FileRefused(r)
    \/ RestoreDelete \/ RestoreDeleteFails \/ RestoreUnlock \/ RestoreDone
    \/ FileUnlink \/ FilesDie \/ FilesDone

ScriptStep ==
    \/ ScriptStart \/ ScriptFetched \/ ScriptClean \/ ScriptCrash
    \/ \E r \in Row : ScriptInsert(r) \/ ScriptRefused(r)

Next ==
    \/ ClientStep \/ ServeStep \/ OtherMail \/ RestoreStep
    \/ Crash \/ (\E m \in Msg : FallbackCrash(m)) \/ Start
    \/ ScriptStep \/ PgDown \/ PgUp

Spec == Init /\ [][Next]_vars

(* The processes run, MailScanner restarts the logger, mail keeps coming.  *)
(* PostgreSQL owes nobody anything.                                        *)
FairSpec ==
    /\ Spec
    /\ WF_vars(ClientStep) /\ WF_vars(ServeStep) /\ WF_vars(RestoreStep)
    /\ WF_vars(OtherMail) /\ WF_vars(Start)

-----------------------------------------------------------------------------
InFlight(r) == r[2] \in pend[r[1]] /\ stage[r[1]] # "lost"

Stored(r) == copies[r] > 0 \/ r \in tm \/ r \in files

(* The state has its types.                                                *)
TypeOK ==
    /\ pgup \in BOOLEAN
    /\ stage \in [Msg -> {"new", "queued", "serving", "fallback", "done", "lost"}]
    /\ pend \in [Msg -> SUBSET Rcpt] /\ \A m \in Msg : pend[m] \subseteq To[m]
    /\ tm \subseteq Row /\ files \subseteq Row /\ locks \subseteq Row
    /\ copies \in [Row -> Nat]
    /\ srv \in {"down", "idle", "serve", "tm", "files"}
    /\ sentry \in BOOLEAN
    /\ todo \subseteq Row
    /\ rpc \in {"fetch", "delete", "stale", "unlock"}
    /\ held \in Row \cup {NoRow} /\ (rpc # "fetch" => held \in Row)
    /\ script \in {"off", "copy", "clean"}
    /\ stodo \subseteq Row
    /\ ids \subseteq Msg
    /\ faults \in [Kinds -> Nat]

(* A row that MailScanner handed over is on its way or in one of the three *)
(* stores (README.rst:49: the backup prevents data loss while the database *)
(* is unavailable).                                                        *)
NothingLost == \A r \in Row : InFlight(r) \/ Stored(r)

(* What restore_from_backup, restore_from_file, the inserts of the script  *)
(* and the crash of any process may never do: let a row that was stored    *)
(* disappear. Only the DELETE of the script does that (see NothingLost).   *)
Durable == [][script = "clean" \/ \A r \in Row : Stored(r) => Stored(r)']_vars

(* A lock file stands for a row that is in PostgreSQL: deleting the backup *)
(* of a locked row, or leaving it, loses nothing.                          *)
LockedIsCopied == \A r \in locks : copies[r] > 0

(* A row is inserted once, plus once for every crash and every error       *)
(* reported after the commit. A DELETE that SQLite refuses does not count: *)
(* this is what create_lock is for. The script, which ignores the locks,   *)
(* inserts a row that both have selected again, and once more for a DELETE *)
(* of its own that fails.                                                  *)
CopiesBounded ==
    \A r \in Row :
        copies[r] <= 1 + faults["crash"] + faults["late_error"]
                       + (IF UseScript THEN 1 + faults["sqlite_delete"] ELSE 0)

(* A lock file that outlives its row of tm makes every later pass of       *)
(* restore_from_file die on it; unless a process was killed there is none. *)
NoOrphanLock ==
    faults["crash"] = 0 => \A r \in locks : r \in tm \/ (rpc = "unlock" /\ held = r)

(***************************************************************************)
(* MessageLog implements RowStore: as long as no process is killed, every  *)
(* row file can be written and the script is not used, a row goes its way, *)
(* waiting, kept, delivered, and never back; it is inserted only while     *)
(* PostgreSQL answers, and once that stays up what is kept is inserted. A  *)
(* row that is nowhere would be "lost", which RowStore does not know.      *)
(***************************************************************************)
PlaceOf(r) ==
    IF copies[r] > 0 THEN "delivered"
    ELSE IF r \in tm \cup files THEN "kept"
    ELSE IF InFlight(r) THEN "waiting" ELSE "lost"
Store == INSTANCE RowStore WITH
            Refused <- Bad, up <- pgup, place <- [r \in Row |-> PlaceOf(r)]
Delivers == Store!FairSpec
=============================================================================
