------------------------------- MODULE DbClean --------------------------------
(***************************************************************************)
(* prune-database: what is older than Keep days goes from the table        *)
(* messages to the table archive, what is older than ArchiveKeep leaves    *)
(* the archive. The INSERT ... SELECT and the DELETE are one transaction,  *)
(* but each sees what is committed when it begins (READ COMMITTED), while  *)
(* loggers go on, some with rows of days ago: those that waited in the     *)
(* backup of a node (MessageLog). The lock may run out under a long run    *)
(* and let a second one in, and release_lock then frees the second's.      *)
(***************************************************************************)
EXTENDS Naturals, CommandLock

CONSTANTS
    Row,
    Runner,             \* who runs the command: cron, an administrator
    Keep, ArchiveKeep,  \* in days
    MaxDay,             \* BOUND
    MaxCleanKills       \* BOUND: runs killed in the middle

DbCleanAssumption ==
    /\ "dbclean" \in Key
    /\ Keep \in Nat /\ ArchiveKeep \in Nat /\ Keep <= ArchiveKeep
    /\ MaxDay \in Nat /\ MaxCleanKills \in Nat

VARIABLES
    day,
    stamp,              \* the timestamp of a row
    messages, archive,  \* the tables, as committed
    late,               \* history: rows that were old when they were logged
    phase,              \* of a run
    date,               \* the day a run began
    selected,           \* the rows the INSERT's SELECT saw
    inserted,           \* those it has put into archive, not yet committed
    cleanKills

tables == <<messages, archive>>
logged == <<day, stamp, messages, late>>
cleanVars == <<lock, logged, archive, phase, date, selected, inserted, cleanKills>>

Old(row, today) == stamp[row] + Keep < today
Ancient(row, today) == stamp[row] + ArchiveKeep < today
Unlogged == {row \in Row : stamp[row] = MaxDay + 1}

CleanInit ==
    /\ LockInit
    /\ day = 0 /\ stamp = [row \in Row |-> MaxDay + 1]
    /\ messages = {} /\ archive = {} /\ late = {}
    /\ phase = [r \in Runner |-> "idle"] /\ date = [r \in Runner |-> 0]
    /\ selected = [r \in Runner |-> {}] /\ inserted = [r \in Runner |-> {}]
    /\ cleanKills = 0

-----------------------------------------------------------------------------
Tomorrow ==
    /\ day < MaxDay
    /\ day' = day + 1
    /\ UNCHANGED <<lock, stamp, tables, late, phase, date, selected, inserted, cleanKills>>

(* A row is logged, at once or (from the backup) days later.                 *)
LogRow(row) ==
    /\ row \in Unlogged
    /\ \E d \in 0..day :
        /\ stamp' = [stamp EXCEPT ![row] = d]
        /\ late' = IF d + Keep < day THEN late \cup {row} ELSE late
    /\ messages' = messages \cup {row}
    /\ UNCHANGED <<lock, day, archive, phase, date, selected, inserted, cleanKills>>

(* The dates are worked out once.                                            *)
BeginClean(r) ==
    /\ phase[r] = "idle"
    /\ acquire_lock("dbclean")
    /\ phase' = [phase EXCEPT ![r] = "begun"]
    /\ date' = [date EXCEPT ![r] = day]
    /\ UNCHANGED <<logged, archive, selected, inserted, cleanKills>>

SelectOld(r) ==
    /\ phase[r] = "begun"
    /\ phase' = [phase EXCEPT ![r] = "insert"]
    /\ selected' = [selected EXCEPT ![r] = {row \in messages : Old(row, date[r])}]
    /\ UNCHANGED <<lock, logged, archive, date, inserted, cleanKills>>

(* An INSERT waits for the end of a transaction that has inserted the same   *)
(* id.                                                                       *)
MayInsert(r) ==
    /\ phase[r] = "insert"
    /\ \A q \in Runner \ {r} : inserted[q] \cap selected[r] = {}

InsertArchive_committed(r) ==       \* a mutant: a commit of its own
    /\ MayInsert(r) /\ selected[r] \cap archive = {}
    /\ archive' = archive \cup selected[r]
    /\ phase' = [phase EXCEPT ![r] = "delete"]
    /\ UNCHANGED <<lock, logged, date, selected, inserted, cleanKills>>
InsertArchive(r) ==
    /\ MayInsert(r) /\ selected[r] \cap archive = {}
    /\ inserted' = [inserted EXCEPT ![r] = selected[r]]
    /\ phase' = [phase EXCEPT ![r] = "delete"]
    /\ UNCHANGED <<lock, logged, archive, date, selected, cleanKills>>

Stops(r) ==
    /\ phase' = [phase EXCEPT ![r] = "idle"]
    /\ date' = [date EXCEPT ![r] = 0]
    /\ selected' = [selected EXCEPT ![r] = {}]
    /\ inserted' = [inserted EXCEPT ![r] = {}]

(* The rows are there: rolled back, deleted from archive and inserted again, *)
(* and then the command exits and its session is closed without a commit.    *)
IntegrityError(r) ==
    /\ MayInsert(r) /\ selected[r] \cap archive # {}
    /\ Stops(r)
    /\ release_lock("dbclean")
    /\ UNCHANGED <<logged, archive, cleanKills>>

DeleteBefore(r, today) ==
    /\ phase[r] = "delete"
    /\ messages' = {row \in messages : ~Old(row, today)}
    /\ archive' = archive \cup inserted[r]
    /\ inserted' = [inserted EXCEPT ![r] = {}]
    /\ phase' = [phase EXCEPT ![r] = "prune"]
    /\ UNCHANGED <<lock, day, stamp, late, date, selected, cleanKills>>
DeleteOld_now(r) == DeleteBefore(r, day)        \* a mutant: the date of now
DeleteOld(r) == DeleteBefore(r, date[r])

prune_archive(r) ==
    /\ phase[r] = "prune"
    /\ archive' = {row \in archive : ~Ancient(row, date[r])}
    /\ Stops(r)
    /\ release_lock("dbclean")
    /\ UNCHANGED <<logged, cleanKills>>

(* Without the finally: the lock stays.                                      *)
KillClean(r) ==
    /\ cleanKills < MaxCleanKills /\ phase[r] # "idle"
    /\ cleanKills' = cleanKills + 1
    /\ Stops(r)
    /\ UNCHANGED <<lock, logged, archive>>

LockExpires_never == FALSE      \* a mutant: add without a timeout
LockExpires ==
    /\ Expire("dbclean")
    /\ UNCHANGED <<logged, archive, phase, date, selected, inserted, cleanKills>>

-----------------------------------------------------------------------------
RunStep(r) ==
    \/ SelectOld(r) \/ InsertArchive(r) \/ IntegrityError(r) \/ DeleteOld(r)
    \/ prune_archive(r)

CleanNext ==
    \/ Tomorrow \/ LockExpires
    \/ \E row \in Row : LogRow(row)
    \/ \E r \in Runner : BeginClean(r) \/ RunStep(r) \/ KillClean(r)

CleanSpec == CleanInit /\ [][CleanNext]_cleanVars

(* Cron comes every night and a run goes on; an administrator need not come. *)
(* The lock is free again and again, but held now and then by others.        *)
CleanFairness(cron) ==
    /\ \A r \in Runner : WF_cleanVars(RunStep(r))
    /\ SF_cleanVars(BeginClean(cron))
    /\ WF_cleanVars(LockExpires)

CleanTypeOK ==
    /\ LockTypeOK
    /\ day \in 0..MaxDay /\ stamp \in [Row -> 0..(MaxDay + 1)]
    /\ messages \subseteq Row /\ archive \subseteq Row /\ late \subseteq Row
    /\ phase \in [Runner -> {"idle", "begun", "insert", "delete", "prune"}]
    /\ date \in [Runner -> 0..MaxDay]
    /\ selected \in [Runner -> SUBSET Row] /\ inserted \in [Runner -> SUBSET Row]
    /\ cleanKills \in 0..MaxCleanKills

(***************************************************************************)
(* A row leaves messages for the archive, and no other way: with two       *)
(* cleaners at once, with one killed, and on any day. The exception is a   *)
(* row that was too old already when it was logged, from a backup: it may  *)
(* come between the INSERT and the DELETE, and then it is in neither       *)
(* (dbclean.py:39-58; the command "archives, then deletes old records").   *)
(***************************************************************************)
ArchivedFirst == [][\A row \in messages \ messages' : row \in archive' \cup late]_cleanVars

(***************************************************************************)
(* No row is in both tables: else every later INSERT raises IntegrityError,*)
(* and its handler exits without a commit, so that no row is archived ever *)
(* again (dbclean.py:42-52).                                               *)
(***************************************************************************)
InOneTable == messages \cap archive = {}

(***************************************************************************)
(* What is old leaves the table messages, and what is older still the      *)
(* archive: a killed run holds the lock 300 seconds and not for ever.      *)
(***************************************************************************)
OldRowsGo ==
    \A row \in Row :
        /\ (row \in messages /\ Old(row, day)) ~> row \notin messages
        /\ (row \in archive /\ Ancient(row, day)) ~> row \notin archive
=============================================================================
