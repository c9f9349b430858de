-------------------------- MODULE MessageLogProofs --------------------------
(***************************************************************************)
(* What holds of MessageLog for every set of messages, recipients and      *)
(* failures. The restore script takes part, but in what it breaks: that    *)
(* no row is lost, that rows only move on, and that locks go with rows.    *)
(***************************************************************************)
EXTENDS MessageLog, TLAPS

USE DEF client, backup, logger, scriptv, Accepts, InsertRecord

(* A failure only counts itself.                                           *)
LEMMA FailType ==
  ASSUME NEW k, Fail(k), faults \in [Kinds -> Nat]
  PROVE  faults' \in [Kinds -> Nat]
BY ConstantsAssumption DEF Fail

(* log2backup keeps the types of what it writes.                           *)
LEMMA BackupType ==
  ASSUME TypeOK, NEW r \in Row, NEW w, LogToBackup(r, w)
  PROVE  tm' \subseteq Row /\ files' \subseteq Row /\ locks' = locks
         /\ faults' \in [Kinds -> Nat]
<1> USE DEF TypeOK
<1>1. CASE Fail("sqlite_insert") /\ files' = files \cup {r} /\ UNCHANGED <<tm, locks>>
  BY <1>1, FailType
<1>2. CASE /\ {"sqlite_insert", "store"} \subseteq Faulty
           /\ faults' = [faults EXCEPT !["sqlite_insert"] = @ + 1, !["store"] = @ + 1]
           /\ UNCHANGED backup
  BY <1>2, ConstantsAssumption
<1> QED
  BY <1>1, <1>2 DEF LogToBackup, StoreRecord, NoFault

(* One more copy of a row is still a number of copies.                     *)
LEMMA CopyType ==
  ASSUME TypeOK, NEW r \in Row
  PROVE  [copies EXCEPT ![r] = @ + 1] \in [Row -> Nat]
BY DEF TypeOK

(* A recipient nobody has logged yet stands for a row.                     *)
LEMMA PendingRow ==
  ASSUME TypeOK, NEW m \in Msg, NEW a \in Rcpt, a \in pend[m]
  PROVE  <<m, a>> \in Row
BY DEF TypeOK, Row

(* The types hold: TypeOK is an invariant of the logger.                   *)
THEOREM TypeCorrect == Spec => []TypeOK
<1>1. Init => TypeOK
  <2> SUFFICES ASSUME Init PROVE TypeOK
    OBVIOUS
  <2>1. pend \in [Msg -> SUBSET Rcpt] /\ \A m \in Msg : pend[m] \subseteq To[m]
    BY ConstantsAssumption DEF Init
  <2>2. copies \in [Row -> Nat] /\ faults \in [Kinds -> Nat]
    BY DEF Init
  <2> QED
    BY <2>1, <2>2 DEF Init, TypeOK
<1>2. TypeOK /\ [Next]_vars => TypeOK'
  <2> SUFFICES ASSUME TypeOK, [Next]_vars PROVE TypeOK'
    OBVIOUS
  <2> USE DEF TypeOK, NoFault
  <2>1. ASSUME NEW m \in Msg, Send(m) PROVE TypeOK'
    BY <2>1 DEF Send
  <2>2. ASSUME NEW m \in Msg, Fallback(m) PROVE TypeOK'
    BY <2>2 DEF Fallback
  <2>3. ASSUME NEW m \in Msg, FallbackDone(m) PROVE TypeOK'
    BY <2>3 DEF FallbackDone
  <2>4. ASSUME NEW m \in Msg, NEW a \in Rcpt, FallbackRow(m, a) PROVE TypeOK'
    BY <2>4, PendingRow, BackupType DEF FallbackRow
  <2>5. ASSUME NEW m \in Msg, Receive(m) PROVE TypeOK'
    BY <2>5 DEF Receive
  <2>6. ASSUME NEW m \in Msg, ServeDone(m) PROVE TypeOK'
    BY <2>6 DEF ServeDone, Selection
  <2>7. ASSUME NEW m \in Msg, NEW a \in Rcpt, ServeInsert(m, a) PROVE TypeOK'
    BY <2>7, PendingRow, CopyType, FailType DEF ServeInsert
  <2>8. ASSUME NEW m \in Msg, NEW a \in Rcpt, ServeBackup(m, a) PROVE TypeOK'
    BY <2>8, PendingRow, BackupType DEF ServeBackup
  <2>9. ASSUME NEW m \in Msg, NEW a \in Rcpt, ServeLateError(m, a) PROVE TypeOK'
    BY <2>9, PendingRow, CopyType, FailType DEF ServeLateError
  <2>10. CASE OtherMail
    BY <2>10 DEF OtherMail, Selection
  <2>11. ASSUME NEW r \in Row, RestoreInsert(r) PROVE TypeOK'
    BY <2>11, CopyType, FailType DEF RestoreInsert, Fetching
  <2>12. ASSUME NEW r \in Row, RestoreRefused(r) PROVE TypeOK'
    BY <2>12 DEF RestoreRefused, Fetching
  <2>13. ASSUME NEW r \in Row, RestoreStale(r) PROVE TypeOK'
    BY <2>13 DEF RestoreStale, Fetching
  <2>14. ASSUME NEW r \in Row, FileInsert(r) PROVE TypeOK'
    BY <2>14, CopyType, FailType DEF FileInsert, Fetching
  <2>15. ASSUME NEW r \in Row, FileRefused(r) PROVE TypeOK'
    BY <2>15 DEF FileRefused, Fetching
  <2>16. CASE RestoreDelete
    BY <2>16 DEF RestoreDelete
  <2>17. CASE RestoreDeleteFails
    BY <2>17, FailType DEF RestoreDeleteFails
  <2>18. CASE RestoreUnlock
    BY <2>18 DEF RestoreUnlock
  <2>19. CASE RestoreDone
    BY <2>19 DEF RestoreDone, Fetching
  <2>20. CASE FileUnlink
    BY <2>20 DEF FileUnlink
  <2>21. CASE FilesDie
    BY <2>21 DEF FilesDie, Fetching
  <2>22. CASE FilesDone
    BY <2>22 DEF FilesDone, Fetching
  <2>23. CASE Crash
    BY <2>23, FailType DEF Crash
  <2>24. ASSUME NEW m \in Msg, FallbackCrash(m) PROVE TypeOK'
    BY <2>24, FailType DEF FallbackCrash
  <2>25. CASE Start
    BY <2>25 DEF Start
  <2>26. CASE ScriptStart
    BY <2>26 DEF ScriptStart
  <2>27. CASE ScriptFetched
    BY <2>27 DEF ScriptFetched
  <2>28. CASE ScriptClean
    BY <2>28, FailType DEF ScriptClean
  <2>29. CASE ScriptCrash
    BY <2>29, FailType DEF ScriptCrash
  <2>30. ASSUME NEW r \in Row, ScriptInsert(r) PROVE TypeOK'
    BY <2>30, CopyType, FailType DEF ScriptInsert, Row
  <2>31. ASSUME NEW r \in Row, ScriptRefused(r) PROVE TypeOK'
    BY <2>31 DEF ScriptRefused
  <2>32. CASE PgDown
    BY <2>32 DEF PgDown
  <2>33. CASE PgUp
    BY <2>33 DEF PgUp
  <2>34. CASE UNCHANGED vars
    BY <2>34 DEF vars
  <2> QED
    BY <2>1, <2>2, <2>3, <2>4, <2>5, <2>6, <2>7, <2>8, <2>9, <2>10, <2>11, <2>12,
       <2>13, <2>14, <2>15, <2>16, <2>17, <2>18, <2>19, <2>20, <2>21, <2>22, <2>23, <2>24,
       <2>25, <2>26, <2>27, <2>28, <2>29, <2>30, <2>31, <2>32, <2>33, <2>34
       DEF Next, ClientStep, ServeStep, RestoreStep, ScriptStep
<1> QED
  BY <1>1, <1>2, PTL DEF Spec

-----------------------------------------------------------------------------
(* Whatever row the body of a restore loop is past fetching has been       *)
(* inserted: now, or before its lock file was made.                        *)
RestoreInv ==
    /\ rpc # "fetch" => srv \in {"tm", "files"} /\ copies[held] > 0
    /\ LockedIsCopied

(* The rows that the script has yet to fetch are in tm: nobody deletes     *)
(* while it fetches, and it deletes when it has fetched all.               *)
ScriptInv ==
    /\ script # "off" => UseScript
    /\ stodo \subseteq tm
    /\ script # "copy" => stodo = {}
    /\ script = "off" => ids = {}

(* A row is in one place at a time, and the logger's pass is over rows     *)
(* that are still where it saw them.                                       *)
PlaceInv ==
    /\ \A r \in Row : r[2] \in pend[r[1]] => r \notin tm /\ r \notin files
    /\ \A r \in tm : r \notin files
    /\ srv = "tm" => todo \subseteq tm
    /\ srv = "files" => todo \subseteq files
    /\ rpc # "fetch" => srv \in {"tm", "files"}
    /\ rpc # "fetch" => held \notin todo /\ held[2] \notin pend[held[1]]
    /\ rpc # "fetch" /\ srv = "tm" => held \notin files
    /\ rpc # "fetch" /\ srv = "files" => held \notin tm /\ rpc = "delete"
    /\ rpc = "stale" => held \in locks
    /\ rpc = "unlock" => held \notin tm
    /\ ScriptInv

(* The logger may insert the row (again) as things stand.                  *)
OwedByLogger(r) ==
    \/ r[2] \in pend[r[1]]
    \/ r \in tm /\ r \notin locks /\ ~(rpc # "fetch" /\ held = r)
    \/ r \in files /\ ~(rpc # "fetch" /\ held = r)

(* And so may the script: a row that it has dealt with, and whose message  *)
(* it will delete, is not inserted again unless that DELETE does not come. *)
OwedByScript(r) ==
    /\ UseScript
    /\ \/ r[2] \in pend[r[1]]
       \/ r \in tm /\ ~(r[1] \in ids /\ r \notin stodo)

(* What CopiesBounded allows a row.                                        *)
Allowance ==
    1 + faults["crash"] + faults["late_error"]
      + (IF UseScript THEN 1 + faults["sqlite_delete"] ELSE 0)

(* CopiesBounded made inductive: an insertion that is still owed is spent  *)
(* already.                                                                *)
OnceFor(r) ==
    copies[r] + (IF OwedByLogger(r) THEN 1 ELSE 0) + (IF OwedByScript(r) THEN 1 ELSE 0)
        <= Allowance
OnceInv == \A r \in Row : OnceFor(r)

(* NoOrphanLock made inductive: the row that is to be deleted is in tm, and *)
(* has a lock file only if it had one when it was fetched.                  *)
LockInv ==
    /\ NoOrphanLock
    /\ faults["crash"] = 0 /\ srv = "tm" =>
        /\ rpc \in {"delete", "stale"} => held \in tm
        /\ rpc = "delete" => held \notin locks

-----------------------------------------------------------------------------
(* No step takes a row out of PostgreSQL.                                  *)
LEMMA CopiesGrow ==
  ASSUME TypeOK, [Next]_vars
  PROVE  \A x \in Row : copies[x] > 0 => copies'[x] > 0
<1> USE DEF TypeOK
<1>1. ASSUME NEW m \in Msg, Send(m) PROVE \A x \in Row : copies[x] > 0 => copies'[x] > 0
  BY <1>1 DEF Send
<1>2. ASSUME NEW m \in Msg, Fallback(m) PROVE \A x \in Row : copies[x] > 0 => copies'[x] > 0
  BY <1>2 DEF Fallback
<1>3. ASSUME NEW m \in Msg, FallbackDone(m) PROVE \A x \in Row : copies[x] > 0 => copies'[x] > 0
  BY <1>3 DEF FallbackDone
<1>4. ASSUME NEW m \in Msg, NEW a \in Rcpt, FallbackRow(m, a) PROVE \A x \in Row : copies[x] > 0 => copies'[x] > 0
  BY <1>4 DEF FallbackRow, LogToBackup, StoreRecord, ClientMayWrite, LoggerMayWrite, ScriptMayWrite
<1>5. ASSUME NEW m \in Msg, Receive(m) PROVE \A x \in Row : copies[x] > 0 => copies'[x] > 0
  BY <1>5 DEF Receive
<1>6. ASSUME NEW m \in Msg, ServeDone(m) PROVE \A x \in Row : copies[x] > 0 => copies'[x] > 0
  BY <1>6 DEF ServeDone, Selection
<1>7. ASSUME NEW m \in Msg, NEW a \in Rcpt, ServeInsert(m, a) PROVE \A x \in Row : copies[x] > 0 => copies'[x] > 0
  BY <1>7, PendingRow DEF ServeInsert
<1>8. ASSUME NEW m \in Msg, NEW a \in Rcpt, ServeBackup(m, a) PROVE \A x \in Row : copies[x] > 0 => copies'[x] > 0
  BY <1>8 DEF ServeBackup, LogToBackup, StoreRecord
<1>9. ASSUME NEW m \in Msg, NEW a \in Rcpt, ServeLateError(m, a) PROVE \A x \in Row : copies[x] > 0 => copies'[x] > 0
  BY <1>9, PendingRow DEF ServeLateError
<1>10. CASE OtherMail
  BY <1>10 DEF OtherMail, Selection
<1>11. ASSUME NEW r \in Row, RestoreInsert(r) PROVE \A x \in Row : copies[x] > 0 => copies'[x] > 0
  BY <1>11 DEF RestoreInsert, Fetching
<1>12. ASSUME NEW r \in Row, RestoreRefused(r) PROVE \A x \in Row : copies[x] > 0 => copies'[x] > 0
  BY <1>12 DEF RestoreRefused, Fetching
<1>13. ASSUME NEW r \in Row, RestoreStale(r) PROVE \A x \in Row : copies[x] > 0 => copies'[x] > 0
  BY <1>13 DEF RestoreStale, Fetching
<1>14. ASSUME NEW r \in Row, FileInsert(r) PROVE \A x \in Row : copies[x] > 0 => copies'[x] > 0
  BY <1>14 DEF FileInsert, Fetching
<1>15. ASSUME NEW r \in Row, FileRefused(r) PROVE \A x \in Row : copies[x] > 0 => copies'[x] > 0
  BY <1>15 DEF FileRefused, Fetching
<1>16. CASE RestoreDelete
  BY <1>16 DEF RestoreDelete
<1>17. CASE RestoreDeleteFails
  BY <1>17 DEF RestoreDeleteFails
<1>18. CASE RestoreUnlock
  BY <1>18 DEF RestoreUnlock
<1>19. CASE RestoreDone
  BY <1>19 DEF RestoreDone, Fetching
<1>20. CASE FileUnlink
  BY <1>20 DEF FileUnlink
<1>21. CASE FilesDie
  BY <1>21 DEF FilesDie, Fetching
<1>22. CASE FilesDone
  BY <1>22 DEF FilesDone, Fetching
<1>23. CASE Crash
  BY <1>23 DEF Crash
<1>24. ASSUME NEW m \in Msg, FallbackCrash(m) PROVE \A x \in Row : copies[x] > 0 => copies'[x] > 0
  BY <1>24 DEF FallbackCrash
<1>25. CASE Start
  BY <1>25 DEF Start
<1>26. CASE ScriptStart
  BY <1>26 DEF ScriptStart
<1>27. CASE ScriptFetched
  BY <1>27 DEF ScriptFetched
<1>28. CASE ScriptClean
  BY <1>28 DEF ScriptClean
<1>29. CASE ScriptCrash
  BY <1>29 DEF ScriptCrash
<1>30. ASSUME NEW r \in Row, ScriptInsert(r) PROVE \A x \in Row : copies[x] > 0 => copies'[x] > 0
  BY <1>30 DEF ScriptInsert
<1>31. ASSUME NEW r \in Row, ScriptRefused(r) PROVE \A x \in Row : copies[x] > 0 => copies'[x] > 0
  BY <1>31 DEF ScriptRefused
<1>32. CASE PgDown
  BY <1>32 DEF PgDown
<1>33. CASE PgUp
  BY <1>33 DEF PgUp
<1>34. CASE UNCHANGED vars
  BY <1>34 DEF vars
<1> QED
  BY <1>1, <1>2, <1>3, <1>4, <1>5, <1>6, <1>7, <1>8, <1>9, <1>10, <1>11, <1>12,
     <1>13, <1>14, <1>15, <1>16, <1>17, <1>18, <1>19, <1>20, <1>21, <1>22, <1>23, <1>24,
     <1>25, <1>26, <1>27, <1>28, <1>29, <1>30, <1>31, <1>32, <1>33, <1>34
     DEF Next, ClientStep, ServeStep, RestoreStep, ScriptStep

(* The invariant of the two restore loops.                                 *)
LEMMA RestoreInductive ==
  ASSUME TypeOK, RestoreInv, [Next]_vars
  PROVE  RestoreInv'
<1>g. \A x \in Row : copies[x] > 0 => copies'[x] > 0
  BY CopiesGrow
<1> USE DEF TypeOK, RestoreInv, LockedIsCopied
<1>1. ASSUME NEW m \in Msg, Send(m) PROVE RestoreInv'
  BY <1>1, <1>g DEF Send
<1>2. ASSUME NEW m \in Msg, Fallback(m) PROVE RestoreInv'
  BY <1>2, <1>g DEF Fallback
<1>3. ASSUME NEW m \in Msg, FallbackDone(m) PROVE RestoreInv'
  BY <1>3, <1>g DEF FallbackDone
<1>4. ASSUME NEW m \in Msg, NEW a \in Rcpt, FallbackRow(m, a) PROVE RestoreInv'
  BY <1>4, <1>g, BackupType, PendingRow DEF FallbackRow, LogToBackup, StoreRecord, ClientMayWrite, LoggerMayWrite, ScriptMayWrite
<1>5. ASSUME NEW m \in Msg, Receive(m) PROVE RestoreInv'
  BY <1>5, <1>g DEF Receive
<1>6. ASSUME NEW m \in Msg, ServeDone(m) PROVE RestoreInv'
  BY <1>6, <1>g DEF ServeDone, Selection
<1>7. ASSUME NEW m \in Msg, NEW a \in Rcpt, ServeInsert(m, a) PROVE RestoreInv'
  BY <1>7, <1>g DEF ServeInsert
<1>8. ASSUME NEW m \in Msg, NEW a \in Rcpt, ServeBackup(m, a) PROVE RestoreInv'
  BY <1>8, <1>g, BackupType, PendingRow DEF ServeBackup, LogToBackup, StoreRecord
<1>9. ASSUME NEW m \in Msg, NEW a \in Rcpt, ServeLateError(m, a) PROVE RestoreInv'
  BY <1>9, <1>g DEF ServeLateError
<1>10. CASE OtherMail
  BY <1>10, <1>g DEF OtherMail, Selection
<1>11. ASSUME NEW r \in Row, RestoreInsert(r) PROVE RestoreInv'
  BY <1>11, <1>g DEF RestoreInsert, Fetching
<1>12. ASSUME NEW r \in Row, RestoreRefused(r) PROVE RestoreInv'
  BY <1>12, <1>g DEF RestoreRefused, Fetching
<1>13. ASSUME NEW r \in Row, RestoreStale(r) PROVE RestoreInv'
  BY <1>13, <1>g DEF RestoreStale, Fetching
<1>14. ASSUME NEW r \in Row, FileInsert(r) PROVE RestoreInv'
  BY <1>14, <1>g DEF FileInsert, Fetching
<1>15. ASSUME NEW r \in Row, FileRefused(r) PROVE RestoreInv'
  BY <1>15, <1>g DEF FileRefused, Fetching
<1>16. CASE RestoreDelete
  BY <1>16, <1>g DEF RestoreDelete
<1>17. CASE RestoreDeleteFails
  BY <1>17, <1>g DEF RestoreDeleteFails
<1>18. CASE RestoreUnlock
  BY <1>18, <1>g DEF RestoreUnlock
<1>19. CASE RestoreDone
  BY <1>19, <1>g DEF RestoreDone, Fetching
<1>20. CASE FileUnlink
  BY <1>20, <1>g DEF FileUnlink
<1>21. CASE FilesDie
  BY <1>21, <1>g DEF FilesDie, Fetching
<1>22. CASE FilesDone
  BY <1>22, <1>g DEF FilesDone, Fetching
<1>23. CASE Crash
  BY <1>23, <1>g DEF Crash
<1>24. ASSUME NEW m \in Msg, FallbackCrash(m) PROVE RestoreInv'
  BY <1>24, <1>g DEF FallbackCrash
<1>25. CASE Start
  BY <1>25, <1>g DEF Start
<1>26. CASE ScriptStart
  BY <1>26, <1>g DEF ScriptStart
<1>27. CASE ScriptFetched
  BY <1>27, <1>g DEF ScriptFetched
<1>28. CASE ScriptClean
  BY <1>28, <1>g DEF ScriptClean
<1>29. CASE ScriptCrash
  BY <1>29, <1>g DEF ScriptCrash
<1>30. ASSUME NEW r \in Row, ScriptInsert(r) PROVE RestoreInv'
  BY <1>30, <1>g DEF ScriptInsert
<1>31. ASSUME NEW r \in Row, ScriptRefused(r) PROVE RestoreInv'
  BY <1>31, <1>g DEF ScriptRefused
<1>32. CASE PgDown
  BY <1>32, <1>g DEF PgDown
<1>33. CASE PgUp
  BY <1>33, <1>g DEF PgUp
<1>34. CASE UNCHANGED vars
  BY <1>34 DEF vars
<1> QED
  BY <1>1, <1>2, <1>3, <1>4, <1>5, <1>6, <1>7, <1>8, <1>9, <1>10, <1>11, <1>12,
     <1>13, <1>14, <1>15, <1>16, <1>17, <1>18, <1>19, <1>20, <1>21, <1>22, <1>23, <1>24,
     <1>25, <1>26, <1>27, <1>28, <1>29, <1>30, <1>31, <1>32, <1>33, <1>34
     DEF Next, ClientStep, ServeStep, RestoreStep, ScriptStep

(* LockedIsCopied: a lock file never hides a row that is not in            *)
(* PostgreSQL, whatever fails and whether or not the script runs.          *)
THEOREM LockedRowsAreCopied == Spec => []LockedIsCopied
<1>1. Init => RestoreInv
  BY DEF Init, RestoreInv, LockedIsCopied
<1>2. TypeOK /\ RestoreInv /\ [Next]_vars => RestoreInv'
  BY RestoreInductive
<1>3. RestoreInv => LockedIsCopied
  BY DEF RestoreInv
<1> QED
  BY <1>1, <1>2, <1>3, TypeCorrect, PTL DEF Spec

-----------------------------------------------------------------------------
(* The SELECT returns rows of tm.                                          *)
LEMMA Selected == \A S : Selection(S) => S \subseteq tm
BY DEF Selection

(* A row stays in one place at a time, with the script or without.         *)
LEMMA PlaceInductive ==
  ASSUME TypeOK, PlaceInv, [Next]_vars
  PROVE  PlaceInv'
<1>r. \A x \in Row : x[1] \in Msg /\ x[2] \in Rcpt /\ x = <<x[1], x[2]>>
  BY DEF Row
<1> USE <1>r DEF TypeOK, PlaceInv, ScriptInv
<1>1. ASSUME NEW m \in Msg, Send(m) PROVE PlaceInv'
  BY <1>1 DEF Send
<1>2. ASSUME NEW m \in Msg, Fallback(m) PROVE PlaceInv'
  BY <1>2 DEF Fallback
<1>3. ASSUME NEW m \in Msg, FallbackDone(m) PROVE PlaceInv'
  BY <1>3 DEF FallbackDone
<1>4. ASSUME NEW m \in Msg, NEW a \in Rcpt, FallbackRow(m, a) PROVE PlaceInv'
  BY <1>4, PendingRow DEF FallbackRow, LogToBackup, StoreRecord, NoFault, Fail
<1>5. ASSUME NEW m \in Msg, Receive(m) PROVE PlaceInv'
  BY <1>5 DEF Receive
<1>6. ASSUME NEW m \in Msg, ServeDone(m) PROVE PlaceInv'
  BY <1>6, Selected DEF ServeDone
<1>7. ASSUME NEW m \in Msg, NEW a \in Rcpt, ServeInsert(m, a) PROVE PlaceInv'
  BY <1>7, PendingRow DEF ServeInsert
<1>8. ASSUME NEW m \in Msg, NEW a \in Rcpt, ServeBackup(m, a) PROVE PlaceInv'
  BY <1>8, PendingRow DEF ServeBackup, LogToBackup, StoreRecord, NoFault, Fail
<1>9. ASSUME NEW m \in Msg, NEW a \in Rcpt, ServeLateError(m, a) PROVE PlaceInv'
  BY <1>9, PendingRow DEF ServeLateError, Fail, NoFault
<1>10. CASE OtherMail
  BY <1>10, Selected DEF OtherMail
<1>11. ASSUME NEW r \in Row, RestoreInsert(r) PROVE PlaceInv'
  BY <1>11 DEF RestoreInsert, Fetching, Fail, NoFault
<1>12. ASSUME NEW r \in Row, RestoreRefused(r) PROVE PlaceInv'
  BY <1>12 DEF RestoreRefused, Fetching
<1>13. ASSUME NEW r \in Row, RestoreStale(r) PROVE PlaceInv'
  BY <1>13 DEF RestoreStale, Fetching
<1>14. ASSUME NEW r \in Row, FileInsert(r) PROVE PlaceInv'
  BY <1>14 DEF FileInsert, Fetching, Fail, NoFault
<1>15. ASSUME NEW r \in Row, FileRefused(r) PROVE PlaceInv'
  BY <1>15 DEF FileRefused, Fetching
<1>16. CASE RestoreDelete
  BY <1>16 DEF RestoreDelete, LoggerMayWrite
<1>17. CASE RestoreDeleteFails
  BY <1>17 DEF RestoreDeleteFails, Fail, NoFault
<1>18. CASE RestoreUnlock
  BY <1>18 DEF RestoreUnlock
<1>19. CASE RestoreDone
  BY <1>19 DEF RestoreDone, Fetching
<1>20. CASE FileUnlink
  BY <1>20 DEF FileUnlink
<1>21. CASE FilesDie
  BY <1>21 DEF FilesDie, Fetching
<1>22. CASE FilesDone
  BY <1>22 DEF FilesDone, Fetching
<1>23. CASE Crash
  BY <1>23 DEF Crash, Fail
<1>24. ASSUME NEW m \in Msg, FallbackCrash(m) PROVE PlaceInv'
  BY <1>24 DEF FallbackCrash, Fail
<1>25. CASE Start
  BY <1>25 DEF Start
<1>26. CASE ScriptStart
  BY <1>26 DEF ScriptStart
<1>27. CASE ScriptFetched
  BY <1>27 DEF ScriptFetched
<1>28. CASE ScriptClean
  BY <1>28 DEF ScriptClean, ScriptMayWrite, Fail, NoFault
<1>29. CASE ScriptCrash
  BY <1>29 DEF ScriptCrash, Fail, NoFault
<1>30. ASSUME NEW r \in Row, ScriptInsert(r) PROVE PlaceInv'
  BY <1>30 DEF ScriptInsert, Fail, NoFault
<1>31. ASSUME NEW r \in Row, ScriptRefused(r) PROVE PlaceInv'
  BY <1>31 DEF ScriptRefused
<1>32. CASE PgDown
  BY <1>32 DEF PgDown
<1>33. CASE PgUp
  BY <1>33 DEF PgUp
<1>34. CASE UNCHANGED vars
  BY <1>34 DEF vars
<1> QED
  BY <1>1, <1>2, <1>3, <1>4, <1>5, <1>6, <1>7, <1>8, <1>9, <1>10, <1>11, <1>12,
     <1>13, <1>14, <1>15, <1>16, <1>17, <1>18, <1>19, <1>20, <1>21, <1>22, <1>23, <1>24,
     <1>25, <1>26, <1>27, <1>28, <1>29, <1>30, <1>31, <1>32, <1>33, <1>34
     DEF Next, ClientStep, ServeStep, RestoreStep, ScriptStep

(* Durable: a row leaves a backup only for PostgreSQL, whatever crashes    *)
(* and whatever SQLite refuses, or by the DELETE of the script.            *)
THEOREM StoredStaysStored == Spec => Durable
<1>1. Init => RestoreInv
  BY DEF Init, RestoreInv, LockedIsCopied
<1>2. RestoreInv /\ TypeOK /\ [Next]_vars => RestoreInv'
  BY RestoreInductive
<1>3. TypeOK /\ RestoreInv /\ [Next]_vars
        => [script = "clean" \/ \A r \in Row : Stored(r) => Stored(r)']_vars
  <2> SUFFICES ASSUME TypeOK, RestoreInv, script # "clean", [Next]_vars,
                      NEW x \in Row, Stored(x)
               PROVE  Stored(x)'
    OBVIOUS
  <2>g. copies[x] > 0 => copies'[x] > 0
    BY CopiesGrow
  <2> USE DEF Stored, TypeOK, RestoreInv
  <2>1. ASSUME NEW m \in Msg, Send(m) PROVE Stored(x)'
    BY <2>1, <2>g DEF Send
  <2>2. ASSUME NEW m \in Msg, Fallback(m) PROVE Stored(x)'
    BY <2>2, <2>g DEF Fallback
  <2>3. ASSUME NEW m \in Msg, FallbackDone(m) PROVE Stored(x)'
    BY <2>3, <2>g DEF FallbackDone
  <2>4. ASSUME NEW m \in Msg, NEW a \in Rcpt, FallbackRow(m, a) PROVE Stored(x)'
    BY <2>4, <2>g DEF FallbackRow, LogToBackup, StoreRecord, NoFault, Fail
  <2>5. ASSUME NEW m \in Msg, Receive(m) PROVE Stored(x)'
    BY <2>5, <2>g DEF Receive
  <2>6. ASSUME NEW m \in Msg, ServeDone(m) PROVE Stored(x)'
    BY <2>6, <2>g DEF ServeDone, Selection
  <2>7. ASSUME NEW m \in Msg, NEW a \in Rcpt, ServeInsert(m, a) PROVE Stored(x)'
    BY <2>7, <2>g DEF ServeInsert
  <2>8. ASSUME NEW m \in Msg, NEW a \in Rcpt, ServeBackup(m, a) PROVE Stored(x)'
    BY <2>8, <2>g DEF ServeBackup, LogToBackup, StoreRecord, NoFault, Fail
  <2>9. ASSUME NEW m \in Msg, NEW a \in Rcpt, ServeLateError(m, a) PROVE Stored(x)'
    BY <2>9, <2>g DEF ServeLateError
  <2>10. CASE OtherMail
    BY <2>10, <2>g DEF OtherMail, Selection
  <2>11. ASSUME NEW r \in Row, RestoreInsert(r) PROVE Stored(x)'
    BY <2>11, <2>g DEF RestoreInsert, Fetching
  <2>12. ASSUME NEW r \in Row, RestoreRefused(r) PROVE Stored(x)'
    BY <2>12, <2>g DEF RestoreRefused, Fetching
  <2>13. ASSUME NEW r \in Row, RestoreStale(r) PROVE Stored(x)'
    BY <2>13, <2>g DEF RestoreStale, Fetching
  <2>14. ASSUME NEW r \in Row, FileInsert(r) PROVE Stored(x)'
    BY <2>14, <2>g DEF FileInsert, Fetching
  <2>15. ASSUME NEW r \in Row, FileRefused(r) PROVE Stored(x)'
    BY <2>15, <2>g DEF FileRefused, Fetching
  <2>16. CASE RestoreDelete
    BY <2>16, <2>g DEF RestoreDelete
  <2>17. CASE RestoreDeleteFails
    BY <2>17, <2>g DEF RestoreDeleteFails
  <2>18. CASE RestoreUnlock
    BY <2>18, <2>g DEF RestoreUnlock
  <2>19. CASE RestoreDone
    BY <2>19, <2>g DEF RestoreDone, Fetching
  <2>20. CASE FileUnlink
    BY <2>20, <2>g DEF FileUnlink
  <2>21. CASE FilesDie
    BY <2>21, <2>g DEF FilesDie, Fetching
  <2>22. CASE FilesDone
    BY <2>22, <2>g DEF FilesDone, Fetching
  <2>23. CASE Crash
    BY <2>23, <2>g DEF Crash, Fail
  <2>24. ASSUME NEW m \in Msg, FallbackCrash(m) PROVE Stored(x)'
    BY <2>24, <2>g DEF FallbackCrash, Fail
  <2>25. CASE Start
    BY <2>25, <2>g DEF Start
  <2>26. CASE ScriptStart
    BY <2>26, <2>g DEF ScriptStart
  <2>27. CASE ScriptFetched
    BY <2>27, <2>g DEF ScriptFetched
  <2>28. CASE ScriptClean
    BY <2>28, <2>g DEF ScriptClean
  <2>29. CASE ScriptCrash
    BY <2>29, <2>g DEF ScriptCrash
  <2>30. ASSUME NEW r \in Row, ScriptInsert(r) PROVE Stored(x)'
    BY <2>30, <2>g DEF ScriptInsert
  <2>31. ASSUME NEW r \in Row, ScriptRefused(r) PROVE Stored(x)'
    BY <2>31, <2>g DEF ScriptRefused
  <2>32. CASE PgDown
    BY <2>32, <2>g DEF PgDown
  <2>33. CASE PgUp
    BY <2>33, <2>g DEF PgUp
  <2>34. CASE UNCHANGED vars
    BY <2>34 DEF vars
  <2> QED
    BY <2>1, <2>2, <2>3, <2>4, <2>5, <2>6, <2>7, <2>8, <2>9, <2>10, <2>11, <2>12,
       <2>13, <2>14, <2>15, <2>16, <2>17, <2>18, <2>19, <2>20, <2>21, <2>22, <2>23, <2>24,
       <2>25, <2>26, <2>27, <2>28, <2>29, <2>30, <2>31, <2>32, <2>33, <2>34
       DEF Next, ClientStep, ServeStep, RestoreStep, ScriptStep
<1> QED
  BY <1>1, <1>2, <1>3, TypeCorrect, PTL DEF Spec, Durable

(* Without the script no step at all lets a stored row disappear.          *)
LEMMA NothingVanishes ==
  ASSUME ~UseScript
  PROVE  Spec => [][\A r \in Row : Stored(r) => Stored(r)']_vars
<1>1. Init => PlaceInv
  BY DEF Init, PlaceInv, ScriptInv
<1>2. TypeOK /\ PlaceInv /\ [Next]_vars => PlaceInv'
  BY PlaceInductive
<1>3. PlaceInv /\ [script = "clean" \/ \A r \in Row : Stored(r) => Stored(r)']_vars
        => [\A r \in Row : Stored(r) => Stored(r)']_vars
  BY DEF PlaceInv, ScriptInv
<1> QED
  BY <1>1, <1>2, <1>3, TypeCorrect, StoredStaysStored, PTL DEF Spec, Durable

(* No message is lost: nothing is killed, every row file can be written,   *)
(* every frame can be read and the script is not used.                     *)
NoneLost == \A m \in Msg : stage[m] # "lost"

(* NothingLost: PostgreSQL may come and go, SQLite may refuse any INSERT   *)
(* or DELETE, and an INSERT may fail after its commit.                     *)
THEOREM NoRowIsLost ==
  ASSUME ~UseScript, "crash" \notin Faulty, "store" \notin Faulty, Garbled = {}
  PROVE  Spec => []NothingLost
<1>1. Init => NothingLost /\ NoneLost
  <2> SUFFICES ASSUME Init PROVE NothingLost /\ NoneLost
    OBVIOUS
  <2>1. \A r \in Row : r[1] \in Msg /\ r[2] \in To[r[1]]
    BY DEF Row
  <2> QED
    BY <2>1 DEF Init, NothingLost, NoneLost, InFlight
<1>2. TypeOK /\ NothingLost /\ NoneLost /\ [Next]_vars
        /\ [\A r \in Row : Stored(r) => Stored(r)']_vars
        => NothingLost' /\ NoneLost'
  <2> SUFFICES ASSUME TypeOK, NothingLost, NoneLost, [Next]_vars,
                      [\A r \in Row : Stored(r) => Stored(r)']_vars
               PROVE  NothingLost' /\ NoneLost'
    OBVIOUS
  <2>s. \A r \in Row : Stored(r) => Stored(r)'
    BY DEF vars, Stored
  <2>k. NoneLost'
    <3> USE DEF TypeOK, NoneLost
    <3>1. ASSUME NEW m \in Msg, Send(m) PROVE NoneLost'
      BY <3>1 DEF Send
    <3>2. ASSUME NEW m \in Msg, Fallback(m) PROVE NoneLost'
      BY <3>2 DEF Fallback
    <3>3. ASSUME NEW m \in Msg, FallbackDone(m) PROVE NoneLost'
      BY <3>3 DEF FallbackDone
    <3>4. ASSUME NEW m \in Msg, NEW a \in Rcpt, FallbackRow(m, a) PROVE NoneLost'
      BY <3>4 DEF FallbackRow, LogToBackup, StoreRecord, NoFault, Fail
    <3>5. ASSUME NEW m \in Msg, Receive(m) PROVE NoneLost'
      BY <3>5 DEF Receive
    <3>6. ASSUME NEW m \in Msg, ServeDone(m) PROVE NoneLost'
      BY <3>6 DEF ServeDone, Selection
    <3>7. ASSUME NEW m \in Msg, NEW a \in Rcpt, ServeInsert(m, a) PROVE NoneLost'
      BY <3>7 DEF ServeInsert
    <3>8. ASSUME NEW m \in Msg, NEW a \in Rcpt, ServeBackup(m, a) PROVE NoneLost'
      BY <3>8 DEF ServeBackup, LogToBackup, StoreRecord, NoFault, Fail
    <3>9. ASSUME NEW m \in Msg, NEW a \in Rcpt, ServeLateError(m, a) PROVE NoneLost'
      BY <3>9 DEF ServeLateError
    <3>10. CASE OtherMail
      BY <3>10 DEF OtherMail, Selection
    <3>11. ASSUME NEW r \in Row, RestoreInsert(r) PROVE NoneLost'
      BY <3>11 DEF RestoreInsert, Fetching
    <3>12. ASSUME NEW r \in Row, RestoreRefused(r) PROVE NoneLost'
      BY <3>12 DEF RestoreRefused, Fetching
    <3>13. ASSUME NEW r \in Row, RestoreStale(r) PROVE NoneLost'
      BY <3>13 DEF RestoreStale, Fetching
    <3>14. ASSUME NEW r \in Row, FileInsert(r) PROVE NoneLost'
      BY <3>14 DEF FileInsert, Fetching
    <3>15. ASSUME NEW r \in Row, FileRefused(r) PROVE NoneLost'
      BY <3>15 DEF FileRefused, Fetching
    <3>16. CASE RestoreDelete
      BY <3>16 DEF RestoreDelete
    <3>17. CASE RestoreDeleteFails
      BY <3>17 DEF RestoreDeleteFails
    <3>18. CASE RestoreUnlock
      BY <3>18 DEF RestoreUnlock
    <3>19. CASE RestoreDone
      BY <3>19 DEF RestoreDone, Fetching
    <3>20. CASE FileUnlink
      BY <3>20 DEF FileUnlink
    <3>21. CASE FilesDie
      BY <3>21 DEF FilesDie, Fetching
    <3>22. CASE FilesDone
      BY <3>22 DEF FilesDone, Fetching
    <3>23. CASE Crash
      BY <3>23 DEF Crash, Fail
    <3>24. ASSUME NEW m \in Msg, FallbackCrash(m) PROVE NoneLost'
      BY <3>24 DEF FallbackCrash, Fail
    <3>25. CASE Start
      BY <3>25 DEF Start
    <3>26. CASE ScriptStart
      BY <3>26 DEF ScriptStart
    <3>27. CASE ScriptFetched
      BY <3>27 DEF ScriptFetched
    <3>28. CASE ScriptClean
      BY <3>28 DEF ScriptClean
    <3>29. CASE ScriptCrash
      BY <3>29 DEF ScriptCrash
    <3>30. ASSUME NEW r \in Row, ScriptInsert(r) PROVE NoneLost'
      BY <3>30 DEF ScriptInsert
    <3>31. ASSUME NEW r \in Row, ScriptRefused(r) PROVE NoneLost'
      BY <3>31 DEF ScriptRefused
    <3>32. CASE PgDown
      BY <3>32 DEF PgDown
    <3>33. CASE PgUp
      BY <3>33 DEF PgUp
    <3>34. CASE UNCHANGED vars
      BY <3>34 DEF vars
    <3> QED
      BY <3>1, <3>2, <3>3, <3>4, <3>5, <3>6, <3>7, <3>8, <3>9, <3>10, <3>11, <3>12,
         <3>13, <3>14, <3>15, <3>16, <3>17, <3>18, <3>19, <3>20, <3>21, <3>22, <3>23, <3>24,
         <3>25, <3>26, <3>27, <3>28, <3>29, <3>30, <3>31, <3>32, <3>33, <3>34
         DEF Next, ClientStep, ServeStep, RestoreStep, ScriptStep
  <2>p. ASSUME NEW x \in Row, x[2] \in pend[x[1]], x[2] \notin pend'[x[1]]
        PROVE  Stored(x)'
    <3>r. x[1] \in Msg /\ x = <<x[1], x[2]>>
      BY DEF Row
    <3> USE <2>p, <3>r DEF TypeOK, Stored
    <3>1. ASSUME NEW m \in Msg, Send(m) PROVE Stored(x)'
      BY <3>1 DEF Send
    <3>2. ASSUME NEW m \in Msg, Fallback(m) PROVE Stored(x)'
      BY <3>2 DEF Fallback
    <3>3. ASSUME NEW m \in Msg, FallbackDone(m) PROVE Stored(x)'
      BY <3>3 DEF FallbackDone
    <3>4. ASSUME NEW m \in Msg, NEW a \in Rcpt, FallbackRow(m, a) PROVE Stored(x)'
      BY <3>4 DEF FallbackRow, LogToBackup, StoreRecord, NoFault, Fail
    <3>5. ASSUME NEW m \in Msg, Receive(m) PROVE Stored(x)'
      BY <3>5 DEF Receive
    <3>6. ASSUME NEW m \in Msg, ServeDone(m) PROVE Stored(x)'
      BY <3>6 DEF ServeDone, Selection
    <3>7. ASSUME NEW m \in Msg, NEW a \in Rcpt, ServeInsert(m, a) PROVE Stored(x)'
      BY <3>7 DEF ServeInsert
    <3>8. ASSUME NEW m \in Msg, NEW a \in Rcpt, ServeBackup(m, a) PROVE Stored(x)'
      BY <3>8 DEF ServeBackup, LogToBackup, StoreRecord, NoFault, Fail
    <3>9. ASSUME NEW m \in Msg, NEW a \in Rcpt, ServeLateError(m, a) PROVE Stored(x)'
      BY <3>9 DEF ServeLateError
    <3>10. CASE OtherMail
      BY <3>10 DEF OtherMail, Selection
    <3>11. ASSUME NEW r \in Row, RestoreInsert(r) PROVE Stored(x)'
      BY <3>11 DEF RestoreInsert, Fetching
    <3>12. ASSUME NEW r \in Row, RestoreRefused(r) PROVE Stored(x)'
      BY <3>12 DEF RestoreRefused, Fetching
    <3>13. ASSUME NEW r \in Row, RestoreStale(r) PROVE Stored(x)'
      BY <3>13 DEF RestoreStale, Fetching
    <3>14. ASSUME NEW r \in Row, FileInsert(r) PROVE Stored(x)'
      BY <3>14 DEF FileInsert, Fetching
    <3>15. ASSUME NEW r \in Row, FileRefused(r) PROVE Stored(x)'
      BY <3>15 DEF FileRefused, Fetching
    <3>16. CASE RestoreDelete
      BY <3>16 DEF RestoreDelete
    <3>17. CASE RestoreDeleteFails
      BY <3>17 DEF RestoreDeleteFails
    <3>18. CASE RestoreUnlock
      BY <3>18 DEF RestoreUnlock
    <3>19. CASE RestoreDone
      BY <3>19 DEF RestoreDone, Fetching
    <3>20. CASE FileUnlink
      BY <3>20 DEF FileUnlink
    <3>21. CASE FilesDie
      BY <3>21 DEF FilesDie, Fetching
    <3>22. CASE FilesDone
      BY <3>22 DEF FilesDone, Fetching
    <3>23. CASE Crash
      BY <3>23 DEF Crash, Fail
    <3>24. ASSUME NEW m \in Msg, FallbackCrash(m) PROVE Stored(x)'
      BY <3>24 DEF FallbackCrash, Fail
    <3>25. CASE Start
      BY <3>25 DEF Start
    <3>26. CASE ScriptStart
      BY <3>26 DEF ScriptStart
    <3>27. CASE ScriptFetched
      BY <3>27 DEF ScriptFetched
    <3>28. CASE ScriptClean
      BY <3>28 DEF ScriptClean
    <3>29. CASE ScriptCrash
      BY <3>29 DEF ScriptCrash
    <3>30. ASSUME NEW r \in Row, ScriptInsert(r) PROVE Stored(x)'
      BY <3>30 DEF ScriptInsert
    <3>31. ASSUME NEW r \in Row, ScriptRefused(r) PROVE Stored(x)'
      BY <3>31 DEF ScriptRefused
    <3>32. CASE PgDown
      BY <3>32 DEF PgDown
    <3>33. CASE PgUp
      BY <3>33 DEF PgUp
    <3>34. CASE UNCHANGED vars
      BY <3>34 DEF vars
    <3> QED
      BY <3>1, <3>2, <3>3, <3>4, <3>5, <3>6, <3>7, <3>8, <3>9, <3>10, <3>11, <3>12,
         <3>13, <3>14, <3>15, <3>16, <3>17, <3>18, <3>19, <3>20, <3>21, <3>22, <3>23, <3>24,
         <3>25, <3>26, <3>27, <3>28, <3>29, <3>30, <3>31, <3>32, <3>33, <3>34
         DEF Next, ClientStep, ServeStep, RestoreStep, ScriptStep
  <2> QED
    BY <2>s, <2>k, <2>p DEF NothingLost, InFlight, NoneLost, Row
<1> QED
  BY <1>1, <1>2, TypeCorrect, NothingVanishes, PTL DEF Spec

-----------------------------------------------------------------------------
(* A failure allows for more, and for just so much more.                   *)
LEMMA Counted ==
  ASSUME TypeOK
  PROVE  /\ Allowance \in Nat
         /\ UNCHANGED faults => Allowance' = Allowance
         /\ \A k \in Kinds : Fail(k) =>
               /\ Allowance' \in Nat /\ Allowance' >= Allowance
               /\ k \in {"crash", "late_error"} => Allowance' = Allowance + 1
               /\ k = "sqlite_delete" /\ UseScript => Allowance' = Allowance + 1
BY DEF TypeOK, Allowance, Fail, Kinds

(* log2backup moves no row but its own and costs no failure that counts.   *)
LEMMA BackupOnce ==
  ASSUME TypeOK, NEW r \in Row, NEW w, LogToBackup(r, w)
  PROVE  /\ Allowance' = Allowance /\ locks' = locks
         /\ \A x \in Row \ {r} : (x \in tm' <=> x \in tm) /\ (x \in files' <=> x \in files)
<1>1. CASE Fail("sqlite_insert") /\ files' = files \cup {r} /\ UNCHANGED <<tm, locks>>
  BY <1>1 DEF TypeOK, Allowance, Fail, Kinds
<1>2. CASE /\ faults' = [faults EXCEPT !["sqlite_insert"] = @ + 1, !["store"] = @ + 1]
           /\ UNCHANGED backup
  BY <1>2 DEF TypeOK, Allowance, Kinds
<1>3. CASE UNCHANGED <<files, locks, faults>> /\ tm' = tm \cup {r}
  BY <1>3 DEF Allowance
<1> QED
  BY <1>1, <1>2, <1>3 DEF LogToBackup, StoreRecord, NoFault

(* One step for one row: what is inserted was owed, what becomes owed      *)
(* again was paid for with a failure.                                      *)
LEMMA OnceInductive ==
  ASSUME TypeOK, PlaceInv, OnceInv, [Next]_vars
  PROVE  OnceInv'
<1> SUFFICES ASSUME NEW x \in Row
             PROVE  OnceFor(x)'
  BY DEF OnceInv
<1>x. copies[x] \in Nat /\ OnceFor(x)
  BY DEF OnceInv, TypeOK
<1>r. x[1] \in Msg /\ x[2] \in Rcpt /\ x = <<x[1], x[2]>>
  BY DEF Row
<1>k. {"sqlite_insert", "sqlite_delete", "store", "late_error", "crash"} \subseteq Kinds
  BY DEF Kinds
<1> USE <1>x, <1>r DEF TypeOK, PlaceInv, ScriptInv, OwedByLogger, OwedByScript, OnceFor
<1>1. ASSUME NEW m \in Msg, Send(m) PROVE OnceFor(x)'
  BY <1>1, Counted DEF Send
<1>2. ASSUME NEW m \in Msg, Fallback(m) PROVE OnceFor(x)'
  BY <1>2, Counted DEF Fallback
<1>3. ASSUME NEW m \in Msg, FallbackDone(m) PROVE OnceFor(x)'
  BY <1>3, Counted DEF FallbackDone
<1>4. ASSUME NEW m \in Msg, NEW a \in Rcpt, FallbackRow(m, a) PROVE OnceFor(x)'
  BY <1>4, Counted, BackupOnce, PendingRow DEF FallbackRow
<1>5. ASSUME NEW m \in Msg, Receive(m) PROVE OnceFor(x)'
  BY <1>5, Counted DEF Receive
<1>6. ASSUME NEW m \in Msg, ServeDone(m) PROVE OnceFor(x)'
  BY <1>6, Counted DEF ServeDone
<1>7. ASSUME NEW m \in Msg, NEW a \in Rcpt, ServeInsert(m, a) PROVE OnceFor(x)'
  BY <1>7, Counted, <1>k, PendingRow DEF ServeInsert
<1>8. ASSUME NEW m \in Msg, NEW a \in Rcpt, ServeBackup(m, a) PROVE OnceFor(x)'
  BY <1>8, Counted, BackupOnce, PendingRow DEF ServeBackup
<1>9. ASSUME NEW m \in Msg, NEW a \in Rcpt, ServeLateError(m, a) PROVE OnceFor(x)'
  BY <1>9, Counted, <1>k, PendingRow DEF ServeLateError, NoFault
<1>10. CASE OtherMail
  BY <1>10, Counted DEF OtherMail
<1>11. ASSUME NEW r \in Row, RestoreInsert(r) PROVE OnceFor(x)'
  BY <1>11, Counted, <1>k DEF RestoreInsert, Fetching, NoFault
<1>12. ASSUME NEW r \in Row, RestoreRefused(r) PROVE OnceFor(x)'
  BY <1>12, Counted DEF RestoreRefused, Fetching
<1>13. ASSUME NEW r \in Row, RestoreStale(r) PROVE OnceFor(x)'
  BY <1>13, Counted DEF RestoreStale, Fetching
<1>14. ASSUME NEW r \in Row, FileInsert(r) PROVE OnceFor(x)'
  BY <1>14, Counted, <1>k DEF FileInsert, Fetching, NoFault
<1>15. ASSUME NEW r \in Row, FileRefused(r) PROVE OnceFor(x)'
  BY <1>15, Counted DEF FileRefused, Fetching
<1>16. CASE RestoreDelete
  BY <1>16, Counted DEF RestoreDelete, LoggerMayWrite
<1>17. CASE RestoreDeleteFails
  BY <1>17, Counted, <1>k DEF RestoreDeleteFails, NoFault
<1>18. CASE RestoreUnlock
  BY <1>18, Counted DEF RestoreUnlock
<1>19. CASE RestoreDone
  BY <1>19, Counted DEF RestoreDone, Fetching
<1>20. CASE FileUnlink
  BY <1>20, Counted DEF FileUnlink
<1>21. CASE FilesDie
  BY <1>21, Counted DEF FilesDie, Fetching
<1>22. CASE FilesDone
  BY <1>22, Counted DEF FilesDone, Fetching
<1>23. CASE Crash
  BY <1>23, Counted, <1>k DEF Crash
<1>24. ASSUME NEW m \in Msg, FallbackCrash(m) PROVE OnceFor(x)'
  BY <1>24, Counted, <1>k DEF FallbackCrash
<1>25. CASE Start
  BY <1>25, Counted DEF Start
<1>26. CASE ScriptStart
  BY <1>26, Counted DEF ScriptStart
<1>27. CASE ScriptFetched
  BY <1>27, Counted DEF ScriptFetched
<1>28. CASE ScriptClean
  BY <1>28, Counted, <1>k DEF ScriptClean, ScriptMayWrite, NoFault
<1>29. CASE ScriptCrash
  BY <1>29, Counted, <1>k DEF ScriptCrash, NoFault
<1>30. ASSUME NEW r \in Row, ScriptInsert(r) PROVE OnceFor(x)'
  BY <1>30, Counted, <1>k DEF ScriptInsert, NoFault
<1>31. ASSUME NEW r \in Row, ScriptRefused(r) PROVE OnceFor(x)'
  BY <1>31, Counted DEF ScriptRefused
<1>32. CASE PgDown
  BY <1>32, Counted DEF PgDown
<1>33. CASE PgUp
  BY <1>33, Counted DEF PgUp
<1>34. CASE UNCHANGED vars
  BY <1>34, Counted DEF vars
<1> QED
  BY <1>1, <1>2, <1>3, <1>4, <1>5, <1>6, <1>7, <1>8, <1>9, <1>10, <1>11, <1>12,
     <1>13, <1>14, <1>15, <1>16, <1>17, <1>18, <1>19, <1>20, <1>21, <1>22, <1>23, <1>24,
     <1>25, <1>26, <1>27, <1>28, <1>29, <1>30, <1>31, <1>32, <1>33, <1>34
     DEF Next, ClientStep, ServeStep, RestoreStep, ScriptStep

(* CopiesBounded: killed processes and late errors are the only causes of  *)
(* a row logged twice, and the script where it is run; the lock files do   *)
(* their work.                                                             *)
THEOREM CopiesAreBounded == Spec => []CopiesBounded
<1>1. Init => PlaceInv /\ OnceInv
  BY DEF Init, PlaceInv, ScriptInv, OnceInv, OnceFor, OwedByLogger, OwedByScript,
         Allowance, Kinds
<1>2. TypeOK /\ PlaceInv /\ OnceInv /\ [Next]_vars => PlaceInv' /\ OnceInv'
  BY PlaceInductive, OnceInductive
<1>3. TypeOK /\ OnceInv => CopiesBounded
  BY Counted DEF OnceInv, OnceFor, CopiesBounded, TypeOK, Allowance
<1> QED
  BY <1>1, <1>2, <1>3, TypeCorrect, PTL DEF Spec

-----------------------------------------------------------------------------
(* No step leaves a lock file behind, but those of the script and of a     *)
(* process that is killed.                                                 *)
LEMMA LockInductive ==
  ASSUME TypeOK, ~UseScript, PlaceInv, LockInv, [Next]_vars
  PROVE  LockInv'
<1>k. "crash" \in Kinds
  BY DEF Kinds
<1> USE <1>k DEF TypeOK, PlaceInv, ScriptInv, LockInv, NoOrphanLock
<1>1. ASSUME NEW m \in Msg, Send(m) PROVE LockInv'
  BY <1>1 DEF Send
<1>2. ASSUME NEW m \in Msg, Fallback(m) PROVE LockInv'
  BY <1>2 DEF Fallback
<1>3. ASSUME NEW m \in Msg, FallbackDone(m) PROVE LockInv'
  BY <1>3 DEF FallbackDone
<1>4. ASSUME NEW m \in Msg, NEW a \in Rcpt, FallbackRow(m, a) PROVE LockInv'
  BY <1>4 DEF FallbackRow, LogToBackup, StoreRecord, NoFault, Fail
<1>5. ASSUME NEW m \in Msg, Receive(m) PROVE LockInv'
  BY <1>5 DEF Receive
<1>6. ASSUME NEW m \in Msg, ServeDone(m) PROVE LockInv'
  BY <1>6 DEF ServeDone
<1>7. ASSUME NEW m \in Msg, NEW a \in Rcpt, ServeInsert(m, a) PROVE LockInv'
  BY <1>7 DEF ServeInsert
<1>8. ASSUME NEW m \in Msg, NEW a \in Rcpt, ServeBackup(m, a) PROVE LockInv'
  BY <1>8 DEF ServeBackup, LogToBackup, StoreRecord, NoFault, Fail
<1>9. ASSUME NEW m \in Msg, NEW a \in Rcpt, ServeLateError(m, a) PROVE LockInv'
  BY <1>9 DEF ServeLateError, Fail
<1>10. CASE OtherMail
  BY <1>10 DEF OtherMail
<1>11. ASSUME NEW r \in Row, RestoreInsert(r) PROVE LockInv'
  BY <1>11 DEF RestoreInsert, Fetching, Fail, NoFault
<1>12. ASSUME NEW r \in Row, RestoreRefused(r) PROVE LockInv'
  BY <1>12 DEF RestoreRefused, Fetching
<1>13. ASSUME NEW r \in Row, RestoreStale(r) PROVE LockInv'
  BY <1>13 DEF RestoreStale, Fetching
<1>14. ASSUME NEW r \in Row, FileInsert(r) PROVE LockInv'
  BY <1>14 DEF FileInsert, Fetching, Fail, NoFault
<1>15. ASSUME NEW r \in Row, FileRefused(r) PROVE LockInv'
  BY <1>15 DEF FileRefused, Fetching
<1>16. CASE RestoreDelete
  BY <1>16 DEF RestoreDelete
<1>17. CASE RestoreDeleteFails
  BY <1>17 DEF RestoreDeleteFails, Fail
<1>18. CASE RestoreUnlock
  BY <1>18 DEF RestoreUnlock
<1>19. CASE RestoreDone
  BY <1>19 DEF RestoreDone, Fetching
<1>20. CASE FileUnlink
  BY <1>20 DEF FileUnlink
<1>21. CASE FilesDie
  BY <1>21 DEF FilesDie, Fetching
<1>22. CASE FilesDone
  BY <1>22 DEF FilesDone, Fetching
<1>23. CASE Crash
  BY <1>23 DEF Crash, Fail
<1>24. ASSUME NEW m \in Msg, FallbackCrash(m) PROVE LockInv'
  BY <1>24 DEF FallbackCrash, Fail
<1>25. CASE Start
  BY <1>25 DEF Start
<1>26. CASE ScriptStart
  BY <1>26 DEF ScriptStart
<1>27. CASE ScriptFetched
  BY <1>27 DEF ScriptFetched
<1>28. CASE ScriptClean
  BY <1>28 DEF ScriptClean
<1>29. CASE ScriptCrash
  BY <1>29 DEF ScriptCrash
<1>30. ASSUME NEW r \in Row, ScriptInsert(r) PROVE LockInv'
  BY <1>30 DEF ScriptInsert
<1>31. ASSUME NEW r \in Row, ScriptRefused(r) PROVE LockInv'
  BY <1>31 DEF ScriptRefused
<1>32. CASE PgDown
  BY <1>32 DEF PgDown
<1>33. CASE PgUp
  BY <1>33 DEF PgUp
<1>34. CASE UNCHANGED vars
  BY <1>34 DEF vars
<1> QED
  BY <1>1, <1>2, <1>3, <1>4, <1>5, <1>6, <1>7, <1>8, <1>9, <1>10, <1>11, <1>12,
     <1>13, <1>14, <1>15, <1>16, <1>17, <1>18, <1>19, <1>20, <1>21, <1>22, <1>23, <1>24,
     <1>25, <1>26, <1>27, <1>28, <1>29, <1>30, <1>31, <1>32, <1>33, <1>34
     DEF Next, ClientStep, ServeStep, RestoreStep, ScriptStep

(* NoOrphanLock: unless a process was killed a lock file goes with its row,  *)
(* and does not stop restore_from_file for good. The script deletes rows and *)
(* leaves their lock files: with it the property is false.                   *)
THEOREM LocksGoWithTheirRows ==
  ASSUME ~UseScript
  PROVE  Spec => []NoOrphanLock
<1>1. Init => PlaceInv /\ LockInv
  BY DEF Init, PlaceInv, ScriptInv, LockInv, NoOrphanLock
<1>2. TypeOK /\ PlaceInv /\ LockInv /\ [Next]_vars => PlaceInv' /\ LockInv'
  BY PlaceInductive, LockInductive
<1>3. LockInv => NoOrphanLock
  BY DEF LockInv
<1> QED
  BY <1>1, <1>2, <1>3, TypeCorrect, PTL DEF Spec

-----------------------------------------------------------------------------
(* A row comes to PostgreSQL only while that answers and accepts it.         *)
LEMMA InsertedWhileUp ==
  ASSUME TypeOK, [Next]_vars
  PROVE  \A x \in Row : copies[x] = 0 /\ copies'[x] > 0 => Accepts(x)
<1> DEFINE Inserted == \A x \in Row : copies[x] = 0 /\ copies'[x] > 0 => Accepts(x)
<1> USE DEF TypeOK
<1>1. ASSUME NEW m \in Msg, Send(m) PROVE Inserted
  BY <1>1 DEF Send
<1>2. ASSUME NEW m \in Msg, Fallback(m) PROVE Inserted
  BY <1>2 DEF Fallback
<1>3. ASSUME NEW m \in Msg, FallbackDone(m) PROVE Inserted
  BY <1>3 DEF FallbackDone
<1>4. ASSUME NEW m \in Msg, NEW a \in Rcpt, FallbackRow(m, a) PROVE Inserted
  BY <1>4 DEF FallbackRow, LogToBackup, StoreRecord, ClientMayWrite, LoggerMayWrite, ScriptMayWrite
<1>5. ASSUME NEW m \in Msg, Receive(m) PROVE Inserted
  BY <1>5 DEF Receive
<1>6. ASSUME NEW m \in Msg, ServeDone(m) PROVE Inserted
  BY <1>6 DEF ServeDone, Selection
<1>7. ASSUME NEW m \in Msg, NEW a \in Rcpt, ServeInsert(m, a) PROVE Inserted
  BY <1>7, PendingRow DEF ServeInsert, InsertRecord
<1>8. ASSUME NEW m \in Msg, NEW a \in Rcpt, ServeBackup(m, a) PROVE Inserted
  BY <1>8 DEF ServeBackup, LogToBackup, StoreRecord
<1>9. ASSUME NEW m \in Msg, NEW a \in Rcpt, ServeLateError(m, a) PROVE Inserted
  BY <1>9, PendingRow DEF ServeLateError, InsertRecord
<1>10. CASE OtherMail
  BY <1>10 DEF OtherMail, Selection
<1>11. ASSUME NEW r \in Row, RestoreInsert(r) PROVE Inserted
  BY <1>11 DEF RestoreInsert, InsertRecord, Fetching
<1>12. ASSUME NEW r \in Row, RestoreRefused(r) PROVE Inserted
  BY <1>12 DEF RestoreRefused, Fetching
<1>13. ASSUME NEW r \in Row, RestoreStale(r) PROVE Inserted
  BY <1>13 DEF RestoreStale, Fetching
<1>14. ASSUME NEW r \in Row, FileInsert(r) PROVE Inserted
  BY <1>14 DEF FileInsert, InsertRecord, Fetching
<1>15. ASSUME NEW r \in Row, FileRefused(r) PROVE Inserted
  BY <1>15 DEF FileRefused, Fetching
<1>16. CASE RestoreDelete
  BY <1>16 DEF RestoreDelete
<1>17. CASE RestoreDeleteFails
  BY <1>17 DEF RestoreDeleteFails
<1>18. CASE RestoreUnlock
  BY <1>18 DEF RestoreUnlock
<1>19. CASE RestoreDone
  BY <1>19 DEF RestoreDone, Fetching
<1>20. CASE FileUnlink
  BY <1>20 DEF FileUnlink
<1>21. CASE FilesDie
  BY <1>21 DEF FilesDie, Fetching
<1>22. CASE FilesDone
  BY <1>22 DEF FilesDone, Fetching
<1>23. CASE Crash
  BY <1>23 DEF Crash
<1>24. ASSUME NEW m \in Msg, FallbackCrash(m) PROVE Inserted
  BY <1>24 DEF FallbackCrash
<1>25. CASE Start
  BY <1>25 DEF Start
<1>26. CASE ScriptStart
  BY <1>26 DEF ScriptStart
<1>27. CASE ScriptFetched
  BY <1>27 DEF ScriptFetched
<1>28. CASE ScriptClean
  BY <1>28 DEF ScriptClean
<1>29. CASE ScriptCrash
  BY <1>29 DEF ScriptCrash
<1>30. ASSUME NEW r \in Row, ScriptInsert(r) PROVE Inserted
  BY <1>30 DEF ScriptInsert, InsertRecord
<1>31. ASSUME NEW r \in Row, ScriptRefused(r) PROVE Inserted
  BY <1>31 DEF ScriptRefused
<1>32. CASE PgDown
  BY <1>32 DEF PgDown
<1>33. CASE PgUp
  BY <1>33 DEF PgUp
<1>34. CASE UNCHANGED vars
  BY <1>34 DEF vars
<1> QED
  BY <1>1, <1>2, <1>3, <1>4, <1>5, <1>6, <1>7, <1>8, <1>9, <1>10, <1>11, <1>12,
     <1>13, <1>14, <1>15, <1>16, <1>17, <1>18, <1>19, <1>20, <1>21, <1>22, <1>23, <1>24,
     <1>25, <1>26, <1>27, <1>28, <1>29, <1>30, <1>31, <1>32, <1>33, <1>34
     DEF Next, ClientStep, ServeStep, RestoreStep, ScriptStep

(* The refinement, but for its liveness: under the conditions of NoRowIsLost *)
(* every step moves rows on, or leaves them where they are.                  *)
THEOREM RowsMoveOn ==
  ASSUME ~UseScript, "crash" \notin Faulty, "store" \notin Faulty, Garbled = {}
  PROVE  Spec => Store!Spec
<1>1. Init => Store!Init
  <2>1. ASSUME Init, NEW r \in Row  PROVE PlaceOf(r) = "waiting"
    <3>1. copies[r] = 0 /\ r \notin tm \cup files
      BY <2>1 DEF Init
    <3>2. InFlight(r)
      BY <2>1 DEF Init, InFlight, Row
    <3> QED  BY <3>1, <3>2 DEF PlaceOf
  <2>2. Init => pgup \in BOOLEAN
    BY DEF Init
  <2> QED  BY <2>1, <2>2 DEF Store!Init
<1>2. ASSUME TypeOK, TypeOK', NothingLost, NothingLost', [Next]_vars,
             \A r \in Row : Stored(r) => Stored(r)'
      PROVE  [Store!Next]_<<pgup, [r \in Row |-> PlaceOf(r)]>>
  <2>1. \A r \in Row : PlaceOf(r) \in Store!Place /\ PlaceOf(r)' \in Store!Place
    BY <1>2 DEF PlaceOf, Store!Place, NothingLost, Stored
  <2>2. ASSUME NEW r \in Row
        PROVE  \/ PlaceOf(r) = "waiting" /\ PlaceOf(r)' = "kept"
               \/ /\ pgup /\ r \notin Bad
                  /\ PlaceOf(r) \in {"waiting", "kept"} /\ PlaceOf(r)' = "delivered"
               \/ PlaceOf(r)' = PlaceOf(r)
    <3>1. copies[r] \in Nat /\ copies'[r] \in Nat
      BY <1>2 DEF TypeOK
    <3>2. copies[r] > 0 => copies'[r] > 0
      BY <1>2, CopiesGrow
    <3>3. copies[r] = 0 /\ copies'[r] > 0 => pgup /\ r \notin Bad
      BY <1>2, InsertedWhileUp DEF Accepts
    <3>4. (Stored(r) => Stored(r)') /\ (InFlight(r) \/ Stored(r)) /\ (InFlight(r) \/ Stored(r))'
      BY <1>2 DEF NothingLost
    <3> QED  BY <3>1, <3>2, <3>3, <3>4 DEF PlaceOf, Stored
  <2>3. pgup' \in BOOLEAN
    BY <1>2 DEF TypeOK
  <2> QED  BY <2>1, <2>2, <2>3 DEF Store!Next, Store!Keep, Store!Deliver
<1>3. UNCHANGED vars => \A r \in Row : Stored(r) => Stored(r)'
  BY DEF vars, backup, Stored
<1> QED
  BY <1>1, <1>2, <1>3, TypeCorrect, NoRowIsLost, NothingVanishes, PTL
     DEF Spec, Store!Spec
=============================================================================
