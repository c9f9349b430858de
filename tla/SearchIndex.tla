----------------------------- MODULE SearchIndex ------------------------------
(***************************************************************************)
(* What the search finds. A message that is logged goes into a realtime    *)
(* index. update-delta-index, every hour, merges the delta index into the  *)
(* main one, moves the time up to which the main one reaches to where the  *)
(* delta ended, makes the delta anew from there, and takes out of the      *)
(* realtime index what the delta has reached. prune-database has the main  *)
(* index made anew from the table after it has deleted rows, which cron    *)
(* starts in the same minute. Both times are rows of indexer_counters; a   *)
(* row's own time, ts, is that at which its INSERT began.                  *)
(*                                                                         *)
(* The indexer is another program: it reads the table, and when it is done *)
(* the new index and its counter are there at once. The kill list hides    *)
(* rows that are deleted, of which nothing is claimed, and is left out.    *)
(***************************************************************************)
EXTENDS Naturals, FiniteSets

CONSTANTS
    Message,
    RtLimit,    \* how many a SELECT of the realtime index returns
    MaxTime,    \* BOUND: the clock
    MaxDied     \* BOUND: updates that die in the middle

SearchAssumption ==
    /\ RtLimit \in Nat \ {0} /\ MaxTime \in Nat \ {0} /\ MaxDied \in Nat

VARIABLES
    time,
    row,        \* of the table messages: "open" and "batch" are not committed
    ts,         \* when its INSERT began
    stamp,      \* when MailScanner, or the Date of an old mail, says it came
    main, delta, rt,    \* messages that are in each index
    maxts,      \* indexer_counters: "messages" and "messages_delta"
    step,       \* of the update
    merged,     \* the main index that the indexer merges
    building,   \* the delta that it builds: what it has read, and up to when
    reindex,    \* the main index that it makes anew for prune-database
    late,       \* history: messages not committed when an index was made
    unindexed,  \* history: messages that never were in the realtime index
    died

table == <<row, ts, stamp>>
searchVars == <<time, table, main, delta, rt, maxts, step, merged, building,
                reindex, late, unindexed, died>>

Nothing == [phase |-> "none", upto |-> 0, has |-> {}]
Stored == {m \in Message : row[m] = "stored"}
Before(t) == {m \in Stored : ts[m] < t}
Uncommitted(t) == {m \in Message : row[m] \in {"open", "batch"} /\ ts[m] < t}

(* As "indexer --all --rotate" leaves it.                                    *)
SearchInit ==
    /\ time = 1 /\ row = [m \in Message |-> "new"]
    /\ ts = [m \in Message |-> 0] /\ stamp = [m \in Message |-> 0]
    /\ main = {} /\ delta = {} /\ rt = {}
    /\ maxts = [messages |-> 0, messages_delta |-> 0]
    /\ step = "idle" /\ merged = {} /\ building = Nothing /\ reindex = Nothing
    /\ late = {} /\ unindexed = {} /\ died = 0

-----------------------------------------------------------------------------
ClockTicks ==
    /\ time < MaxTime /\ time' = time + 1
    /\ UNCHANGED <<table, main, delta, rt, maxts, step, merged, building, reindex,
                   late, unindexed, died>>

Begun(ms, as, at) ==
    /\ row' = [m \in Message |-> IF m \in ms THEN as ELSE row[m]]
    /\ ts' = [m \in Message |-> IF m \in ms THEN time ELSE ts[m]]
    /\ stamp' = [m \in Message |-> IF m \in ms THEN at ELSE stamp[m]]
    /\ UNCHANGED <<time, main, delta, rt, maxts, step, merged, building, reindex,
                   late, unindexed, died>>

(* The logger's INSERT, which may wait for the totals, of a mail of now or,  *)
(* from a backup, of long ago.                                               *)
BeginInsert(m) == row[m] = "new" /\ \E at \in {0, time} : Begun({m}, "open", at)

(* import-mbox's, a batch of old mail in one transaction.                    *)
BeginBatch(ms) ==
    /\ ms # {} /\ \A m \in ms : row[m] = "new"
    /\ \A m \in Message : row[m] # "batch"
    /\ Begun(ms, "batch", 0)

(* Committed; indexed then, of which those are that the search server takes. *)
Committed(ms, indexed) ==
    /\ row' = [m \in Message |-> IF m \in ms THEN "stored" ELSE row[m]]
    /\ rt' = rt \cup indexed
    /\ unindexed' = unindexed \cup (ms \ indexed)
    /\ UNCHANGED <<time, ts, stamp, main, delta, maxts, step, merged, building,
                   reindex, late, died>>
index_record(m) == row[m] = "open" /\ \E indexed \in SUBSET {m} : Committed({m}, indexed)
update_index ==
    LET batch == {m \in Message : row[m] = "batch"} IN
    batch # {} /\ \E indexed \in SUBSET batch : Committed(batch, indexed)

(* An IntegrityError: the batch is dropped.                                  *)
flush2db ==
    /\ \E m \in Message : row[m] = "batch"
    /\ row' = [m \in Message |-> IF row[m] = "batch" THEN "gone" ELSE row[m]]
    /\ UNCHANGED <<time, ts, stamp, main, delta, rt, maxts, step, merged, building,
                   reindex, late, unindexed, died>>

-----------------------------------------------------------------------------
(* update_index of updatedelta.py. TIMING: no hour goes by while the main    *)
(* index is made anew, so that the update which comes next does not find one *)
(* under way that had read before the delta was made.                        *)
BeginMerge ==
    /\ step = "idle"
    /\ reindex.phase = "read" => reindex.upto >= maxts.messages_delta
    /\ step' = "merge" /\ merged' = main \cup delta
    /\ UNCHANGED <<time, table, main, delta, rt, maxts, building, reindex, late,
                   unindexed, died>>

Merge ==
    /\ step = "merge"
    /\ step' = "count" /\ main' = merged /\ merged' = {}
    /\ UNCHANGED <<time, table, delta, rt, maxts, building, reindex, late, unindexed, died>>

(* With a return code that is not 0 the update ends here.                    *)
MergeFails ==
    /\ step = "merge"
    /\ step' = "idle" /\ merged' = {}
    /\ UNCHANGED <<time, table, main, delta, rt, maxts, building, reindex, late,
                   unindexed, died>>

CountTo(t) ==
    /\ step = "count"
    /\ step' = "delta" /\ maxts' = [maxts EXCEPT !.messages = t]
    /\ UNCHANGED <<time, table, main, delta, rt, merged, building, reindex, late,
                   unindexed, died>>
Count_now == CountTo(time)       \* a mutant: the NOW() of sphinx-merge.conf
Count == CountTo(maxts.messages_delta)

ReadDelta ==
    /\ step = "delta"
    /\ step' = "build"
    /\ building' = [phase |-> "read", upto |-> time,
                    has |-> Before(time) \ Before(maxts.messages)]
    /\ late' = late \cup Uncommitted(time)
    /\ UNCHANGED <<time, table, main, delta, rt, maxts, merged, reindex, unindexed, died>>

(* Its return code is not looked at: the realtime index is next in any case. *)
BuildDelta ==
    /\ step = "build"
    /\ step' = "rt" /\ building' = Nothing
    /\ \/ /\ delta' = building.has
          /\ maxts' = [maxts EXCEPT !.messages_delta = building.upto]
       \/ UNCHANGED <<delta, maxts>>
    /\ UNCHANGED <<time, table, main, rt, merged, reindex, late, unindexed, died>>

(* As many as one SELECT returns; an Error of the search server leaves all.  *)
update_rt_index ==
    LET reached == {m \in rt : stamp[m] <= maxts.messages_delta} IN
    /\ step = "rt"
    /\ step' = "idle"
    /\ \E some \in SUBSET reached :
        /\ some = {} \/ some = reached \/ Cardinality(some) = RtLimit
        /\ Cardinality(some) <= RtLimit
        /\ rt' = rt \ some
    /\ UNCHANGED <<time, table, main, delta, maxts, merged, building, reindex, late,
                   unindexed, died>>

UpdateDies ==
    /\ step # "idle" /\ died < MaxDied
    /\ step' = "idle" /\ merged' = {} /\ building' = Nothing /\ died' = died + 1
    /\ UNCHANGED <<time, table, main, delta, rt, maxts, reindex, late, unindexed>>

-----------------------------------------------------------------------------
(* prune-database: rows are deleted, and then the main index is made anew.   *)
process_messages ==
    /\ reindex.phase = "none"
    /\ \E ms \in (SUBSET Stored) \ {{}} :
        row' = [m \in Message |-> IF m \in ms THEN "gone" ELSE row[m]]
    /\ reindex' = [Nothing EXCEPT !.phase = "due"]
    /\ UNCHANGED <<time, ts, stamp, main, delta, rt, maxts, step, merged, building,
                   late, unindexed, died>>

ReadMessages ==
    /\ reindex.phase = "due"
    /\ reindex' = [phase |-> "read", upto |-> time, has |-> Before(time)]
    /\ late' = late \cup Uncommitted(time)
    /\ UNCHANGED <<time, table, main, delta, rt, maxts, step, merged, building,
                   unindexed, died>>

Reindex ==
    /\ reindex.phase = "read"
    /\ reindex' = Nothing
    /\ \/ /\ main' = reindex.has
          /\ maxts' = [maxts EXCEPT !.messages = reindex.upto]
       \/ UNCHANGED <<main, maxts>>
    /\ UNCHANGED <<time, table, delta, rt, step, merged, building, late, unindexed, died>>

-----------------------------------------------------------------------------
SearchNext ==
    \/ ClockTicks \/ update_index \/ flush2db
    \/ \E m \in Message : BeginInsert(m) \/ index_record(m)
    \/ \E ms \in SUBSET Message : BeginBatch(ms)
    \/ BeginMerge \/ Merge \/ MergeFails \/ Count \/ ReadDelta \/ BuildDelta
    \/ update_rt_index \/ UpdateDies
    \/ process_messages \/ ReadMessages \/ Reindex

SearchSpec == SearchInit /\ [][SearchNext]_searchVars

Reading == [phase : {"none", "due", "read"}, upto : 0..MaxTime, has : SUBSET Message]
SearchTypeOK ==
    /\ time \in 0..MaxTime
    /\ row \in [Message -> {"new", "open", "batch", "stored", "gone"}]
    /\ ts \in [Message -> 0..MaxTime] /\ stamp \in [Message -> 0..MaxTime]
    /\ {main, delta, rt, merged, late, unindexed} \subseteq SUBSET Message
    /\ maxts \in [{"messages", "messages_delta"} -> 0..MaxTime]
    /\ step \in {"idle", "merge", "count", "delta", "build", "rt"}
    /\ building \in Reading /\ reindex \in Reading
    /\ died \in 0..MaxDied

(***************************************************************************)
(* A message that is stored is found, whatever of an update or of a        *)
(* reindex fails or dies and however the two mingle, or the next delta     *)
(* will have it: then it never was in the realtime index, or it was        *)
(* stamped no later than the last delta was begun and stored after that.   *)
(* Not claimed of a message whose INSERT was under way while an index was  *)
(* made: its ts is before the counter, and no delta has it ever            *)
(* (updatedelta.py:57-92; docs/source/commands.rst:86-88).                 *)
(***************************************************************************)
FoundOrDue ==
    \A m \in Stored \ late :
        \/ m \in main \cup delta \cup rt
        \/ /\ ts[m] >= maxts.messages_delta
           /\ m \in unindexed \/ stamp[m] <= maxts.messages_delta
=============================================================================
