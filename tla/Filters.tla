------------------------------- MODULE Filters --------------------------------
(***************************************************************************)
(* The filters that a user narrows reports and message lists with. They    *)
(* are a list in his session, in the order he added them; a page shows it, *)
(* and its links name a filter by its place in the list. A filter may be   *)
(* saved under a name made of all its parts, and loaded again. The lists   *)
(* and reports turn the whole list into one condition (DynaQuery).         *)
(*                                                                         *)
(* Each tab of the browser is a process. A request reads the session when  *)
(* it begins and writes all of it when it ends, be it changed or not.      *)
(***************************************************************************)
EXTENDS Naturals, Sequences, SequencesExt

CONSTANTS
    Tab,
    Filter,         \* a field, an operator and a value
    KeyOf,          \* the field and the operator of a filter
    MaxFilters,     \* BOUND: filters in the session
    MaxAsked        \* BOUND: requests

FiltersAssumption == MaxFilters \in Nat /\ MaxAsked \in Nat /\ Filter \subseteq DOMAIN KeyOf

VARIABLES
    filter_by,      \* the list in the session
    filters,        \* the table of saved filters
    shown,          \* the list that a tab shows
    op,             \* what its request does
    read,           \* the list as the request has read it
    wanted,         \* history: added and not removed, as the user sees it
    asked,          \* history: requests so far
    muddled         \* history: two requests overlapped, or a page was old

filtersVars == <<filter_by, filters, shown, op, read, wanted, asked, muddled>>

Request == [do : {"add", "load"}, filter : Filter]
           \cup [do : {"delete", "save"}, at : 1 .. MaxFilters] \cup [do : {"show"}]
Without == [do |-> "none"]

FiltersInit ==
    /\ filter_by \in BoundedSeq(Filter, 1) /\ filters \in {{}, Filter}
    /\ wanted = Range(filter_by) /\ asked = 0 /\ muddled = FALSE
    /\ shown = [t \in Tab |-> filter_by] /\ read = [t \in Tab |-> <<>>]
    /\ op = [t \in Tab |-> Without]

-----------------------------------------------------------------------------
(* A page has a link for each filter it shows, a form, and the saved ones.   *)
Offered(t) ==
    {q \in Request :
        CASE q.do \in {"delete", "save"} -> q.at <= Len(shown[t])
          [] q.do = "load" -> q.filter \in filters
          [] q.do = "add" -> Len(filter_by) < MaxFilters
          [] OTHER -> TRUE}

Ask(t) ==
    /\ op[t] = Without /\ asked < MaxAsked
    /\ asked' = asked + 1
    /\ \E q \in Offered(t) :
        /\ op' = [op EXCEPT ![t] = q]
        /\ muddled' = (muddled \/ (q.do = "delete" /\ shown[t] # filter_by)
                       \/ \E u \in Tab \ {t} : op[u] # Without)
    /\ read' = [read EXCEPT ![t] = filter_by]
    /\ UNCHANGED <<filter_by, filters, shown, wanted>>

(* The list goes back to the session and to the page.                        *)
Answer(t, list) ==
    /\ filter_by' = list
    /\ shown' = [shown EXCEPT ![t] = list]
    /\ op' = [op EXCEPT ![t] = Without] /\ read' = [read EXCEPT ![t] = <<>>]
    /\ UNCHANGED <<asked, muddled>>

Add(t) ==
    /\ op[t].do \in {"add", "load"}
    /\ Answer(t, IF Contains(read[t], op[t].filter) THEN read[t]
                 ELSE Append(read[t], op[t].filter))
    /\ wanted' = wanted \cup {op[t].filter}
    /\ UNCHANGED filters

(* del filters[int(filterid)], or IndexError: "The filter does not exist"    *)
Delete(t) ==
    /\ op[t].do = "delete"
    /\ Answer(t, IF op[t].at <= Len(read[t]) THEN RemoveAt(read[t], op[t].at) ELSE read[t])
    /\ wanted' = wanted \ {shown[t][op[t].at]}
    /\ UNCHANGED filters

(* The name of a saved filter is unique: "The filter already exists".        *)
Save(t) ==
    /\ op[t].do = "save"
    /\ Answer(t, read[t])
    /\ filters' = filters \cup
            (IF op[t].at <= Len(read[t]) THEN {read[t][op[t].at]} ELSE {})
    /\ UNCHANGED wanted

Show(t) ==
    /\ op[t].do = "show"
    /\ Answer(t, read[t])
    /\ UNCHANGED <<filters, wanted>>

DeleteStored(f) ==
    /\ f \in filters
    /\ filters' = filters \ {f}
    /\ UNCHANGED <<filter_by, shown, op, read, wanted, asked, muddled>>

FiltersNext ==
    \/ \E t \in Tab : Ask(t) \/ Add(t) \/ Delete(t) \/ Save(t) \/ Show(t)
    \/ \E f \in Filter : DeleteStored(f)
FiltersSpec == FiltersInit /\ [][FiltersNext]_filtersVars

-----------------------------------------------------------------------------
(* DynaQuery: one pass over the list. The first filter with a key waits in   *)
(* kwargs; the second takes it from there into the orclauses of the key,     *)
(* which lkwargs remembers for those that follow.                            *)

NoClauses == [kwargs |-> {}, orclauses |-> [k \in Range(KeyOf) |-> {}], lkwargs |-> {}]

LoadKeys(acc, f, moved) ==
    LET k == KeyOf[f]
        first == {g \in acc.kwargs : KeyOf[g] = k}
    IN  CASE first # {} ->
                [kwargs |-> IF moved THEN acc.kwargs \ first ELSE acc.kwargs,
                 orclauses |-> [acc.orclauses EXCEPT ![k] = @ \cup first \cup {f}],
                 lkwargs |-> acc.lkwargs \cup {k}]
          [] k \in acc.lkwargs -> [acc EXCEPT !.orclauses[k] = @ \cup {f}]
          [] OTHER -> [acc EXCEPT !.kwargs = @ \cup {f}]
load_keys_both(acc, f) == LoadKeys(acc, f, FALSE)   \* a mutant: not deleted from kwargs
load_keys(acc, f) == LoadKeys(acc, f, TRUE)

(* A condition: of each of these sets, one filter at least has to hold.      *)
generate(list) ==
    LET acc == FoldLeft(load_keys, NoClauses, list)
    IN  {{f} : f \in acc.kwargs}
        \cup {acc.orclauses[k] : k \in {j \in Range(KeyOf) : acc.orclauses[j] # {}}}

-----------------------------------------------------------------------------
FiltersTypeOK ==
    /\ filter_by \in Seq(Filter) /\ filters \subseteq Filter /\ wanted \subseteq Filter
    /\ shown \in [Tab -> Seq(Filter)] /\ read \in [Tab -> Seq(Filter)]
    /\ op \in [Tab -> Request \cup {Without}] /\ asked \in 0 .. MaxAsked /\ muddled \in BOOLEAN

(* The lists and reports show what satisfies, for each field and operator    *)
(* among the filters, one of the values asked for, whatever the order they   *)
(* were added in (query.py:54-141); and the filters are those that the user  *)
(* added, loaded and did not remove, each of them once, as long as no two    *)
(* requests of his overlapped and he removed none from an old page           *)
(* (reports.py:122-132, 470-499).                                            *)
FilteredAsAsked ==
    /\ generate(filter_by) =
        {{g \in Range(filter_by) : KeyOf[g] = KeyOf[f]} : f \in Range(filter_by)}
    /\ IsInjective(filter_by)
    /\ ~muddled => Range(filter_by) = wanted
=============================================================================
