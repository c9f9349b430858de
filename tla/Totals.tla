-------------------------------- MODULE Totals --------------------------------
(***************************************************************************)
(* How many messages a user has. The pages that list messages do not count *)
(* them: they add up running totals that the trigger of the messages table *)
(* (mktotals) keeps for each domain, in two tables, one for the senders'   *)
(* domains and one for the recipients'. A message between two hosted names *)
(* gives a half to each, any other gives the whole to one side. Totals are *)
(* counted in halves here.                                                 *)
(*                                                                         *)
(* The logger inserts a message in a transaction of its own, the nightly   *)
(* cleaner deletes many in one. Each holds the rows that it has changed    *)
(* until it ends, so they wait for one another; PostgreSQL ends one of a   *)
(* circle, and any that inserts a row another has just inserted, and the   *)
(* logger tries again later.                                               *)
(***************************************************************************)
EXTENDS Integers, Sequences, FiniteSets, Functions

CONSTANTS
    Mail,           \* the messages that the logger inserts
    Host,           \* names of domains and of their aliases
    Ours,           \* the names that the organizations may have hosted
    Src, Dst,       \* [Mail -> Host]: the domains of sender and recipient
    Parent,         \* [Host -> Host]: of an alias, its domain; else itself
    Organization,   \* the organizations
    OrgOf,          \* [Host -> Organization]
    Cleaner         \* the transaction of the cleaner

TotalsAssumption ==
    /\ Ours \subseteq Host /\ Src \in [Mail -> Host] /\ Dst \in [Mail -> Host]
    /\ Parent \in [Host -> Host] /\ \A n \in Host : Parent[Parent[n]] = Parent[n]
    /\ OrgOf \in [Host -> Organization] /\ Cleaner \notin Mail
    /\ IsFiniteSet(Mail) /\ IsFiniteSet(Host)

Writer == Mail \cup {Cleaner}
Totals == {"srcmsgtotals", "dstmsgtotals"} \X Host

VARIABLES
    nameStatus,     \* of a name: "none" when it is in neither table
    messages,       \* the committed rows
    deleted,        \* those that were deleted
    rows,           \* the committed rows of the totals
    totals,         \* their columns total and runtotal
    batch,          \* the messages that a transaction inserts or deletes
    left,           \* those whose trigger has not begun
    owed,           \* the row and the part that the trigger has yet to add
    inserts,        \* it has found no row to update
    held,           \* the rows it has changed
    adds,           \* what it has added
    touched         \* history: names that came or went

names == <<nameStatus, touched>>
committed == <<messages, deleted, rows, totals>>
writes == <<batch, left, owed, inserts, held, adds>>
totalsVars == <<names, committed, writes>>

Zero == [r \in Totals |-> [total |-> 0, runtotal |-> 0]]

TotalsInit ==
    /\ nameStatus \in [Host -> {"none", "off", "on"}]
    /\ \A n \in Host : nameStatus[n] # "none" => nameStatus[Parent[n]] # "none"
    /\ \A n \in Host \ Ours : nameStatus[n] = "none"
    /\ messages = {} /\ deleted = {} /\ rows = {} /\ totals = Zero
    /\ batch = [w \in Writer |-> {}] /\ left = batch
    /\ owed = [w \in Writer |-> <<>>]
    /\ inserts = [w \in Writer |-> FALSE] /\ held = [w \in Writer |-> {}]
    /\ adds = [w \in Writer |-> Zero]
    /\ touched = {}

-----------------------------------------------------------------------------
(* The transactions                                                          *)

current_domains == {n \in Host : nameStatus[n] # "none"}

(* What the trigger gives to the sender's domain and to the recipient's.     *)
Halves(m) ==
    LET ours1 == Src[m] \in current_domains
        ours2 == Dst[m] \in current_domains
    IN  CASE ours1 /\ ours2 -> <<1, 1>> [] ours1 /\ ~ours2 -> <<2, 0>> [] OTHER -> <<0, 2>>

BeginWrite(w) ==
    /\ batch[w] = {}
    /\ \E ms \in (SUBSET Mail) \ {{}} :
        /\ IF w = Cleaner THEN ms \subseteq messages ELSE ms = {w} \ (messages \cup deleted)
        /\ batch' = [batch EXCEPT ![w] = ms] /\ left' = [left EXCEPT ![w] = ms]
    /\ UNCHANGED <<names, committed, owed, inserts, held, adds>>

(* The trigger of one of them: it looks both names up, then changes the row  *)
(* of the sender's domain and after it that of the recipient's.              *)
LookUp(w) ==
    /\ owed[w] = <<>>
    /\ \E m \in left[w] :
        /\ left' = [left EXCEPT ![w] = @ \ {m}]
        /\ owed' = [owed EXCEPT ![w] =
                <<[row |-> <<"srcmsgtotals", Src[m]>>, part |-> Halves(m)[1]],
                  [row |-> <<"dstmsgtotals", Dst[m]>>, part |-> Halves(m)[2]]>>]
    /\ UNCHANGED <<names, committed, batch, inserts, held, adds>>

NextRow(w) == Head(owed[w]).row
Sign(w) == IF w = Cleaner THEN -1 ELSE 1
Waits(w) == \E v \in Writer \ {w} : NextRow(w) \in held[v]
Changes(w) ==
    /\ held' = [held EXCEPT ![w] = @ \cup {NextRow(w)}]
    /\ adds' = [adds EXCEPT ![w][NextRow(w)] =
            [total |-> @.total + Sign(w), runtotal |-> @.runtotal + Sign(w) * Head(owed[w]).part]]
    /\ owed' = [owed EXCEPT ![w] = Tail(@)]

UpdateRow(w) ==
    /\ owed[w] # <<>> /\ ~inserts[w]
    /\ NextRow(w) \in rows \cup held[w] /\ ~Waits(w)
    /\ Changes(w)
    /\ UNCHANGED <<names, committed, batch, left, inserts>>

(* Not found: an inserted message inserts the row. An uncommitted row of     *)
(* another is not seen, and makes the insertion wait.                        *)
NotFound(w) ==
    /\ owed[w] # <<>> /\ ~inserts[w] /\ NextRow(w) \notin rows \cup held[w]
    /\ IF w = Cleaner
       THEN owed' = [owed EXCEPT ![w] = Tail(@)] /\ UNCHANGED inserts
       ELSE inserts' = [inserts EXCEPT ![w] = TRUE] /\ UNCHANGED owed
    /\ UNCHANGED <<names, committed, batch, left, held, adds>>

InsertRow(w) ==
    /\ inserts[w] /\ NextRow(w) \notin rows /\ ~Waits(w)
    /\ Changes(w)
    /\ inserts' = [inserts EXCEPT ![w] = FALSE]
    /\ UNCHANGED <<names, committed, batch, left>>

Ended(w) ==
    /\ batch' = [batch EXCEPT ![w] = {}] /\ left' = [left EXCEPT ![w] = {}]
    /\ owed' = [owed EXCEPT ![w] = <<>>] /\ inserts' = [inserts EXCEPT ![w] = FALSE]
    /\ held' = [held EXCEPT ![w] = {}] /\ adds' = [adds EXCEPT ![w] = Zero]

CommitWrite(w) ==
    /\ batch[w] # {} /\ left[w] = {} /\ owed[w] = <<>>
    /\ IF w = Cleaner
       THEN messages' = messages \ batch[w] /\ deleted' = deleted \cup batch[w]
       ELSE messages' = messages \cup batch[w] /\ UNCHANGED deleted
    /\ rows' = rows \cup held[w]
    /\ totals' = [r \in Totals |->
            [total |-> totals[r].total + adds[w][r].total,
             runtotal |-> totals[r].runtotal + adds[w][r].runtotal]]
    /\ Ended(w)
    /\ UNCHANGED names

(* A deadlock, the row another has just inserted, a lost connection.         *)
RollBack(w) ==
    /\ batch[w] # {}
    /\ Ended(w)
    /\ UNCHANGED <<names, committed>>

-----------------------------------------------------------------------------
(* The pages that change the names                                           *)

Aliases(n) == {a \in Host : Parent[a] = n}

AddName(n) ==
    /\ nameStatus[n] = "none" /\ (Parent[n] = n \/ nameStatus[Parent[n]] # "none")
    /\ nameStatus' = [nameStatus EXCEPT ![n] = "on"] /\ touched' = touched \cup {n}
    /\ UNCHANGED <<committed, writes>>

SwitchName(n) ==
    /\ nameStatus[n] # "none"
    /\ nameStatus' = [nameStatus EXCEPT ![n] = IF @ = "on" THEN "off" ELSE "on"]
    /\ UNCHANGED <<touched, committed, writes>>

(* delete_totals is called for the domain and for each alias. It means to    *)
(* delete their rows, but its statements name the row 'dom:', which none is. *)
DeleteWith(n, ns, gone) ==
    /\ nameStatus[n] # "none"
    /\ \A w \in Writer : held[w] \cap gone = {}
    /\ nameStatus' = [a \in Host |-> IF a \in ns THEN "none" ELSE nameStatus[a]]
    /\ touched' = touched \cup ns
    /\ rows' = rows \ gone
    /\ totals' = [r \in Totals |-> IF r \in gone THEN Zero[r] ELSE totals[r]]
    /\ UNCHANGED <<messages, deleted, writes>>
DeleteName_totals(n) ==     \* a mutant: the rows are deleted
    DeleteWith(n, Aliases(n) \cup {n}, {r \in rows : r[2] \in Aliases(n) \cup {n}})
DeleteName_alone(n) == DeleteWith(n, {n}, {})   \* a mutant: without its aliases
DeleteName(n) == DeleteWith(n, Aliases(n) \cup {n}, {})

WriterStep(w) ==
    \/ BeginWrite(w) \/ LookUp(w) \/ UpdateRow(w) \/ NotFound(w) \/ InsertRow(w)
    \/ CommitWrite(w) \/ RollBack(w)
NameStep(n) == AddName(n) \/ SwitchName(n) \/ DeleteName(n)

TotalsNext == (\E w \in Writer : WriterStep(w)) \/ (\E n \in Ours : NameStep(n))
TotalsSpec == TotalsInit /\ [][TotalsNext]_totalsVars

-----------------------------------------------------------------------------
(* What the pages show                                                       *)

runtotal == [r \in Totals |-> totals[r].runtotal]
RunTotal(ns) == SumFunctionOnSet(runtotal, {r \in rows : r[2] \in ns})

(* The names of an administrator's domains that are enabled, with their      *)
(* enabled aliases: what UserFilter and MsgCount select by.                  *)
Names(o) ==
    {n \in Host : OrgOf[Parent[n]] = o /\ nameStatus[Parent[n]] = "on" /\ nameStatus[n] = "on"}
FilteredFor(o) == {m \in messages : Src[m] \in Names(o) \/ Dst[m] \in Names(o)}

(* The messages that a report groups under a domain, by sender or recipient. *)
GroupedBy(side, n) ==
    {m \in messages : n = IF side = "srcmsgtotals" THEN Src[m] ELSE Dst[m]}

(* Mail of which one end is the administrator's and the other another's.     *)
Crossing(o) ==
    {m \in FilteredFor(o) : {Src[m], Dst[m]} \subseteq current_domains
                           /\ ~({Src[m], Dst[m]} \subseteq Names(o))}

TotalsTypeOK ==
    /\ nameStatus \in [Host -> {"none", "off", "on"}] /\ touched \subseteq Host
    /\ \A n \in current_domains : Parent[n] \in current_domains
    /\ messages \subseteq Mail /\ deleted \subseteq Mail \ messages /\ rows \subseteq Totals
    /\ totals \in [Totals -> [total : Int, runtotal : Int]]
    /\ batch \in [Writer -> SUBSET Mail] /\ left \in [Writer -> SUBSET Mail]
    /\ inserts \in [Writer -> BOOLEAN] /\ held \in [Writer -> SUBSET Totals]
    /\ adds \in [Writer -> [Totals -> [total : Int, runtotal : Int]]]
    /\ owed \in [Writer -> Seq([row : Totals, part : 0 .. 2])]

(* The count of all messages that an administrator of the system is shown,   *)
(* the sum of all halves, is the number of messages, whatever domains came   *)
(* and went while they were logged and deleted (functions.sql:17-113,        *)
(* query.py:486-501), and the count of the administrator of an organization  *)
(* is short by a half for each message that crosses to another hosted name,  *)
(* as long as no name that his mail is about came or went. The reports on    *)
(* domains that read the totals show what the reports that count the         *)
(* messages would (query.py:397-440).                                        *)
CountsAgree ==
    /\ \A n \in Host : \A side \in {"srcmsgtotals", "dstmsgtotals"} :
        totals[<<side, n>>].total = Cardinality(GroupedBy(side, n))
    /\ RunTotal(Host) = 2 * Cardinality(messages)
    /\ \A o \in Organization :
        (\A m \in Mail : {Src[m], Dst[m]} \cap Names(o) # {}
                         => {Src[m], Dst[m]} \cap touched = {})
        => RunTotal(Names(o)) = 2 * Cardinality(FilteredFor(o)) - Cardinality(Crossing(o))
=============================================================================
