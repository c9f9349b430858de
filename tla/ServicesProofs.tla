---------------------------- MODULE ServicesProofs ----------------------------
(***************************************************************************)
(* Theorems about the parts of Services, each under its own specification  *)
(* and for any values of its constants: SearchIndex, Signatures,           *)
(* FirstLogin, Views and Reports (Totals and Filters are in ListsProofs);  *)
(* and about all of them in Services.                                      *)
(***************************************************************************)
EXTENDS Services, ListsProofs

-----------------------------------------------------------------------------
(* SearchIndex                                                               *)

(* S has the stored messages whose INSERT began from a until before b, but   *)
(* those that were not committed when an index was made.                     *)
Between(S, a, b) == \A m \in Stored \ late : a <= ts[m] /\ ts[m] < b => m \in S

(* What is not yet committed, and not late, is after all that was read.      *)
Begins(t) ==
    /\ t <= time
    /\ \A m \in Message \ late : row[m] \in {"open", "batch"} => t <= ts[m]

(* Together the two indexes reach as far as the delta does. An update has    *)
(* the main one reach as far before it counts, and it is counted before the  *)
(* delta is read. A main index that is made anew reaches at least as far as  *)
(* the one that it replaces.                                                 *)
IndexInv ==
    LET reach == maxts.messages
        end == maxts.messages_delta
    IN
    /\ Begins(reach) /\ Begins(end) /\ Begins(building.upto) /\ Begins(reindex.upto)
    /\ Between(main \cup delta, 0, end) /\ Between(delta, reach, end)
    /\ step = "merge" => Between(merged, 0, end)
    /\ step \in {"count", "delta", "build"} => Between(main, 0, end)
    /\ step \in {"delta", "build"} => Between(main, 0, reach)
    /\ step = "build" =>
        Between(building.has, reach, building.upto) /\ end <= building.upto
    /\ reindex.phase = "read" =>
        /\ Between(reindex.has, 0, reindex.upto) /\ reach <= reindex.upto
        /\ step \in {"merge", "count", "delta", "build"} => end <= reindex.upto

(* What the realtime index has lost, the delta has come past.                *)
RtInv == \A m \in Stored : m \in rt \cup unindexed \/ stamp[m] <= maxts.messages_delta

SearchInv == SearchTypeOK /\ IndexInv /\ RtInv

LEMMA SearchTypeStep ==
    ASSUME SearchAssumption, SearchTypeOK, SearchNext
    PROVE  SearchTypeOK'
<1> USE DEF SearchTypeOK, SearchAssumption, Reading, Nothing, Stored, Before, Uncommitted, table
<1>1. CASE ClockTicks
  BY <1>1 DEF ClockTicks
<1>2. CASE update_index
  BY <1>2 DEF update_index, Committed
<1>3. CASE flush2db
  BY <1>3 DEF flush2db
<1>4. ASSUME NEW m \in Message, BeginInsert(m)  PROVE SearchTypeOK'
  BY <1>4 DEF BeginInsert, Begun
<1>5. ASSUME NEW m \in Message, index_record(m)  PROVE SearchTypeOK'
  BY <1>5 DEF index_record, Committed
<1>6. ASSUME NEW ms \in SUBSET Message, BeginBatch(ms)  PROVE SearchTypeOK'
  BY <1>6 DEF BeginBatch, Begun
<1>7. CASE BeginMerge
  BY <1>7 DEF BeginMerge
<1>8. CASE Merge
  BY <1>8 DEF Merge
<1>9. CASE MergeFails
  BY <1>9 DEF MergeFails
<1>10. CASE Count
  BY <1>10 DEF Count, CountTo
<1>11. CASE ReadDelta
  BY <1>11 DEF ReadDelta
<1>12. CASE BuildDelta
  BY <1>12 DEF BuildDelta
<1>13. CASE update_rt_index
  BY <1>13 DEF update_rt_index
<1>14. CASE UpdateDies
  BY <1>14 DEF UpdateDies
<1>15. CASE process_messages
  BY <1>15 DEF process_messages
<1>16. CASE ReadMessages
  BY <1>16 DEF ReadMessages
<1>17. CASE Reindex
  BY <1>17 DEF Reindex
<1> QED
  BY <1>1, <1>2, <1>3, <1>4, <1>5, <1>6, <1>7, <1>8, <1>9, <1>10, <1>11, <1>12, <1>13, <1>14, <1>15, <1>16, <1>17 DEF SearchNext

LEMMA IndexStep ==
    ASSUME SearchAssumption, SearchTypeOK, IndexInv, SearchNext
    PROVE  IndexInv'
<1> USE DEF SearchTypeOK, SearchAssumption, Reading, Nothing, Stored, Before, Uncommitted, table, IndexInv, Begins, Between
<1>1. CASE ClockTicks
  BY <1>1 DEF ClockTicks
<1>2. CASE update_index
  BY <1>2 DEF update_index, Committed
<1>3. CASE flush2db
  BY <1>3 DEF flush2db
<1>4. ASSUME NEW m \in Message, BeginInsert(m)  PROVE IndexInv'
  BY <1>4 DEF BeginInsert, Begun
<1>5. ASSUME NEW m \in Message, index_record(m)  PROVE IndexInv'
  BY <1>5 DEF index_record, Committed
<1>6. ASSUME NEW ms \in SUBSET Message, BeginBatch(ms)  PROVE IndexInv'
  BY <1>6 DEF BeginBatch, Begun
<1>7. CASE BeginMerge
  BY <1>7 DEF BeginMerge
<1>8. CASE Merge
  BY <1>8 DEF Merge
<1>9. CASE MergeFails
  BY <1>9 DEF MergeFails
<1>10. CASE Count
  BY <1>10 DEF Count, CountTo
<1>11. CASE ReadDelta
  BY <1>11 DEF ReadDelta
<1>12. CASE BuildDelta
  BY <1>12 DEF BuildDelta
<1>13. CASE update_rt_index
  BY <1>13 DEF update_rt_index
<1>14. CASE UpdateDies
  BY <1>14 DEF UpdateDies
<1>15. CASE process_messages
  BY <1>15 DEF process_messages
<1>16. CASE ReadMessages
  BY <1>16 DEF ReadMessages
<1>17. CASE Reindex
  BY <1>17 DEF Reindex
<1> QED
  BY <1>1, <1>2, <1>3, <1>4, <1>5, <1>6, <1>7, <1>8, <1>9, <1>10, <1>11, <1>12, <1>13, <1>14, <1>15, <1>16, <1>17 DEF SearchNext

LEMMA RtStep ==
    ASSUME SearchAssumption, SearchTypeOK, IndexInv, RtInv, SearchNext
    PROVE  RtInv'
<1> USE DEF SearchTypeOK, SearchAssumption, Reading, Nothing, Stored, Before, Uncommitted, table, RtInv
<1>1. CASE ClockTicks
  BY <1>1 DEF ClockTicks
<1>2. CASE update_index
  BY <1>2 DEF update_index, Committed
<1>3. CASE flush2db
  BY <1>3 DEF flush2db
<1>4. ASSUME NEW m \in Message, BeginInsert(m)  PROVE RtInv'
  BY <1>4 DEF BeginInsert, Begun
<1>5. ASSUME NEW m \in Message, index_record(m)  PROVE RtInv'
  BY <1>5 DEF index_record, Committed
<1>6. ASSUME NEW ms \in SUBSET Message, BeginBatch(ms)  PROVE RtInv'
  BY <1>6 DEF BeginBatch, Begun
<1>7. CASE BeginMerge
  BY <1>7 DEF BeginMerge
<1>8. CASE Merge
  BY <1>8 DEF Merge
<1>9. CASE MergeFails
  BY <1>9 DEF MergeFails
<1>10. CASE Count
  BY <1>10 DEF Count, CountTo
<1>11. CASE ReadDelta
  BY <1>11 DEF ReadDelta
<1>12. CASE BuildDelta
  <2>1. maxts.messages_delta <= building.upto
    BY <1>12 DEF BuildDelta, IndexInv
  <2> QED  BY <1>12, <2>1 DEF BuildDelta
<1>13. CASE update_rt_index
  BY <1>13 DEF update_rt_index
<1>14. CASE UpdateDies
  BY <1>14 DEF UpdateDies
<1>15. CASE process_messages
  BY <1>15 DEF process_messages
<1>16. CASE ReadMessages
  BY <1>16 DEF ReadMessages
<1>17. CASE Reindex
  BY <1>17 DEF Reindex
<1> QED
  BY <1>1, <1>2, <1>3, <1>4, <1>5, <1>6, <1>7, <1>8, <1>9, <1>10, <1>11, <1>12, <1>13, <1>14, <1>15, <1>16, <1>17 DEF SearchNext

LEMMA SearchInductive == ASSUME SearchAssumption PROVE SearchSpec => []SearchInv
<1>1. SearchInit => SearchInv
  BY DEF SearchAssumption, SearchInit, SearchInv, SearchTypeOK, IndexInv, RtInv, Begins,
         Between, Reading, Nothing, Stored
<1>2. SearchInv /\ [SearchNext]_searchVars => SearchInv'
  <2> SUFFICES ASSUME SearchInv, [SearchNext]_searchVars PROVE SearchInv'
    OBVIOUS
  <2>1. CASE SearchNext
    BY <2>1, SearchTypeStep, IndexStep, RtStep DEF SearchInv
  <2>2. CASE UNCHANGED searchVars
    BY <2>2 DEF searchVars, table, SearchInv, SearchTypeOK, IndexInv, RtInv, Begins, Between,
                Stored
  <2> QED  BY <2>1, <2>2
<1> QED  BY <1>1, <1>2, PTL DEF SearchSpec

(* The variables of SearchIndex have their types.                            *)
THEOREM SearchTypeCorrect == ASSUME SearchAssumption PROVE SearchSpec => []SearchTypeOK
<1>1. SearchInv => SearchTypeOK
  BY DEF SearchInv
<1> QED  BY <1>1, SearchInductive, PTL

(* For any messages and any times, however updates and reindexing mingle and *)
(* wherever they fail: what is stored is found, or the next delta has it     *)
(* (updatedelta.py:57-92).                                                   *)
THEOREM StoredIsFound == ASSUME SearchAssumption PROVE SearchSpec => []FoundOrDue
<1>1. SearchInv => FoundOrDue
  BY DEF SearchInv, SearchTypeOK, IndexInv, Between, RtInv, FoundOrDue, Stored
<1> QED  BY <1>1, SearchInductive, PTL

-----------------------------------------------------------------------------
(* Signatures                                                                *)
Pending == {t \in tasks : t.do # "rules"}
Published == signature # 0 /\ enabled

(* As long as no two changes meet at the node, one task or one save at most  *)
(* is about the file, and a deletion is of the signature that was last       *)
(* there; what a save has read is what the database has; and with neither    *)
(* of them the files are those of the signature.                             *)
NodeInv ==
    crossed \/
        /\ \A t, u \in Pending : t = u
        /\ \A s, u \in saving : s = u
        /\ Pending = {} \/ saving = {}
        /\ \A t \in Pending : t.do = "delete" => signature = 0
        /\ \A s \in saving :
            /\ Published /\ s.text = signature
            /\ s.at = "link" => file = signature /\ dir
        /\ Pending = {} /\ saving = {} /\ Published =>
            file = signature /\ dir /\ aliases \subseteq links \cup bare

(* The ruleset names something only while there is a signature, or it is     *)
(* about to be made anew.                                                    *)
NamedInv == rules = {} \/ Published \/ \E t \in tasks : t.do = "rules"

(* SignaturesTypeOK, which alone is not inductive: a save has a text.         *)
TypedInv == SignaturesTypeOK /\ \A t \in tasks : t.do = "save" => t.n \in Texts

SignatureInv == TypedInv /\ NodeInv /\ NamedInv

LEMMA SignaturesTypeStep ==
    ASSUME SignaturesAssumption, TypedInv, SignaturesNext
    PROVE  TypedInv'
<1> USE DEF TypedInv, SignaturesTypeOK, SignaturesAssumption, database, files, Texts
<1> DEFINE Task == [do : {"save", "delete", "rules"}, n : 0 .. MaxEdits, links : SUBSET ItsAlias]
<1>a. [do |-> "rules", n |-> 0, links |-> {}] \in Task
  OBVIOUS
<1>1. CASE SaveSignature
  <2>1. edits' \in Texts
    BY <1>1 DEF SaveSignature
  <2>2. [do |-> "save", n |-> edits', links |-> {}] \in Task
    BY <2>1
  <2> QED  BY <1>1, <1>a, <2>1, <2>2 DEF SaveSignature, Publishes
<1>2. CASE DeleteSignature
  <2> DEFINE removed == IF html THEN {} ELSE aliases
  <2>1. edits' \in Texts
    BY <1>2 DEF DeleteSignature
  <2>2. [do |-> "delete", n |-> edits', links |-> removed] \in Task
    BY <2>1
  <2> QED  BY <1>2, <1>a, <2>1, <2>2 DEF DeleteSignature, Publishes
<1>3. CASE OtherSignature
  BY <1>3 DEF OtherSignature
<1>4. ASSUME NEW a \in ItsAlias, AddAlias(a)  PROVE TypedInv'
  BY <1>4 DEF AddAlias
<1>5. ASSUME NEW a \in ItsAlias, DropAlias(a)  PROVE TypedInv'
  BY <1>5 DEF DropAlias
<1>6. ASSUME NEW t \in tasks, ReadSignature(t)  PROVE TypedInv'
  BY <1>6 DEF ReadSignature, Takes
<1>7. ASSUME NEW t \in tasks, delete_sig(t)  PROVE TypedInv'
  BY <1>7 DEF delete_sig, Takes
<1>8. ASSUME NEW t \in tasks, create_text_sigs(t)  PROVE TypedInv'
  BY <1>8 DEF create_text_sigs, Takes
<1>9. ASSUME NEW s \in saving, WriteFile(s)  PROVE TypedInv'
  BY <1>9 DEF WriteFile, WriteThen
<1>10. ASSUME NEW s \in saving, mksymlinks(s)  PROVE TypedInv'
  BY <1>10 DEF mksymlinks
<1> QED
  BY <1>1, <1>2, <1>3, <1>4, <1>5, <1>6, <1>7, <1>8, <1>9, <1>10 DEF SignaturesNext

LEMMA NodeStep ==
    ASSUME SignaturesAssumption, SignaturesTypeOK, NodeInv, SignaturesNext
    PROVE  NodeInv'
<1> USE DEF SignaturesTypeOK, SignaturesAssumption, NodeInv, Pending, Published, database, files, Texts
<1>1. CASE SaveSignature
  <2> SUFFICES ASSUME ~crossed' PROVE NodeInv'
    OBVIOUS
  <2>1. saving = {} /\ Pending = {} /\ UNCHANGED saving
    BY <1>1 DEF SaveSignature, Publishes
  <2>2. Pending' = {[do |-> "save", n |-> edits', links |-> {}]}
    BY <1>1, <2>1 DEF SaveSignature, Publishes
  <2>3. \A t \in Pending' : t.do = "save"
    BY <2>2
  <2> HIDE DEF Pending
  <2> QED  BY <2>1, <2>2, <2>3
<1>2. CASE DeleteSignature
  <2> SUFFICES ASSUME ~crossed' PROVE NodeInv'
    OBVIOUS
  <2> DEFINE removed == IF html THEN {} ELSE aliases
  <2>1. saving = {} /\ Pending = {} /\ UNCHANGED saving /\ signature' = 0
    BY <1>2 DEF DeleteSignature, Publishes
  <2>2. Pending' = {[do |-> "delete", n |-> edits', links |-> removed]}
    BY <1>2, <2>1 DEF DeleteSignature, Publishes
  <2> HIDE DEF Pending, removed
  <2> QED  BY <2>1, <2>2
<1>3. CASE OtherSignature
  BY <1>3 DEF OtherSignature
<1>4. ASSUME NEW a \in ItsAlias, AddAlias(a)  PROVE NodeInv'
  BY <1>4 DEF AddAlias
<1>5. ASSUME NEW a \in ItsAlias, DropAlias(a)  PROVE NodeInv'
  BY <1>5 DEF DropAlias
<1>6. ASSUME NEW t \in tasks, ReadSignature(t)  PROVE NodeInv'
  <2> SUFFICES ASSUME ~crossed PROVE NodeInv'
    BY <1>6 DEF ReadSignature
  <2>1. t \in Pending /\ saving = {} /\ Pending' = Pending \ {t}
    BY <1>6 DEF ReadSignature, Takes
  <2>2. Pending' = {} /\ UNCHANGED <<signature, enabled, crossed>>
    BY <1>6, <2>1 DEF ReadSignature
  <2>3. saving' = IF Published THEN {[at |-> "write", n |-> t.n, text |-> signature]} ELSE {}
    BY <1>6, <2>1 DEF ReadSignature
  <2>4. \A s \in saving' : Published /\ s.text = signature /\ s.at # "link"
    BY <2>3
  <2>5. \A s, u \in saving' : s = u
    BY <2>3
  <2>6. Published => saving' # {}
    BY <2>3
  <2> HIDE DEF Pending
  <2> QED  BY <2>2, <2>4, <2>5, <2>6
<1>7. ASSUME NEW t \in tasks, delete_sig(t)  PROVE NodeInv'
  BY <1>7 DEF delete_sig, Takes
<1>8. ASSUME NEW t \in tasks, create_text_sigs(t)  PROVE NodeInv'
  BY <1>8 DEF create_text_sigs, Takes
<1>9. ASSUME NEW s \in saving, WriteFile(s)  PROVE NodeInv'
  BY <1>9 DEF WriteFile, WriteThen
<1>10. ASSUME NEW s \in saving, mksymlinks(s)  PROVE NodeInv'
  BY <1>10 DEF mksymlinks
<1> QED
  BY <1>1, <1>2, <1>3, <1>4, <1>5, <1>6, <1>7, <1>8, <1>9, <1>10 DEF SignaturesNext

LEMMA NamedStep ==
    ASSUME SignaturesAssumption, SignaturesTypeOK, NamedInv, SignaturesNext
    PROVE  NamedInv'
<1> USE DEF SignaturesTypeOK, NamedInv, Published, database, files, Texts
<1>1. CASE SaveSignature
  <2>1. [do |-> "rules", n |-> 0, links |-> {}] \in tasks'
    BY <1>1 DEF SaveSignature, Publishes
  <2> QED  BY <2>1
<1>2. CASE DeleteSignature
  <2>1. [do |-> "rules", n |-> 0, links |-> {}] \in tasks'
    BY <1>2 DEF DeleteSignature, Publishes
  <2> QED  BY <2>1
<1>3. CASE OtherSignature
  BY <1>3 DEF OtherSignature
<1>4. ASSUME NEW a \in ItsAlias, AddAlias(a)  PROVE NamedInv'
  BY <1>4 DEF AddAlias
<1>5. ASSUME NEW a \in ItsAlias, DropAlias(a)  PROVE NamedInv'
  BY <1>5 DEF DropAlias
<1>6. ASSUME NEW t \in tasks, ReadSignature(t)  PROVE NamedInv'
  BY <1>6 DEF ReadSignature, Takes
<1>7. ASSUME NEW t \in tasks, delete_sig(t)  PROVE NamedInv'
  BY <1>7 DEF delete_sig, Takes
<1>8. ASSUME NEW t \in tasks, create_text_sigs(t)  PROVE NamedInv'
  BY <1>8 DEF create_text_sigs, Takes
<1>9. ASSUME NEW s \in saving, WriteFile(s)  PROVE NamedInv'
  BY <1>9 DEF WriteFile, WriteThen
<1>10. ASSUME NEW s \in saving, mksymlinks(s)  PROVE NamedInv'
  BY <1>10 DEF mksymlinks
<1> QED
  BY <1>1, <1>2, <1>3, <1>4, <1>5, <1>6, <1>7, <1>8, <1>9, <1>10 DEF SignaturesNext

LEMMA SignatureInductive == ASSUME SignaturesAssumption PROVE SignaturesSpec => []SignatureInv
<1>1. SignaturesInit => SignatureInv
  <2> SUFFICES ASSUME SignaturesInit PROVE SignatureInv
    OBVIOUS
  <2>1. TypedInv
    <3>1. edits \in 0 .. MaxEdits /\ signature \in {0} \cup Texts /\ file \in {0} \cup Texts
      BY DEF SignaturesAssumption, SignaturesInit
    <3> QED  BY <3>1 DEF SignaturesInit, TypedInv, SignaturesTypeOK
  <2>2. NodeInv /\ NamedInv
    BY DEF SignaturesInit, NodeInv, NamedInv, Pending, Published
  <2> QED  BY <2>1, <2>2 DEF SignatureInv
<1>2. SignatureInv /\ [SignaturesNext]_signatureVars => SignatureInv'
  <2> SUFFICES ASSUME SignatureInv, [SignaturesNext]_signatureVars PROVE SignatureInv'
    OBVIOUS
  <2>1. CASE SignaturesNext
    BY <2>1, SignaturesTypeStep, NodeStep, NamedStep DEF SignatureInv, TypedInv
  <2>2. CASE UNCHANGED signatureVars
    BY <2>2 DEF signatureVars, database, files, SignatureInv, TypedInv,
                SignaturesTypeOK, NodeInv, NamedInv, Pending, Published
  <2> QED  BY <2>1, <2>2
<1> QED  BY <1>1, <1>2, PTL DEF SignaturesSpec

(* The variables of Signatures have their types.                             *)
THEOREM SignaturesTypeCorrect ==
    ASSUME SignaturesAssumption PROVE SignaturesSpec => []SignaturesTypeOK
<1>1. SignatureInv => SignaturesTypeOK
  BY DEF SignatureInv, TypedInv
<1> QED  BY <1>1, SignatureInductive, PTL

(* For any aliases and any number of changes: when the worker has nothing    *)
(* left to do, the file that the ruleset names for a name is there and holds *)
(* the signature (tasks/settings.py:200-262, 330-352, 493-507).              *)
THEOREM SignaturesAreServed ==
    ASSUME SignaturesAssumption PROVE SignaturesSpec => []SignatureServed
<1>1. SignatureInv => SignatureServed
  BY DEF SignatureInv, TypedInv, SignaturesTypeOK, NodeInv, NamedInv, Pending, Published,
         SignatureServed
<1> QED  BY <1>1, SignatureInductive, PTL

-----------------------------------------------------------------------------
(* FirstLogin                                                                *)
Gathered(l, k) == Range(Found[k]) \subseteq addresses \cup Range(unsaved[l])

(* What the request that made the account has collected so far is saved or   *)
(* is in its hands.                                                          *)
Collected(l) ==
    /\ next[l] \in {"mail", "profile", "proxy", "group", "alias", "save", "update_login", "done"}
    /\ next[l] \in {"update_login", "done"} => unsaved[l] = <<>>
    /\ Head(by[l]) = Directory =>
        /\ next[l] # "alias"
        /\ next[l] # "mail" => Gathered(l, "mail")
        /\ next[l] \notin {"mail", "profile"} => profile
        /\ next[l] \notin {"mail", "profile", "proxy"} => Gathered(l, "proxy")
        /\ next[l] \notin {"mail", "profile", "proxy", "group"} => Gathered(l, "group")
    /\ Head(by[l]) # Directory =>
        /\ next[l] \notin {"mail", "profile", "proxy", "group"}
        /\ next[l] # "alias" => Gathered(l, "alias")

MakerInv ==
    /\ ~registered => maker = {}
    /\ \A l, k \in maker : l = k
    /\ \A l \in maker : next[l] \notin {"authenticate", "loggedin", "add_user"}
    /\ \A l \in maker : failed \/ Collected(l)
LoginInv == LoginTypeOK /\ MakerInv

PluginTails == {SubSeq(Plugin, i, Len(Plugin)) : i \in 1 .. Len(Plugin) + 1}

LEMMA TailOfSuffix ==
    ASSUME FirstLoginAssumption, NEW s \in PluginTails, s # <<>>
    PROVE  Tail(s) \in PluginTails
<1> DEFINE n == Len(Plugin)
<1>1. Plugin \in Seq(Range(Plugin)) /\ n \in Nat
  BY LenProperties DEF FirstLoginAssumption
<1>2. PICK i \in 1 .. n + 1 : s = SubSeq(Plugin, i, n)
  BY DEF PluginTails
<1>3. i # n + 1
  BY <1>1, <1>2, SubSeqEmpty
<1>4. Tail(s) = SubSeq(Plugin, i + 1, n) /\ i + 1 \in 1 .. n + 1
  BY <1>1, <1>2, <1>3, HeadTailOfSubSeq
<1> QED  BY <1>4 DEF PluginTails

LEMMA RangeOfTail ==
    ASSUME NEW S, NEW s \in Seq(S), s # <<>>
    PROVE  Range(s) \subseteq {Head(s)} \cup Range(Tail(s))
<1>1. /\ Tail(s) \in Seq(S) /\ Len(Tail(s)) = Len(s) - 1
      /\ \A i \in 1 .. Len(Tail(s)) : Tail(s)[i] = s[i + 1]
  BY HeadTailProperties
<1>2. Len(s) \in Nat /\ s[1] = Head(s)
  BY LenProperties
<1>3. ASSUME NEW j \in 1 .. Len(s), j # 1  PROVE s[j] \in Range(Tail(s))
  <2>1. j - 1 \in 1 .. Len(Tail(s)) /\ s[j] = Tail(s)[j - 1]
    BY <1>1, <1>2, <1>3
  <2> QED  BY <1>1, <2>1, RangeEquality
<1> QED  BY <1>2, <1>3, RangeEquality

LEMMA LoginTypeStep ==
    ASSUME FirstLoginAssumption, LoginTypeOK, LoginNext
    PROVE  LoginTypeOK'
<1> USE DEF LoginTypeOK, FirstLoginAssumption, Turns, Ends, PluginTails
<1>1. ASSUME NEW l \in Login, authenticate(l)  PROVE LoginTypeOK'
  <2>1. by[l] \in PluginTails
    OBVIOUS
  <2>2. CASE by[l] # <<>> /\ Head(by[l]) \notin accepts
    <3>1. Tail(by[l]) \in PluginTails
      BY <2>1, <2>2, TailOfSuffix
    <3> QED  BY <1>1, <2>2, <3>1 DEF authenticate
  <2>3. CASE ~(by[l] # <<>> /\ Head(by[l]) \notin accepts)
    BY <1>1, <2>3 DEF authenticate
  <2> QED  BY <2>2, <2>3
<1>2. ASSUME NEW l \in Login, loggedin(l)  PROVE LoginTypeOK'
  BY <1>2 DEF loggedin
<1>3. ASSUME NEW l \in Login, add_user(l)  PROVE LoginTypeOK'
  BY <1>3 DEF add_user
<1>4. ASSUME NEW l \in Login, Collect(l)  PROVE LoginTypeOK'
  <2>1. next[l] \in {"mail", "proxy", "group", "alias"}
    BY <1>4 DEF Collect, AfterThat
  <2>2. AfterThat[next[l]] \in {"profile", "group", "save"}
    BY <2>1 DEF AfterThat
  <2>3. unsaved[l] \o Found[next[l]] \in Seq(Mailbox)
    BY <2>1, ConcatProperties
  <2> QED  BY <1>4, <2>2, <2>3 DEF Collect
<1>5. ASSUME NEW l \in Login, update_attrs(l)  PROVE LoginTypeOK'
  BY <1>5 DEF update_attrs
<1>6. ASSUME NEW l \in Login, DirectoryFails(l)  PROVE LoginTypeOK'
  BY <1>6 DEF DirectoryFails
<1>7. ASSUME NEW l \in Login, SaveAddress(l)  PROVE LoginTypeOK'
  <2>1. CASE unsaved[l] = <<>>
    BY <1>7, <2>1 DEF SaveAddress, SaveThen
  <2>2. CASE unsaved[l] # <<>>
    <3>1. Head(unsaved[l]) \in Mailbox /\ Tail(unsaved[l]) \in Seq(Mailbox)
      BY <2>2, HeadTailProperties
    <3> QED  BY <1>7, <2>2, <3>1 DEF SaveAddress, SaveThen
  <2> QED  BY <2>1, <2>2
<1>8. ASSUME NEW l \in Login, update_login(l)  PROVE LoginTypeOK'
  BY <1>8 DEF update_login
<1>9. ASSUME NEW l \in Login, Dies(l)  PROVE LoginTypeOK'
  BY <1>9 DEF Dies, Ends
<1>10. ASSUME NEW a \in Mailbox, AddAddress(a)  PROVE LoginTypeOK'
  BY <1>10 DEF AddAddress
<1> QED
  BY <1>1, <1>2, <1>3, <1>4, <1>5, <1>6, <1>7, <1>8, <1>9, <1>10 DEF LoginNext, LoginStep

LEMMA MakerStep ==
    ASSUME FirstLoginAssumption, LoginTypeOK, MakerInv, LoginNext
    PROVE  MakerInv'
<1> USE DEF LoginTypeOK, FirstLoginAssumption, MakerInv, Collected, Gathered, Turns
<1>1. ASSUME NEW l \in Login, authenticate(l)  PROVE MakerInv'
  <2>1. l \notin maker
    BY <1>1 DEF authenticate
  <2>2. \A k \in Login \ {l} : next'[k] = next[k] /\ by'[k] = by[k]
    BY <1>1 DEF authenticate
  <2>3. UNCHANGED <<registered, profile, addresses, unsaved, maker, failed>>
    BY <1>1 DEF authenticate
  <2> QED  BY <2>1, <2>2, <2>3
<1>2. ASSUME NEW l \in Login, loggedin(l)  PROVE MakerInv'
  BY <1>2 DEF loggedin
<1>3. ASSUME NEW l \in Login, add_user(l)  PROVE MakerInv'
  BY <1>3 DEF add_user
<1>4. ASSUME NEW l \in Login, Collect(l)  PROVE MakerInv'
  <2>1. next[l] \in {"mail", "proxy", "group", "alias"}
    BY <1>4 DEF Collect, AfterThat
  <2>2. Range(unsaved'[l]) = Range(unsaved[l]) \cup Range(Found[next[l]])
    BY <1>4, <2>1, RangeConcatenation DEF Collect
  <2>3. next'[l] = CASE next[l] = "mail" -> "profile" [] next[l] = "proxy" -> "group"
                     [] OTHER -> "save"
    BY <1>4, <2>1 DEF Collect, AfterThat
  <2>4. \A k \in Login \ {l} : next'[k] = next[k] /\ unsaved'[k] = unsaved[k]
    BY <1>4 DEF Collect
  <2>5. UNCHANGED <<registered, profile, addresses, by, maker, failed>>
    BY <1>4 DEF Collect
  <2>6. \A k \in maker \ {l} : Collected(k) => Collected(k)'
    BY <2>4, <2>5
  <2>7. l \in maker /\ Collected(l) => Collected(l)'
    BY <2>1, <2>2, <2>3, <2>5
  <2> QED  BY <2>1, <2>3, <2>4, <2>5, <2>6, <2>7
<1>5. ASSUME NEW l \in Login, update_attrs(l)  PROVE MakerInv'
  BY <1>5 DEF update_attrs
<1>6. ASSUME NEW l \in Login, DirectoryFails(l)  PROVE MakerInv'
  BY <1>6 DEF DirectoryFails
<1>7. ASSUME NEW l \in Login, SaveAddress(l)  PROVE MakerInv'
  <2>1. CASE unsaved[l] = <<>>
    BY <1>7, <2>1 DEF SaveAddress, SaveThen
  <2>2. CASE unsaved[l] # <<>>
    <3>1. Range(unsaved[l]) \subseteq addresses' \cup Range(unsaved'[l])
      <4>1. unsaved[l] \in Seq(Mailbox) /\ unsaved \in [Login -> Seq(Mailbox)]
        OBVIOUS
      <4>2. /\ addresses' = addresses \cup {Head(unsaved[l])}
            /\ unsaved' = [unsaved EXCEPT ![l] = Tail(unsaved[l])]
        BY <1>7, <2>2 DEF SaveAddress, SaveThen
      <4>3. Range(unsaved[l]) \subseteq {Head(unsaved[l])} \cup Range(Tail(unsaved[l]))
        BY <2>2, <4>1, RangeOfTail
      <4>4. unsaved'[l] = Tail(unsaved[l])
        BY <4>1, <4>2, Zenon
      <4> QED  BY <4>2, <4>3, <4>4, Zenon
    <3>2. addresses \subseteq addresses' /\ next[l] = "save"
      BY <1>7, <2>2 DEF SaveAddress, SaveThen
    <3>3. \A k \in Login \ {l} : unsaved'[k] = unsaved[k]
      BY <1>7, <2>2 DEF SaveAddress, SaveThen
    <3>4. UNCHANGED <<registered, profile, next, by, maker, failed>>
      BY <1>7, <2>2 DEF SaveAddress, SaveThen
    <3> QED  BY <3>1, <3>2, <3>3, <3>4
  <2> QED  BY <2>1, <2>2
<1>8. ASSUME NEW l \in Login, update_login(l)  PROVE MakerInv'
  BY <1>8 DEF update_login
<1>9. ASSUME NEW l \in Login, Dies(l)  PROVE MakerInv'
  BY <1>9 DEF Dies, Ends
<1>10. ASSUME NEW a \in Mailbox, AddAddress(a)  PROVE MakerInv'
  BY <1>10 DEF AddAddress
<1> QED
  BY <1>1, <1>2, <1>3, <1>4, <1>5, <1>6, <1>7, <1>8, <1>9, <1>10 DEF LoginNext, LoginStep

LEMMA LoginInductive == ASSUME FirstLoginAssumption PROVE LoginSpec => []LoginInv
<1>1. LoginInit => LoginInv
  <2> SUFFICES ASSUME LoginInit PROVE LoginInv
    OBVIOUS
  <2>1. Plugin = SubSeq(Plugin, 1, Len(Plugin)) /\ Len(Plugin) \in Nat
    BY SubSeqFull, LenProperties DEF FirstLoginAssumption
  <2>2. <<>> \in Seq(Mailbox)
    BY EmptySeq
  <2>3. Plugin \in PluginTails
    BY <2>1 DEF PluginTails
  <2>4. by \in [Login -> PluginTails] /\ unsaved \in [Login -> Seq(Mailbox)]
    BY <2>2, <2>3 DEF LoginInit
  <2>5. LoginTypeOK
    <3>1. next \in [Login -> {"authenticate", "loggedin", "add_user", "save", "profile",
                         "update_login"} \cup DOMAIN Found \cup Ends]
      BY DEF LoginInit
    <3>2. by \in [Login -> {SubSeq(Plugin, i, Len(Plugin)) : i \in 1 .. Len(Plugin) + 1}]
      BY <2>4 DEF PluginTails
    <3>3. deaths \in 0 .. MaxDeaths
      BY DEF LoginInit, FirstLoginAssumption
    <3>4. accepts \subseteq Range(Plugin) /\ addresses \subseteq Mailbox /\ maker \subseteq Login
      BY DEF LoginInit
    <3> QED  BY <2>4, <3>1, <3>2, <3>3, <3>4 DEF LoginInit, LoginTypeOK
  <2>6. MakerInv
    BY DEF LoginInit, MakerInv
  <2> QED  BY <2>5, <2>6 DEF LoginInv
<1>2. LoginInv /\ [LoginNext]_loginVars => LoginInv'
  <2> SUFFICES ASSUME LoginInv, [LoginNext]_loginVars PROVE LoginInv'
    OBVIOUS
  <2>1. CASE LoginNext
    BY <2>1, LoginTypeStep, MakerStep DEF LoginInv
  <2>2. CASE UNCHANGED loginVars
    BY <2>2 DEF loginVars, LoginInv, LoginTypeOK, MakerInv, Collected, Gathered
  <2> QED  BY <2>1, <2>2
<1> QED  BY <1>1, <1>2, PTL DEF LoginSpec

(* The variables of FirstLogin have their types.                             *)
THEOREM LoginTypeCorrect == ASSUME FirstLoginAssumption PROVE LoginSpec => []LoginTypeOK
<1>1. LoginInv => LoginTypeOK
  BY DEF LoginInv
<1> QED  BY <1>1, LoginInductive, PTL

(* For any number of logins at once, authenticators and addresses: the       *)
(* account is made once, and completed by the request that made it, unless   *)
(* the directory failed or a request died (accounts.py:155-168,              *)
(* api.py:109-218).                                                          *)
THEOREM AccountsAreComplete == ASSUME FirstLoginAssumption PROVE LoginSpec => []AccountComplete
<1>1. ASSUME LoginInv  PROVE AccountComplete
  <2>1. maker = {} \/ \E l \in maker : maker = {l}
    BY <1>1 DEF LoginInv, MakerInv
  <2>2. Cardinality(maker) <= 1
    BY <2>1, FS_EmptySet, FS_Singleton
  <2>3. ASSUME NEW l \in maker, next[l] \in Ends, ~failed
        PROVE  /\ Collected(l) /\ next[l] = "done" /\ Range(unsaved[l]) = {}
    <3>1. Collected(l) /\ next[l] = "done" /\ unsaved[l] = <<>>
      BY <1>1, <2>3 DEF LoginInv, MakerInv, Collected, Ends
    <3> QED  BY <3>1 DEF Range
  <2>4. \A l \in maker : next[l] \in Ends /\ ~failed =>
            /\ Head(by[l]) = Directory => profile /\ \A k \in {"mail", "proxy", "group"} :
                    Range(Found[k]) \subseteq addresses
            /\ Head(by[l]) # Directory => Range(Found["alias"]) \subseteq addresses
    BY <2>3 DEF Collected, Gathered
  <2> QED  BY <2>2, <2>4 DEF AccountComplete
<1> QED  BY <1>1, LoginInductive, PTL

-----------------------------------------------------------------------------
(* Views                                                                     *)

LEMMA ViewsTypeStep ==
    ASSUME ViewsAssumption, ViewsTypeOK, ViewsNext
    PROVE  ViewsTypeOK'
<1> USE DEF ViewsTypeOK, ViewsAssumption
<1>1. ASSUME NEW u \in Person, NEW o \in Org, EditOrg(u, o)  PROVE ViewsTypeOK'
  <2>1. PICK ds \in SUBSET Domain, as \in SUBSET Admin :
            owns' = [owns EXCEPT ![o] = ds] /\ admins' = [admins EXCEPT ![o] = as]
    BY <1>1 DEF EditOrg, org_add_form
  <2>2. UNCHANGED <<status, account, place>>
    BY <1>1 DEF EditOrg
  <2> QED  BY <2>1, <2>2
<1>2. ASSUME NEW n \in Domain \cup Alias, SetStatus(n)  PROVE ViewsTypeOK'
  BY <1>2 DEF SetStatus
<1>3. ASSUME NEW v \in User, NEW entry, Saved(v, entry),
             entry \in [email : SUBSET Address, domains : SUBSET Domain, addresses : SUBSET Entry]
      PROVE  ViewsTypeOK'
  BY <1>3 DEF Saved
<1>4. ASSUME NEW u \in {Super} \cup Admin  PROVE FormDomains(u) \subseteq Domain
  BY <1>4 DEF FormDomains, Owned
<1>5. ASSUME NEW u \in {Super} \cup Admin, NEW v \in User, AddAccount(u, v)  PROVE ViewsTypeOK'
  BY <1>3, <1>4, <1>5 DEF AddAccount
<1>6. ASSUME NEW u \in {Super} \cup Admin, NEW v \in User, EditAccount(u, v)  PROVE ViewsTypeOK'
  <2>1. PICK ds \in SUBSET FormDomains(u), x \in Address :
            Saved(v, [account[v] EXCEPT !.email = {x}, !.domains = ds])
    BY <1>6 DEF EditAccount
  <2>2. ds \in SUBSET Domain
    BY <1>4
  <2>3. [account[v] EXCEPT !.email = {x}, !.domains = ds] \in
            [email : SUBSET Address, domains : SUBSET Domain, addresses : SUBSET Entry]
    <3>1. account[v] \in [email : SUBSET Address, domains : SUBSET Domain,
                           addresses : SUBSET Entry]
      OBVIOUS
    <3>2. {x} \in SUBSET Address
      OBVIOUS
    <3> QED  BY <2>2, <3>1, <3>2
  <2> QED  BY <1>3, <2>1, <2>3
<1>7. ASSUME NEW u \in {Super} \cup Admin, NEW v \in User, DeleteAccount(u, v)  PROVE ViewsTypeOK'
  BY <1>3, <1>7 DEF DeleteAccount, NoAccount
<1>8. ASSUME NEW u \in {Super} \cup Admin, NEW v \in User, NEW e \in Entry,
             create_address(u, v, e) \/ delete_address(u, v, e)
      PROVE  ViewsTypeOK'
  <2>1. PICK S \in SUBSET Entry : Saved(v, [account[v] EXCEPT !.addresses = S])
    BY <1>8 DEF create_address, delete_address
  <2> QED  BY <1>3, <2>1
<1>9. ASSUME NEW u \in {Super} \cup Admin, NEW v \in User, NEW old \in Entry, NEW e \in Entry,
             update_address(u, v, old, e)
      PROVE  ViewsTypeOK'
  BY <1>3, <1>9 DEF update_address
<1>10. ASSUME NEW r \in Row, MoveRow(r)  PROVE ViewsTypeOK'
  BY <1>10 DEF MoveRow
<1> QED
  BY <1>1, <1>2, <1>5, <1>6, <1>7, <1>8, <1>9, <1>10 DEF ViewsNext

(* The variables of Views have their types.                                  *)
THEOREM ViewsTypeCorrect == ASSUME ViewsAssumption PROVE ViewsSpec => []ViewsTypeOK
<1>1. ViewsInit => ViewsTypeOK
  BY DEF ViewsInit, ViewsTypeOK, NoAccount
<1>2. ViewsTypeOK /\ UNCHANGED viewsVars => ViewsTypeOK'
  BY DEF ViewsTypeOK, viewsVars
<1> QED  BY <1>1, <1>2, ViewsTypeStep, PTL DEF ViewsSpec

(* A join that has a row for each owner counts no domain less than once, and *)
(* each once if no domain has two owners.                                    *)
LEMMA JoinCounts ==
    ASSUME NEW O, NEW D, NEW J \in SUBSET (O \X D), IsFiniteSet(O), IsFiniteSet(D),
           NEW joined, joined = {d \in D : \E p \in J : p[2] = d}
    PROVE  /\ Cardinality(J) >= Cardinality(joined)
           /\ (\A p, q \in J : p[2] = q[2] => p = q) => Cardinality(J) = Cardinality(joined)
<1> DEFINE f == [p \in J |-> p[2]]
<1>1. IsFiniteSet(J)
  BY FS_Product, FS_Subset
<1>2. f \in Surjection(J, joined)
  BY DEF Surjection
<1>3. /\ Cardinality(joined) <= Cardinality(J)
      /\ f \in Injection(J, joined) => Cardinality(joined) = Cardinality(J)
  BY <1>1, <1>2, FS_Surjection
<1>4. Cardinality(joined) \in Nat /\ Cardinality(J) \in Nat
  BY <1>1, <1>2, FS_Surjection, FS_CardinalityType
<1>5. (\A p, q \in J : p[2] = q[2] => p = q) => f \in Injection(J, joined)
  BY <1>2 DEF Injection, IsInjective, Surjection
<1> QED  BY <1>3, <1>4, <1>5

LEMMA SearchAgrees == ASSUME ViewsAssumption PROVE SearchFindsListed
<1> USE DEF ViewsAssumption, Person, listing, archive, search, filter_sphinx, UserFilter
<1>1. ASSUME NEW u \in Admin  PROVE FilterNames(u) \subseteq get_dom_crcs(u)
  BY DEF FilterNames, get_dom_crcs, WithAliases
<1>2. ASSUME NEW u \in Admin, NEW r \in Row, UserFilter(u, r)  PROVE filter_sphinx(u, r)
  BY <1>1, <1>2 DEF InDomains
<1>3. ASSUME NEW u \in User, NEW r \in Rows("messages"), UserFilter(u, r)
      PROVE  filter_sphinx(u, r)
  BY <1>3 DEF Concerns, get_tagged_addrs, Rows
<1>4. \A u \in Person : search(u, "messages") = listing(u)
  BY <1>2, <1>3 DEF Rows
<1>5. \A u \in Person : u \notin User => search(u, "archive") = archive(u)
  BY <1>2 DEF Rows
<1> QED  BY <1>4, <1>5 DEF SearchFindsListed

LEMMA CountsAreRight == ASSUME ViewsAssumption PROVE CountsAreOfLists
<1> USE DEF ViewsAssumption, Person, UserFilter
<1> SUFFICES ASSUME NEW u \in Person
             PROVE  /\ TopOfPage(u).queued = Cardinality(mailq(u))
                    /\ \A r \in Row : r \in mailq(u) <=> mailq_detail(u, r)
                    /\ listing(u) \subseteq DailyTotals(u)
                    /\ TotalsNames(u) = FilterNames(u) =>
                            TopOfPage(u).totals = Cardinality(listing(u))
  BY DEF CountsAreOfLists
<1>1. MailQueue(u) = mailq(u)
  BY DEF MailQueue, mailq
<1>2. \A r \in Row : r \in mailq(u) <=> mailq_detail(u, r)
  BY DEF mailq, mailq_detail
<1>3. FilterNames(u) \subseteq TotalsNames(u)
  BY DEF FilterNames, TotalsNames, WithAliases
<1>4. listing(u) \subseteq DailyTotals(u)
  BY <1>3 DEF listing, DailyTotals, InDomains
<1>5. TotalsNames(u) = FilterNames(u) => DailyTotals(u) = listing(u)
  BY DEF listing, DailyTotals
<1> QED  BY <1>1, <1>2, <1>4, <1>5 DEF TopOfPage

LEMMA PagerCounts ==
    ASSUME ViewsAssumption, NEW u \in Admin
    PROVE  /\ domcount(u) >= Cardinality(domains(u))
           /\ (\A d \in Domain : Cardinality(Owners(u, d)) <= 1) =>
                /\ domcount(u) = Cardinality(domains(u))
                /\ \A d \in domains(u) : pager_filter(u, d, Alias) = Cardinality(Alias)
<1> DEFINE join == {p \in Org \X Domain : u \in admins[p[1]] /\ p[2] \in owns[p[1]]}
<1>1. u # Super /\ IsFiniteSet(Org) /\ IsFiniteSet(Domain) /\ IsFiniteSet(Alias)
  BY DEF ViewsAssumption
<1>2. domains(u) = {d \in Domain : \E p \in join : p[2] = d} /\ domcount(u) = Cardinality(join)
  <2>1. \A d \in Domain : Owners(u, d) # {} <=> \E p \in join : p[2] = d
    <3>1. ASSUME NEW d \in Domain, NEW o \in Owners(u, d)  PROVE \E p \in join : p[2] = d
      <4>1. <<o, d>> \in join /\ <<o, d>>[2] = d
        BY <3>1 DEF Owners
      <4> QED  BY <4>1
    <3>2. ASSUME NEW d \in Domain, NEW p \in join, p[2] = d  PROVE p[1] \in Owners(u, d)
      BY <3>2 DEF Owners
    <3> QED  BY <3>1, <3>2
  <2> QED  BY <1>1, <2>1 DEF domains, domcount
<1>3. ASSUME NEW d \in Domain, Cardinality(Owners(u, d)) <= 1, NEW o \in Owners(u, d)
      PROVE  Owners(u, d) = {o}
  <2>1. IsFiniteSet(Owners(u, d)) /\ Cardinality(Owners(u, d)) \in Nat
    BY <1>1, FS_Subset, FS_CardinalityType DEF Owners
  <2>2. Cardinality(Owners(u, d)) = 1
    BY <1>3, <2>1, FS_EmptySet
  <2> QED  BY <2>1, <2>2, FS_Singleton
<1>4. ASSUME \A d \in Domain : Cardinality(Owners(u, d)) <= 1, NEW p \in join, NEW q \in join,
             p[2] = q[2]
      PROVE  p = q
  <2>1. p[1] \in Owners(u, p[2]) /\ q[1] \in Owners(u, p[2]) /\ p[2] \in Domain
    BY <1>4 DEF Owners
  <2>2. p[1] = q[1]
    BY <1>3, <1>4, <2>1
  <2>3. p = <<p[1], p[2]>> /\ q = <<q[1], q[2]>>
    OBVIOUS
  <2> QED  BY <1>4, <2>2, <2>3
<1>5. ASSUME \A d \in Domain : Cardinality(Owners(u, d)) <= 1, NEW d \in domains(u)
      PROVE  pager_filter(u, d, Alias) = Cardinality(Alias)
  <2>1. PICK o \in Owners(u, d) : Owners(u, d) = {o}
    BY <1>1, <1>3, <1>5 DEF domains
  <2>2. Cardinality({o} \X Alias) = 1 * Cardinality(Alias) /\ Cardinality(Alias) \in Nat
    <3>1. IsFiniteSet({o}) /\ Cardinality({o}) = 1
      BY FS_Singleton
    <3>2. Cardinality({o} \X Alias) = Cardinality({o}) * Cardinality(Alias)
      BY <1>1, <3>1, FS_Product
    <3> QED  BY <1>1, <3>1, <3>2, FS_CardinalityType
  <2> QED  BY <1>1, <2>1, <2>2 DEF pager_filter
<1> HIDE DEF join
<1>6. join \in SUBSET (Org \X Domain)
  BY DEF join
<1> QED  BY <1>1, <1>2, <1>4, <1>5, <1>6, JoinCounts

LEMMA DirectoriesAgree == ASSUME ViewsAssumption PROVE DirectoryAgrees
<1> USE DEF ViewsAssumption
<1> SUFFICES ASSUME NEW u \in {Super} \cup Admin
             PROVE  /\ domains(u) = domains_search(u)
                    /\ \A d \in Domain : d \in domains(u) <=>
                            OwnsDomain(u, d) /\ get_domain(u, d) /\ get_part(u, d)
                    /\ domcount(u) >= Cardinality(domains(u))
                    /\ (\A d \in Domain : Cardinality(Owners(u, d)) <= 1) =>
                            /\ domcount(u) = Cardinality(domains(u))
                            /\ \A d \in domains(u) :
                                    pager_filter(u, d, Alias) = Cardinality(Alias)
                    /\ accounts(u) = accounts_search(u)
                    /\ \A v \in User : v \in accounts(u) <=> get_user(u, v) /\ get_address(u, v)
  BY DEF DirectoryAgrees
<1>1. \A d \in Domain : Owners(u, d) # {} <=> d \in Owned(u)
  BY DEF Owners, Owned
<1>2. \A d \in Domain : d \in get_dom_crcs(u) <=> d \in Owned(u)
  BY DEF get_dom_crcs, WithAliases
<1>3. domains(u) = domains_search(u)
  BY <1>1, <1>2 DEF domains, domains_search
<1>4. ASSUME NEW d \in Domain
      PROVE  d \in domains(u) <=> OwnsDomain(u, d) /\ get_domain(u, d) /\ get_part(u, d)
  <2>1. CASE u = Super
    BY <2>1 DEF domains, OwnsDomain, get_domain, get_part
  <2>2. CASE u # Super
    <3>1. Owners(u, d) # {} => get_domain(u, d) /\ get_part(u, d)
      <4>1. ASSUME NEW o \in Owners(u, d)  PROVE get_domain(u, d) /\ get_part(u, d)
        <5>1. <<o, o>> \in Org \X Org /\ <<o, o>>[1] = <<o, o>>[2]
              /\ u \in admins[<<o, o>>[1]] /\ d \in owns[<<o, o>>[2]]
          BY <4>1 DEF Owners
        <5>2. get_part(u, d)
          BY <5>1 DEF get_part
        <5> QED  BY <4>1, <5>2 DEF get_domain, Owners
      <4> QED  BY <4>1
    <3> QED  BY <2>2, <3>1 DEF domains, OwnsDomain, check_domain_ownership
  <2> QED  BY <2>1, <2>2
<1>5. CASE u = Super
  <2>1. domcount(u) = Cardinality(domains(u)) /\ domains(u) = Domain
    BY <1>5 DEF domcount, domains
  <2>2. domcount(u) \in Nat
    BY <2>1, FS_CardinalityType
  <2>3. \A d \in domains(u) : pager_filter(u, d, Alias) = Cardinality(Alias)
    BY <1>5 DEF pager_filter
  <2>4. accounts(u) = accounts_search(u)
    BY <1>5 DEF accounts, accounts_search
  <2>5. \A v \in User : v \in accounts(u) <=> get_user(u, v) /\ get_address(u, v)
    BY <1>5 DEF accounts, get_user, get_address
  <2> QED  BY <1>3, <1>4, <2>1, <2>2, <2>3, <2>4, <2>5
<1>6. CASE u # Super
  <2>1. u \in Admin /\ u \notin User
    BY <1>6
  <2>2. accounts(u) = accounts_search(u)
    BY <1>6 DEF accounts, accounts_search, Owners, Owned
  <2>3. ASSUME NEW v \in User
        PROVE  v \in accounts(u) <=> get_user(u, v) /\ get_address(u, v)
    <3>1. u # v
      BY <2>1
    <3> QED  BY <1>6, <3>1 DEF accounts, get_user, get_address, Owners
  <2> QED  BY <1>3, <1>4, <2>1, <2>2, <2>3, PagerCounts
<1> QED  BY <1>5, <1>6

(* For any organizations, owners, aliases, accounts and rows, whatever their *)
(* state: the queries of the pages come to the same (query.py:357-367,       *)
(* 575-681, domains.py:157-169, messages.py:151-165).                        *)
THEOREM PagesAlwaysAgree == ASSUME ViewsAssumption PROVE ViewsSpec => []PagesAgree
<1>1. ListedOpens
  BY DEF ListedOpens, archive, _get_msg
<1>2. ListsAgree
  BY DEF ListsAgree, organizations, organizations_search, lists, lists_search
<1>3. AdminsSeeTheirUsers
  <2> SUFFICES ASSUME NEW u \in Admin, NEW v \in Accounts,
                      \A x \in Mine(v) : DomainOf[x] \in FilterNames(u)
               PROVE  \A r \in Row : UserFilter(v, r) => UserFilter(u, r)
    BY DEF AdminsSeeTheirUsers, listing, archive, mailq, Rows
  <2> QED  BY DEF UserFilter, Concerns, InDomains, Accounts, ViewsAssumption
<1>4. PagesAgree
  BY <1>1, <1>2, <1>3, SearchAgrees, CountsAreRight, DirectoriesAgree DEF PagesAgree
<1> QED  BY <1>4, PTL

-----------------------------------------------------------------------------
(* Reports, for any nodes, users, domains and messages, any number of runs   *)
(* by hand, of kills, of refused mails and of locks lost.                    *)

(* What a run holds: nobody twice, and nothing when there is none. A cron    *)
(* has but one run in an hour.                                               *)
RunInv ==
    /\ \A r \in Runner :
        /\ at[r] = "idle" => todo[r] = {}
        /\ at[r] \in {"send", "commit"} => \E u \in Recipient : current[r] = {u}
        /\ at[r] = "send" => todo[r] \cap current[r] = {}
        /\ \A m \in found[r] : born[m] # Never
        /\ command = "quarantinereportsng" => todo[r] \subseteq Recipient
    /\ \A n \in Node : at[n] # "idle" => n \in launched
    /\ \A m \in Msg : born[m] # Never => born[m] <= now
    /\ \A u \in Recipient : last[u] <= now

(* An hour that nobody has disturbed: there is one run at most, the lock     *)
(* tells that there was one, and whoever is still to be sent a report has    *)
(* not been sent one.                                                        *)
HourInv ==
    \/ disturbed
    \/ /\ \A r, q \in Running : r = q
       /\ First(now) /\ (Running # {} \/ \E u \in Target : mailed[u] # 0) => lock[command] = "held"
       /\ First(now) /\ launched = {} => lock[command] = "free"
       /\ \A r \in Runner : \A u \in todo[r] : mailed[u] = 0
       /\ \A r \in Runner : at[r] = "send" => \A u \in current[r] : mailed[u] = 0
       /\ \A u \in Target : mailed[u] <= 1

(* What a Plain user was sent has a Release record, or is about to have one, *)
(* or is so old that the record may have gone.                               *)
OnRecord(m) ==
    \/ m \in Recorded \/ born[m] + Day < now
    \/ \E r \in Runner : at[r] = "commit" /\ m \in found[r]
Again(r) == Pairs(r) \cap sent
OnceInv ==
    /\ ReportedOnce
    /\ \A m \in Recorded : born[m] <= releases[m]
    /\ \/ overlapped
       \/ /\ \A r, q \in Running : r = q
          /\ \A p \in sent : p[1] \in Plain /\ p[2] \notin unrecorded => OnRecord(p[2])
          /\ \A r \in Runner : at[r] = "send" =>
                \A p \in Again(r) : p[1] \in Plain => p[2] \in unrecorded

(* Every message that was there when a user's messages were looked for was   *)
(* sent to him, is about to be, or is excused. When his hour is over he has  *)
(* been looked for in it, or all that was there is excused.                  *)
HourStart == 2 * (now \div 2)
Settled(u, m) == <<u, m>> \in sent \cup excused
InHand(u, m) == \E r \in Runner : at[r] = "send" /\ u \in current[r] /\ m \in found[r]
SettledBefore(u, t) == \A m \in Shown(u) : born[m] < t => Settled(u, m)
Looked(u) ==
    \/ disturbed \/ launched = {} \/ last[u] >= HourStart
    \/ \E r \in Runner : at[r] # "idle" /\ u \in todo[r]
    \/ SettledBefore(u, HourStart)
SeenInv ==
    command = "quarantinereportsng" => \A u \in Recipient :
        /\ \A m \in Shown(u) : born[m] < last[u] => Settled(u, m) \/ InHand(u, m)
        /\ Due(u) => Looked(u)
        /\ ~Due(u) => SettledBefore(u, HourStart - 2)

ReportsInv == ReportsTypeOK /\ RunInv /\ HourInv /\ OnceInv /\ SeenInv

USE DEF clock, run, outcome, history, reportVars, Elsewhere, Command, Tick, Never, Day,
        Runner, Target, LockInit, LockTypeOK, acquire_lock, release_lock_after, Expire

LEMMA ReportsTypeStep ==
    ASSUME ReportsAssumption, ReportsTypeOK, ReportsNext
    PROVE  ReportsTypeOK'
<1> USE DEF ReportsTypeOK, ReportsAssumption
<1>1. ASSUME NEW m \in Msg, Quarantined(m)  PROVE ReportsTypeOK'
  BY <1>1 DEF Quarantined
<1>2. CASE Pass
  <2>1. now' \in 0..MaxTick
    BY <1>2 DEF Pass
  <2>2. lock' \in [Key -> {"free", "held"}]
    BY <1>2 DEF Pass
  <2>3. /\ launched' \subseteq Node /\ mailed' \in [Recipient \cup ReportedDomain -> Nat]
        /\ disturbed' \in BOOLEAN
    <3>1. CASE First(now)
      BY <1>2, <3>1 DEF Pass
    <3>2. CASE ~First(now)
      <4>1. launched' = {} /\ mailed' = [u \in Target |-> 0] /\ disturbed' = FALSE
        BY <1>2, <3>2 DEF Pass
      <4> QED  BY <4>1
    <3> QED  BY <3>1, <3>2
  <2>5. Unserved \subseteq Recipient
    BY DEF Unserved
  <2>6. excused' \subseteq excused \cup (Unserved \X Msg)
    BY <1>2 DEF Pass
  <2>4. UNCHANGED <<command, born, run, sent, twice, releases, last, unrecorded,
                    overlapped, faults>>
    BY <1>2 DEF Pass
  <2> QED  BY <2>1, <2>2, <2>3, <2>4, <2>5, <2>6
<1>3. CASE PruneReleases
  BY <1>3 DEF PruneReleases
<1>4. ASSUME NEW n \in Node, Launch(n)  PROVE ReportsTypeOK'
  BY <1>4 DEF Launch, Starts, Types
<1>5. ASSUME NEW n \in Node, Refused(n)  PROVE ReportsTypeOK'
  BY <1>5 DEF Refused
<1>6. CASE ByHand
  BY <1>6 DEF ByHand, Starts, Types
<1>7. ASSUME NEW r \in Runner, NEW u \in Recipient, process_report(r, u)  PROVE ReportsTypeOK'
  <2>1. PICK S \in SUBSET Msg :
            /\ found' = [found EXCEPT ![r] = S]
            /\ current' = [current EXCEPT ![r] = {u}]
            /\ at' = [at EXCEPT ![r] = IF S = {} THEN "users" ELSE "send"]
            /\ excused' = excused \cup ({u} \X LeftOut(u, S))
    BY <1>7 DEF process_report
  <2>2. LeftOut(u, S) \subseteq Msg
    BY DEF LeftOut, Window, Shown
  <2>3. /\ todo' = [todo EXCEPT ![r] = @ \ {u}] /\ last' = [last EXCEPT ![u] = now]
        /\ UNCHANGED <<Elsewhere, force, outcome, unrecorded, disturbed, overlapped, faults>>
    BY <1>7 DEF process_report, Taken
  <2>4. excused' \subseteq Recipient \X Msg /\ last' \in [Recipient -> 0..MaxTick]
    BY <2>1, <2>2, <2>3
  <2>5. /\ at' \in [Node \cup {Manual} -> {"idle", "users", "send", "commit"}]
        /\ found' \in [Node \cup {Manual} -> SUBSET Msg]
        /\ current' \in [Node \cup {Manual} -> SUBSET Recipient]
    BY <2>1
  <2>6. todo' \in [Node \cup {Manual} -> SUBSET (Recipient \cup ReportedDomain)]
    BY <2>3
  <2> QED  BY <2>3, <2>4, <2>5, <2>6
<1>8. ASSUME NEW r \in Runner, SendMail(r)  PROVE ReportsTypeOK'
  BY <1>8 DEF SendMail, Pairs
<1>9. ASSUME NEW r \in Runner, SendFails(r)  PROVE ReportsTypeOK'
  BY <1>9 DEF SendFails, Pairs
<1>10. ASSUME NEW r \in Runner, CommitReleases(r)  PROVE ReportsTypeOK'
  BY <1>10 DEF CommitReleases
<1>11. ASSUME NEW r \in Runner, NEW u \in Recipient, SendPdf(r, u)  PROVE ReportsTypeOK'
  BY <1>11 DEF SendPdf, Next1, Taken
<1>12. ASSUME NEW r \in Runner, NEW d \in ReportedDomain, SendDomainReport(r, d)  PROVE ReportsTypeOK'
  BY <1>12 DEF SendDomainReport, Next1, Taken
<1>13. ASSUME NEW r \in Runner, NEW u \in Recipient, PdfRaises(r, u)  PROVE ReportsTypeOK'
  BY <1>13 DEF PdfRaises, Next1, Finally, Stops
<1>14. ASSUME NEW r \in Runner, Finish(r)  PROVE ReportsTypeOK'
  BY <1>14 DEF Finish, Finally, Stops
<1>15. ASSUME NEW r \in Runner, KillReport(r)  PROVE ReportsTypeOK'
  BY <1>15 DEF KillReport, Stops
<1>16. CASE LockLost
  BY <1>16 DEF LockLost
<1> QED
  BY <1>1, <1>2, <1>3, <1>4, <1>5, <1>6, <1>7, <1>8,
     <1>9, <1>10, <1>11, <1>12, <1>13, <1>14, <1>15, <1>16
  DEF ReportsNext, ReportStep

LEMMA RunStep ==
    ASSUME ReportsAssumption, ReportsTypeOK, RunInv, ReportsNext
    PROVE  RunInv'
<1> USE DEF ReportsTypeOK, ReportsAssumption, RunInv, Running, Shown, Served, First
<1>1. ASSUME NEW m \in Msg, Quarantined(m)  PROVE RunInv'
  BY <1>1 DEF Quarantined
<1>2. CASE Pass
  BY <1>2 DEF Pass, Unserved
<1>3. CASE PruneReleases
  BY <1>3 DEF PruneReleases
<1>4. ASSUME NEW n \in Node, Launch(n)  PROVE RunInv'
  BY <1>4 DEF Launch, Starts, Types
<1>5. ASSUME NEW n \in Node, Refused(n)  PROVE RunInv'
  BY <1>5 DEF Refused
<1>6. CASE ByHand
  BY <1>6 DEF ByHand, Starts, Types
<1>7. ASSUME NEW r \in Runner, NEW u \in Recipient, process_report(r, u)  PROVE RunInv'
  BY <1>7 DEF process_report, Next1, Taken, Newest, Wanted, Window, LeftOut
<1>8. ASSUME NEW r \in Runner, SendMail(r)  PROVE RunInv'
  BY <1>8 DEF SendMail, Pairs
<1>9. ASSUME NEW r \in Runner, SendFails(r)  PROVE RunInv'
  BY <1>9 DEF SendFails, Pairs
<1>10. ASSUME NEW r \in Runner, CommitReleases(r)  PROVE RunInv'
  BY <1>10 DEF CommitReleases
<1>11. ASSUME NEW r \in Runner, NEW u \in Recipient, SendPdf(r, u)  PROVE RunInv'
  BY <1>11 DEF SendPdf, Next1, Taken
<1>12. ASSUME NEW r \in Runner, NEW d \in ReportedDomain, SendDomainReport(r, d)  PROVE RunInv'
  BY <1>12 DEF SendDomainReport, Next1, Taken
<1>13. ASSUME NEW r \in Runner, NEW u \in Recipient, PdfRaises(r, u)  PROVE RunInv'
  BY <1>13 DEF PdfRaises, Next1, Finally, Stops
<1>14. ASSUME NEW r \in Runner, Finish(r)  PROVE RunInv'
  BY <1>14 DEF Finish, Finally, Stops
<1>15. ASSUME NEW r \in Runner, KillReport(r)  PROVE RunInv'
  BY <1>15 DEF KillReport, Stops
<1>16. CASE LockLost
  BY <1>16 DEF LockLost
<1> QED
  BY <1>1, <1>2, <1>3, <1>4, <1>5, <1>6, <1>7, <1>8,
     <1>9, <1>10, <1>11, <1>12, <1>13, <1>14, <1>15, <1>16
  DEF ReportsNext, ReportStep

LEMMA HourStep ==
    ASSUME ReportsAssumption, ReportsTypeOK, RunInv, HourInv, ReportsNext
    PROVE  HourInv'
<1> USE DEF ReportsTypeOK, ReportsAssumption, RunInv, HourInv, Running, First
<1>1. ASSUME NEW m \in Msg, Quarantined(m)  PROVE HourInv'
  BY <1>1 DEF Quarantined
<1>2. CASE Pass
  BY <1>2 DEF Pass, Unserved
<1>3. CASE PruneReleases
  BY <1>3 DEF PruneReleases
<1>4. ASSUME NEW n \in Node, Launch(n)  PROVE HourInv'
  BY <1>4 DEF Launch, Starts, Types
<1>5. ASSUME NEW n \in Node, Refused(n)  PROVE HourInv'
  BY <1>5 DEF Refused
<1>6. CASE ByHand
  BY <1>6 DEF ByHand, Starts, Types
<1>7. ASSUME NEW r \in Runner, NEW u \in Recipient, process_report(r, u)  PROVE HourInv'
  BY <1>7 DEF process_report, Next1, Taken, Newest, Wanted, Window, LeftOut
<1>8. ASSUME NEW r \in Runner, SendMail(r)  PROVE HourInv'
  BY <1>8 DEF SendMail, Pairs
<1>9. ASSUME NEW r \in Runner, SendFails(r)  PROVE HourInv'
  BY <1>9 DEF SendFails, Pairs
<1>10. ASSUME NEW r \in Runner, CommitReleases(r)  PROVE HourInv'
  BY <1>10 DEF CommitReleases
<1>11. ASSUME NEW r \in Runner, NEW u \in Recipient, SendPdf(r, u)  PROVE HourInv'
  BY <1>11 DEF SendPdf, Next1, Taken
<1>12. ASSUME NEW r \in Runner, NEW d \in ReportedDomain, SendDomainReport(r, d)  PROVE HourInv'
  BY <1>12 DEF SendDomainReport, Next1, Taken
<1>13. ASSUME NEW r \in Runner, NEW u \in Recipient, PdfRaises(r, u)  PROVE HourInv'
  BY <1>13 DEF PdfRaises, Next1, Finally, Stops
<1>14. ASSUME NEW r \in Runner, Finish(r)  PROVE HourInv'
  BY <1>14 DEF Finish, Finally, Stops
<1>15. ASSUME NEW r \in Runner, KillReport(r)  PROVE HourInv'
  BY <1>15 DEF KillReport, Stops
<1>16. CASE LockLost
  BY <1>16 DEF LockLost
<1> QED
  BY <1>1, <1>2, <1>3, <1>4, <1>5, <1>6, <1>7, <1>8,
     <1>9, <1>10, <1>11, <1>12, <1>13, <1>14, <1>15, <1>16
  DEF ReportsNext, ReportStep

(* A step that leaves the runs and what was sent alone, and drops no Release *)
(* record but of a message that has long fallen out of the 24 hours.         *)
LEMMA OnceFrame ==
    ASSUME ReportsAssumption, ReportsTypeOK, ReportsTypeOK', OnceInv, now <= now',
           UNCHANGED <<at, sent, twice, overlapped, unrecorded, current, found>>,
           \A m \in Msg : born[m] # Never => born'[m] = born[m],
           \A m \in Msg : releases'[m] = releases[m]
                        \/ (releases'[m] = Never /\ releases[m] + 2 * Day < now)
    PROVE  OnceInv'
<1> USE DEF ReportsTypeOK, ReportsAssumption, OnceInv
<1>1. ReportedOnce'
  BY DEF ReportedOnce
<1>2. ASSUME NEW m \in Msg, m \in Recorded  PROVE born'[m] = born[m] /\ born[m] <= releases[m]
  BY <1>2 DEF Recorded
<1>3. \A m \in Recorded' : m \in Recorded /\ releases'[m] = releases[m]
  BY DEF Recorded
<1>4. \A m \in Recorded' : born'[m] <= releases'[m]
  BY <1>2, <1>3 DEF Recorded
<1>5. ASSUME NEW m \in Msg, OnRecord(m)  PROVE OnRecord(m)'
  <2>1. CASE m \in Recorded
    BY <1>2, <2>1 DEF OnRecord, Recorded
  <2>2. CASE born[m] + Day < now
    BY <2>2 DEF OnRecord
  <2>3. CASE \E r \in Runner : at[r] = "commit" /\ m \in found[r]
    BY <2>3 DEF OnRecord
  <2> QED  BY <1>5, <2>1, <2>2, <2>3 DEF OnRecord
<1> QED  BY <1>1, <1>4, <1>5 DEF Running, Again, Pairs

LEMMA OnceStep ==
    ASSUME ReportsAssumption, ReportsTypeOK, RunInv, OnceInv, ReportsNext
    PROVE  OnceInv'
<1> USE DEF ReportsTypeOK, ReportsAssumption, RunInv, OnceInv, ReportedOnce, OnRecord,
            Again, Recorded, Running, Shown
<1>0. ReportsTypeOK'
  BY ReportsTypeStep
<1>1. ASSUME NEW m \in Msg, Quarantined(m)  PROVE OnceInv'
  <2>1. /\ now <= now'
        /\ UNCHANGED <<at, sent, twice, overlapped, unrecorded, current, found>>
    BY <1>1 DEF Quarantined
  <2>2. \A k \in Msg : born[k] # Never => born'[k] = born[k]
    BY <1>1 DEF Quarantined
  <2>3. \A k \in Msg : releases'[k] = releases[k]
                     \/ (releases'[k] = Never /\ releases[k] + 2 * Day < now)
    BY <1>1 DEF Quarantined
  <2> QED  BY <1>0, <2>1, <2>2, <2>3, OnceFrame
<1>2. CASE Pass
  <2>1. /\ now <= now'
        /\ UNCHANGED <<at, sent, twice, overlapped, unrecorded, current, found>>
    BY <1>2 DEF Pass
  <2>2. \A m \in Msg : born[m] # Never => born'[m] = born[m]
    BY <1>2 DEF Pass
  <2>3. \A m \in Msg : releases'[m] = releases[m]
                     \/ (releases'[m] = Never /\ releases[m] + 2 * Day < now)
    BY <1>2 DEF Pass
  <2> QED  BY <1>0, <2>1, <2>2, <2>3, OnceFrame
<1>3. CASE PruneReleases
  <2>1. /\ now <= now'
        /\ UNCHANGED <<at, sent, twice, overlapped, unrecorded, current, found>>
    BY <1>3 DEF PruneReleases
  <2>2. \A m \in Msg : born[m] # Never => born'[m] = born[m]
    BY <1>3 DEF PruneReleases
  <2>3. \A m \in Msg : releases'[m] = releases[m]
                     \/ (releases'[m] = Never /\ releases[m] + 2 * Day < now)
    BY <1>3 DEF PruneReleases
  <2> QED  BY <1>0, <2>1, <2>2, <2>3, OnceFrame
<1>4. ASSUME NEW n \in Node, Launch(n)  PROVE OnceInv'
  <2>1. UNCHANGED <<now, born, sent, twice, unrecorded, releases, current, found>>
    BY <1>4 DEF Launch, Starts
  <2>2. overlapped' = (overlapped \/ Running # {}) /\ at' = [at EXCEPT ![n] = "users"]
    BY <1>4 DEF Launch, Starts
  <2>3. ReportedOnce' /\ \A m \in Recorded' : born'[m] <= releases'[m]
    BY <2>1, <2>2
  <2>4. CASE overlapped'
    BY <2>3, <2>4
  <2>5. CASE ~overlapped'
    <3>0. Running = {} /\ n \in Runner
      BY <2>2, <2>5
    <3>1. Running = {} /\ Running' = {n}
      <4>1. \A q \in Runner : at[q] = "idle"
        BY <3>0
      <4>2. at'[n] = "users" /\ \A q \in Runner \ {n} : at'[q] = "idle"
        BY <2>2, <3>0, <4>1
      <4> HIDE DEF Runner
      <4> QED  BY <3>0, <4>2
    <3>2. \A p \in sent : p[1] \in Plain /\ p[2] \notin unrecorded =>
              p[2] \in Recorded \/ born[p[2]] + Day < now
      BY <2>2, <2>5, <3>1
    <3> QED  BY <2>1, <2>2, <2>3, <3>1, <3>2
  <2> QED  BY <2>4, <2>5
<1>5. ASSUME NEW n \in Node, Refused(n)  PROVE OnceInv'
  <2>1. /\ now <= now'
        /\ UNCHANGED <<at, sent, twice, overlapped, unrecorded, current, found>>
    BY <1>5 DEF Refused
  <2>2. \A m \in Msg : born[m] # Never => born'[m] = born[m]
    BY <1>5 DEF Refused
  <2>3. \A m \in Msg : releases'[m] = releases[m]
                     \/ (releases'[m] = Never /\ releases[m] + 2 * Day < now)
    BY <1>5 DEF Refused
  <2> QED  BY <1>0, <2>1, <2>2, <2>3, OnceFrame
<1>6. CASE ByHand
  <2>1. UNCHANGED <<now, born, sent, twice, unrecorded, releases, current, found>>
    BY <1>6 DEF ByHand, Starts
  <2>2. overlapped' = (overlapped \/ Running # {}) /\ at' = [at EXCEPT ![Manual] = "users"]
    BY <1>6 DEF ByHand, Starts
  <2>3. ReportedOnce' /\ \A m \in Recorded' : born'[m] <= releases'[m]
    BY <2>1, <2>2
  <2>4. CASE overlapped'
    BY <2>3, <2>4
  <2>5. CASE ~overlapped'
    <3>0. Running = {} /\ Manual \in Runner
      BY <2>2, <2>5
    <3>1. Running = {} /\ Running' = {Manual}
      <4>1. \A q \in Runner : at[q] = "idle"
        BY <3>0
      <4>2. at'[Manual] = "users" /\ \A q \in Runner \ {Manual} : at'[q] = "idle"
        BY <2>2, <3>0, <4>1
      <4> HIDE DEF Runner
      <4> QED  BY <3>0, <4>2
    <3>2. \A p \in sent : p[1] \in Plain /\ p[2] \notin unrecorded =>
              p[2] \in Recorded \/ born[p[2]] + Day < now
      BY <2>2, <2>5, <3>1
    <3> QED  BY <2>1, <2>2, <2>3, <3>1, <3>2
  <2> QED  BY <2>4, <2>5
<1>7. ASSUME NEW r \in Runner, NEW u \in Recipient, process_report(r, u)  PROVE OnceInv'
  <2>1. PICK S \in SUBSET Msg :
            /\ S \subseteq Wanted(u)
            /\ found' = [found EXCEPT ![r] = S]
            /\ current' = [current EXCEPT ![r] = {u}]
            /\ at' = [at EXCEPT ![r] = IF S = {} THEN "users" ELSE "send"]
    BY <1>7 DEF process_report, Newest
  <2>2. at[r] = "users" /\ UNCHANGED <<now, born, sent, twice, unrecorded, releases, overlapped>>
    BY <1>7 DEF process_report, Next1
  <2>3. ReportedOnce' /\ \A m \in Recorded' : born'[m] <= releases'[m]
    BY <2>2
  <2>4. CASE overlapped
    BY <2>2, <2>3, <2>4
  <2>5. CASE ~overlapped
    <3>1. Running = {r} /\ Running' = {r}
      BY <2>1, <2>2, <2>5
    <3>2. ASSUME NEW m \in S  PROVE ~OnRecord(m)
      BY <2>1, <2>2, <3>1 DEF Wanted, Window
    <3>3. \A p \in sent : p[1] \in Plain /\ p[2] \notin unrecorded =>
              p[2] \in Recorded \/ born[p[2]] + Day < now
      BY <2>2, <2>5, <3>1
    <3>4. \A p \in sent : p[2] \in S /\ p[1] \in Plain => p[2] \in unrecorded
      BY <3>2, <3>3
    <3>5. \A q \in Runner \ {r} : at'[q] = "idle"
      BY <3>1
    <3>6. \A p \in Again(r)' : p \in sent /\ p[2] \in S
      BY <2>1, <2>2 DEF Pairs
    <3> QED  BY <2>2, <2>3, <2>5, <3>1, <3>3, <3>4, <3>5, <3>6
  <2> QED  BY <2>4, <2>5
<1>8. ASSUME NEW r \in Runner, SendMail(r)  PROVE OnceInv'
  BY <1>8 DEF SendMail, Pairs
<1>9. ASSUME NEW r \in Runner, SendFails(r)  PROVE OnceInv'
  BY <1>9 DEF SendFails, Pairs
<1>10. ASSUME NEW r \in Runner, CommitReleases(r)  PROVE OnceInv'
  BY <1>10 DEF CommitReleases
<1>11. ASSUME NEW r \in Runner, NEW u \in Recipient, SendPdf(r, u)  PROVE OnceInv'
  BY <1>11 DEF SendPdf, Next1, Taken
<1>12. ASSUME NEW r \in Runner, NEW d \in ReportedDomain, SendDomainReport(r, d)  PROVE OnceInv'
  BY <1>12 DEF SendDomainReport, Next1, Taken
<1>13. ASSUME NEW r \in Runner, NEW u \in Recipient, PdfRaises(r, u)  PROVE OnceInv'
  BY <1>13 DEF PdfRaises, Next1, Finally, Stops
<1>14. ASSUME NEW r \in Runner, Finish(r)  PROVE OnceInv'
  BY <1>14 DEF Finish, Finally, Stops
<1>15. ASSUME NEW r \in Runner, KillReport(r)  PROVE OnceInv'
  BY <1>15 DEF KillReport, Stops
<1>16. CASE LockLost
  <2>1. /\ now <= now'
        /\ UNCHANGED <<at, sent, twice, overlapped, unrecorded, current, found>>
    BY <1>16 DEF LockLost
  <2>2. \A m \in Msg : born[m] # Never => born'[m] = born[m]
    BY <1>16 DEF LockLost
  <2>3. \A m \in Msg : releases'[m] = releases[m]
                     \/ (releases'[m] = Never /\ releases[m] + 2 * Day < now)
    BY <1>16 DEF LockLost
  <2> QED  BY <1>0, <2>1, <2>2, <2>3, OnceFrame
<1> QED
  BY <1>1, <1>2, <1>3, <1>4, <1>5, <1>6, <1>7, <1>8,
     <1>9, <1>10, <1>11, <1>12, <1>13, <1>14, <1>15, <1>16
  DEF ReportsNext, ReportStep

LEMMA Hours ==
    ASSUME NEW t \in Nat
    PROVE  /\ t % 2 = 0 => 2 * (t \div 2) = t /\ (t + 1) \div 2 = t \div 2
           /\ t % 2 # 0 => /\ 2 * (t \div 2) = t - 1 /\ (t + 1) \div 2 = (t \div 2) + 1
                           /\ ((t \div 2) + 1) % 2 = 1 - ((t \div 2) % 2)
           /\ (t \div 2) % 2 \in {0, 1}
<1> DEFINE h == t \div 2
<1>1. h \in Nat /\ (t = 2 * h \/ t = 2 * h + 1)
  OBVIOUS
<1>2. t % 2 = 0 <=> t = 2 * h
  BY <1>1
<1>3. (h + 1) % 2 = 1 - (h % 2) /\ h % 2 \in {0, 1}
  BY <1>1
<1> HIDE DEF h
<1>4. t = 2 * h => (t + 1) \div 2 = h
  BY <1>1
<1>5. t = 2 * h + 1 => (t + 1) \div 2 = h + 1
  BY <1>1
<1> QED  BY <1>1, <1>2, <1>3, <1>4, <1>5 DEF h

LEMMA SeenStep ==
    ASSUME ReportsAssumption, ReportsTypeOK, RunInv, HourInv, SeenInv, ReportsNext
    PROVE  SeenInv'
<1> USE DEF ReportsTypeOK, ReportsAssumption, RunInv, SeenInv, Looked, SettledBefore,
            Settled, InHand, Shown, HourStart, Running, Due, Hour, First
<1>1. ASSUME NEW m \in Msg, Quarantined(m)  PROVE SeenInv'
  BY <1>1 DEF Quarantined
<1>2. CASE Pass
  <2> SUFFICES ASSUME command' = "quarantinereportsng", NEW u \in Recipient
             PROVE  /\ \A m \in Shown(u)' : born'[m] < last'[u] => Settled(u, m)' \/ InHand(u, m)'
                    /\ Due(u)' => Looked(u)'
                    /\ ~Due(u)' => SettledBefore(u, HourStart - 2)'
    OBVIOUS
  <2>1. /\ now' = now + 1 /\ now \in Nat /\ launched = Node
        /\ UNCHANGED <<command, born, run, sent, twice, releases, last>>
        /\ excused \subseteq excused'
    BY <1>2 DEF Pass
  <2>2. \A m \in Shown(u)' : born'[m] < last'[u] => Settled(u, m)' \/ InHand(u, m)'
    BY <2>1
  <2>3. CASE First(now)
    <3>1. UNCHANGED <<launched, excused, disturbed>>
      BY <1>2, <2>3 DEF Pass
    <3>2. HourStart' = HourStart /\ (Due(u)' <=> Due(u))
      BY <2>1, <2>3, Hours
    <3> HIDE DEF HourStart, Due
    <3> QED  BY <2>1, <2>2, <3>1, <3>2
  <2>4. CASE ~First(now)
    <3>1. HourStart = now - 1 /\ HourStart' = now + 1 /\ (Due(u)' <=> ~Due(u))
      BY <2>1, <2>4, Hours
    <3> HIDE DEF HourStart
    <3>2. launched' = {} /\ Running = {}
      BY <1>2, <2>4 DEF Pass
    <3>3. CASE Due(u)'
      BY <2>2, <3>2, <3>3
    <3>4. CASE ~Due(u)'
      <4>1. \A m \in Shown(u) : born[m] < now - 1 => Settled(u, m)'
        <5>1. CASE last[u] >= now - 1
          BY <2>1, <3>2, <5>1
        <5>2. CASE last[u] < now - 1 /\ disturbed
          <6>1. \A m \in Shown(u) : <<u, m>> \in excused'
            BY <1>2, <2>4, <3>1, <3>4, <5>2 DEF Pass, Unserved
          <6> QED  BY <2>1, <6>1
        <5>3. CASE last[u] < now - 1 /\ ~disturbed
          <6>1. Looked(u) /\ launched # {}
            BY <2>1, <3>1, <3>4
          <6>2. \A m \in Shown(u) : born[m] < now - 1 => Settled(u, m)
            BY <3>1, <3>2, <5>3, <6>1
          <6> QED  BY <2>1, <6>2
        <5> QED  BY <2>1, <5>1, <5>2, <5>3
      <4>2. SettledBefore(u, HourStart - 2)'
        BY <2>1, <3>1, <4>1
      <4> QED  BY <2>2, <3>4, <4>2
    <3> QED  BY <3>3, <3>4
  <2> QED  BY <2>3, <2>4
<1>3. CASE PruneReleases
  BY <1>3 DEF PruneReleases
<1>4. ASSUME NEW n \in Node, Launch(n)  PROVE SeenInv'
  BY <1>4 DEF Launch, Starts, Types
<1>5. ASSUME NEW n \in Node, Refused(n)  PROVE SeenInv'
  <2>1. launched' = launched \cup {n} /\ lock[command] = "held" /\ First(now)
    BY <1>5 DEF Refused
  <2>2. UNCHANGED <<command, now, born, run, outcome, history>>
    BY <1>5 DEF Refused
  <2>3. disturbed \/ launched # {}
    BY <2>1 DEF HourInv
  <2> QED  BY <2>1, <2>2, <2>3
<1>6. CASE ByHand
  BY <1>6 DEF ByHand, Starts, Types
<1>7. ASSUME NEW r \in Runner, NEW u \in Recipient, process_report(r, u)  PROVE SeenInv'
  BY <1>7 DEF process_report, Next1, Taken, Newest, Wanted, Window, LeftOut
<1>8. ASSUME NEW r \in Runner, SendMail(r)  PROVE SeenInv'
  BY <1>8 DEF SendMail, Pairs
<1>9. ASSUME NEW r \in Runner, SendFails(r)  PROVE SeenInv'
  BY <1>9 DEF SendFails, Pairs
<1>10. ASSUME NEW r \in Runner, CommitReleases(r)  PROVE SeenInv'
  BY <1>10 DEF CommitReleases
<1>11. ASSUME NEW r \in Runner, NEW u \in Recipient, SendPdf(r, u)  PROVE SeenInv'
  BY <1>11 DEF SendPdf, Next1, Taken
<1>12. ASSUME NEW r \in Runner, NEW d \in ReportedDomain, SendDomainReport(r, d)  PROVE SeenInv'
  BY <1>12 DEF SendDomainReport, Next1, Taken
<1>13. ASSUME NEW r \in Runner, NEW u \in Recipient, PdfRaises(r, u)  PROVE SeenInv'
  BY <1>13 DEF PdfRaises, Next1, Finally, Stops
<1>14. ASSUME NEW r \in Runner, Finish(r)  PROVE SeenInv'
  <2>1. \A u \in todo[r] : ~Due(u)
    BY <1>14 DEF Finish, Served
  <2>2. at[r] = "users" /\ at' = [at EXCEPT ![r] = "idle"] /\ todo' = [todo EXCEPT ![r] = {}]
    BY <1>14 DEF Finish, Finally, Stops
  <2>3. \A q \in Runner \ {r} : current'[q] = current[q] /\ found'[q] = found[q]
    BY <1>14 DEF Finish, Finally, Stops
  <2>4. UNCHANGED <<command, clock, outcome, history>>
    BY <1>14 DEF Finish
  <2> QED  BY <2>1, <2>2, <2>3, <2>4
<1>15. ASSUME NEW r \in Runner, KillReport(r)  PROVE SeenInv'
  BY <1>15 DEF KillReport, Stops
<1>16. CASE LockLost
  BY <1>16 DEF LockLost
<1> QED
  BY <1>1, <1>2, <1>3, <1>4, <1>5, <1>6, <1>7, <1>8,
     <1>9, <1>10, <1>11, <1>12, <1>13, <1>14, <1>15, <1>16
  DEF ReportsNext, ReportStep

LEMMA ReportsInductive == ASSUME ReportsAssumption PROVE ReportsSpec => []ReportsInv
<1>1. ReportsInit => ReportsInv
  <2> SUFFICES ASSUME ReportsInit PROVE ReportsInv
    OBVIOUS
  <2> USE DEF ReportsInit, ReportsAssumption
  <2>1. ReportsTypeOK
    <3>1. LockTypeOK /\ command \in Command /\ faults \in 0..MaxFaults
      OBVIOUS
    <3>2. now \in Tick /\ born \in [Msg -> 0..Never] /\ releases \in [Msg -> 0..Never]
      OBVIOUS
    <3>3. /\ at \in [Runner -> {"idle", "users", "send", "commit"}] /\ launched \subseteq Node
          /\ todo \in [Runner -> SUBSET Target] /\ force \in [Runner -> BOOLEAN]
          /\ current \in [Runner -> SUBSET Recipient] /\ found \in [Runner -> SUBSET Msg]
      OBVIOUS
    <3>4. mailed \in [Target -> Nat] /\ last \in [Recipient -> Tick]
      OBVIOUS
    <3>5. /\ sent = {} /\ twice = {} /\ excused = {} /\ unrecorded = {}
          /\ disturbed = FALSE /\ overlapped = FALSE
      OBVIOUS
    <3> HIDE DEF Runner, Target, Tick, Never, Command, LockTypeOK, ReportsInit
    <3> QED  BY <3>1, <3>2, <3>3, <3>4, <3>5 DEF ReportsTypeOK
  <2>2. RunInv /\ HourInv
    BY DEF RunInv, HourInv, Running
  <2>3. OnceInv
    BY DEF OnceInv, ReportedOnce, Recorded, Running
  <2>4. now = 0 /\ last = [u \in Recipient |-> 0] /\ launched = {} /\ HourStart = 0
    BY DEF HourStart
  <2>5. \A m \in Msg : born[m] = Never
    OBVIOUS
  <2>6. SeenInv
    BY <2>4, <2>5 DEF SeenInv, Looked, SettledBefore, Shown
  <2> QED  BY <2>1, <2>2, <2>3, <2>6 DEF ReportsInv
<1>2. ReportsInv /\ [ReportsNext]_reportVars => ReportsInv'
  <2> SUFFICES ASSUME ReportsInv, [ReportsNext]_reportVars PROVE ReportsInv'
    OBVIOUS
  <2>1. CASE ReportsNext
    BY <2>1, ReportsTypeStep, RunStep, HourStep, OnceStep, SeenStep DEF ReportsInv
  <2>2. CASE UNCHANGED reportVars
    <3>1. ReportsTypeOK' /\ RunInv'
      BY <2>2 DEF ReportsInv, ReportsTypeOK, RunInv
    <3>2. HourInv'
      BY <2>2 DEF ReportsInv, HourInv, Running, First
    <3>3. OnceInv'
      BY <2>2 DEF ReportsInv, OnceInv, ReportedOnce, OnRecord, Again, Pairs, Recorded, Running
    <3>4. SeenInv'
      BY <2>2 DEF ReportsInv, SeenInv, Looked, SettledBefore, Settled, InHand, Shown,
                  HourStart, Due, Hour
    <3> QED  BY <3>1, <3>2, <3>3, <3>4 DEF ReportsInv
  <2> QED  BY <2>1, <2>2
<1> QED  BY <1>1, <1>2, PTL DEF ReportsSpec

(* The variables have their types.                                           *)
THEOREM ReportsTypeCorrect == ASSUME ReportsAssumption PROVE ReportsSpec => []ReportsTypeOK
<1>1. ReportsInv => ReportsTypeOK
  BY DEF ReportsInv
<1> QED  BY <1>1, ReportsInductive, PTL

(* However many nodes have the same cron: nobody is sent two reports in an   *)
(* hour that was left alone (cache.py:49-51, quarantinereportsng.py:294,     *)
(* pdfreportsng.py:532).                                                     *)
THEOREM NodesSendOnce == ASSUME ReportsAssumption PROVE ReportsSpec => []OneReportAnHour
<1>1. ReportsInv => OneReportAnHour
  BY DEF ReportsInv, HourInv, OneReportAnHour
<1> QED  BY <1>1, ReportsInductive, PTL

(* A user who has releases is shown no message twice, but for overlapping    *)
(* runs and for a run that was killed before its commit                      *)
(* (quarantinereportsng.py:141-144, 180).                                    *)
THEOREM MessagesAreShownOnce == ASSUME ReportsAssumption PROVE ReportsSpec => []ReportedOnce
<1>1. ReportsInv => ReportedOnce
  BY DEF ReportsInv, OnceInv
<1> QED  BY <1>1, ReportsInductive, PTL

(* Whatever is quarantined at whatever time, for any hours of the users: no  *)
(* message falls out of the 24 hours unseen, but for the reasons that are    *)
(* listed at process_report (quarantinereportsng.py:149-179).                *)
THEOREM NoneFallsOutUnseen == ASSUME ReportsAssumption PROVE ReportsSpec => []ReportedOrExcused
<1>1. ASSUME ReportsInv  PROVE ReportedOrExcused
  <2> SUFFICES ASSUME command = "quarantinereportsng", NEW u \in Recipient, NEW m \in Shown(u),
                      born[m] + Day < now, ~Due(u)
               PROVE  <<u, m>> \in sent \cup excused
    BY DEF ReportedOrExcused, Shown
  <2>1. m \in Msg /\ born[m] \in Nat /\ now \in Nat
    BY <1>1 DEF ReportsInv, ReportsTypeOK, ReportsAssumption, Shown
  <2>2. born[m] < HourStart - 2
    BY <2>1, Hours DEF HourStart
  <2>3. SettledBefore(u, HourStart - 2)
    BY <1>1 DEF ReportsInv, SeenInv
  <2> QED  BY <2>2, <2>3 DEF SettledBefore, Settled
<1> QED  BY <1>1, ReportsInductive, PTL

-----------------------------------------------------------------------------
(* Together: each part goes by its own specification in Services too.        *)

LEMMA ServicesSteps ==
    ASSUME [ServicesNext]_servicesVars
    PROVE  /\ [ReportsNext]_reportVars /\ [LoginNext]_loginVars
           /\ [SignaturesNext]_signatureVars /\ [SearchNext]_searchVars
           /\ [ViewsNext]_viewsVars /\ [TotalsNext]_totalsVars /\ [FiltersNext]_filtersVars
  BY DEF ServicesNext, servicesVars, ReportsActs, LoginActs, SignaturesActs,
         SearchActs, ViewsActs, TotalsActs, FiltersActs

(* Whichever part a behaviour is about, for any values of the constants of   *)
(* all: its state stays within its types (the code of every part).           *)
THEOREM ServicesTypeCorrect ==
    ASSUME ServicesAssumption PROVE ServicesSpec => []ServicesTypeOK
<1> USE DEF ServicesAssumption
<1>1. ServicesInit => /\ ReportsInit /\ LoginInit /\ SignaturesInit /\ SearchInit
                      /\ ViewsInit /\ TotalsInit /\ FiltersInit
  BY DEF ServicesInit
<1>2. ServicesSpec => /\ ReportsSpec /\ LoginSpec /\ SignaturesSpec /\ SearchSpec
                      /\ ViewsSpec /\ TotalsSpec /\ FiltersSpec
  BY <1>1, ServicesSteps, PTL
     DEF ServicesSpec, ReportsSpec, LoginSpec, SignaturesSpec, SearchSpec, ViewsSpec,
         TotalsSpec, FiltersSpec
<1>3. /\ ReportsSpec => []ReportsTypeOK
      /\ LoginSpec => []LoginTypeOK
      /\ SignaturesSpec => []SignaturesTypeOK
      /\ SearchSpec => []SearchTypeOK
      /\ ViewsSpec => []ViewsTypeOK
      /\ TotalsSpec => []TotalsTypeOK
      /\ FiltersSpec => []FiltersTypeOK
  BY ReportsTypeCorrect, LoginTypeCorrect, SignaturesTypeCorrect, SearchTypeCorrect,
     ViewsTypeCorrect, TotalsTypeCorrect, FiltersTypeCorrect
<1>4. /\ ReportsTypeOK /\ LoginTypeOK /\ SignaturesTypeOK /\ SearchTypeOK
      /\ ViewsTypeOK /\ TotalsTypeOK /\ FiltersTypeOK
      => ServicesTypeOK
  BY DEF ServicesTypeOK
<1> QED  BY <1>2, <1>3, <1>4, PTL
=============================================================================
