------------------------------ MODULE ListsProofs ------------------------------
(***************************************************************************)
(* Theorems about what lists and reports go by: Totals, for any messages   *)
(* and names, whatever domains come and go while messages are logged and   *)
(* deleted, and Filters, for any filters and tabs.                         *)
(***************************************************************************)
EXTENDS Totals, Filters, FiniteSetTheorems, SequenceTheorems, WellFoundedInduction, TLAPS

-----------------------------------------------------------------------------
(* The invariant                                                             *)

NameOf(side, m) == IF side = "srcmsgtotals" THEN Src[m] ELSE Dst[m]
RowOf(side, m) == <<side, NameOf(side, m)>>
Posting(side, m, part) == [row |-> RowOf(side, m), part |-> part]
Items(t) == {t[i] : i \in 1 .. Len(t)}

(* The messages among S that a row counts, and the halves that it has of     *)
(* them when D are the names in the tables.                                  *)
On(S, r) == {m \in S : r[2] = NameOf(r[1], m)}
PartIn(D, side, m) ==
    IF NameOf(side, m) \notin D THEN IF side = "dstmsgtotals" /\ Src[m] \notin D THEN 2 ELSE 0
    ELSE IF {Src[m], Dst[m]} \subseteq D THEN 1 ELSE 2
Parts(D, S, r) ==
    Cardinality({m \in On(S, r) : PartIn(D, r[1], m) >= 1})
    + Cardinality({m \in On(S, r) : PartIn(D, r[1], m) = 2})

(* No name that the mail of n is about came or went.                         *)
Calm(n) == \A m \in Mail : n \in {Src[m], Dst[m]} => {Src[m], Dst[m]} \cap touched = {}

Signed(w, x) == IF w = Cleaner THEN -x ELSE x
Opened(w) == batch[w] \ left[w]
Rest(t) == IF t = <<>> THEN 0 ELSE IF Len(t) = 1 THEN t[1].part ELSE t[1].part + t[2].part
Added(w) == [r \in Totals |-> adds[w][r].runtotal]

(* A transaction has yet to change the rows of its last message, or one of   *)
(* them, and has changed those of the others.                                *)
OwedInv(w) ==
    owed[w] # <<>> =>
        \E m \in Opened(w), p \in 0 .. 2 :
            /\ \/ owed[w] = <<Posting("srcmsgtotals", m, p), Posting("dstmsgtotals", m, 2 - p)>>
               \/ owed[w] = <<Posting("dstmsgtotals", m, 2 - p)>>
            /\ Calm(Src[m]) \/ Calm(Dst[m]) => p = PartIn(current_domains, "srcmsgtotals", m)
AddsInv(w) ==
    \A r \in Totals :
        /\ (\A e \in Items(owed[w]) : e.row # r) =>
            /\ adds[w][r].total = Signed(w, Cardinality(On(Opened(w), r)))
            /\ Calm(r[2]) => adds[w][r].runtotal =
                                Signed(w, Parts(current_domains, Opened(w), r))
        /\ \A e \in Items(owed[w]) : e.row = r =>
            /\ adds[w][r].total = Signed(w, Cardinality(On(Opened(w), r)) - 1)
            /\ Calm(r[2]) => adds[w][r].runtotal =
                                Signed(w, Parts(current_domains, Opened(w), r) - e.part)
        /\ r \notin held[w] => adds[w][r] = Zero[r]
HeldInv(w) ==
    \A m \in Opened(w), side \in {"srcmsgtotals", "dstmsgtotals"} :
        RowOf(side, m) \in held[w] \cup {e.row : e \in Items(owed[w])}
AddedInv(w) ==
    SumFunctionOnSet(Added(w), Totals) =
        Signed(w, 2 * Cardinality(Opened(w)) - Rest(owed[w]))
OwnInv(w) ==
    /\ left[w] \subseteq batch[w] /\ (inserts[w] => owed[w] # <<>>)
    /\ OwedInv(w) /\ AddsInv(w) /\ HeldInv(w) /\ AddedInv(w)
BatchInv(w) ==
    batch[w] \subseteq IF w = Cleaner THEN messages ELSE {w} \ (messages \cup deleted)

(* What is committed.                                                        *)
RowsInv ==
    /\ \A m \in messages, side \in {"srcmsgtotals", "dstmsgtotals"} : RowOf(side, m) \in rows
    /\ \A r \in Totals :
        /\ totals[r].total = Cardinality(On(messages, r))
        /\ Calm(r[2]) => totals[r].runtotal = Parts(current_domains, messages, r)
        /\ r \notin rows => totals[r] = Zero[r]
    /\ SumFunctionOnSet(runtotal, Totals) = 2 * Cardinality(messages)
TotalsInv == TotalsTypeOK /\ RowsInv /\ \A w \in Writer : OwnInv(w) /\ BatchInv(w)

-----------------------------------------------------------------------------
(* Sums over finite sets                                                     *)

LEMMA Less == OpToRel(<, Nat) = {ss \in Nat \X Nat : ss[1] < ss[2]}
  BY Zenon DEF OpToRel
LEMMA NatMin == ASSUME NEW T \in SUBSET Nat, T # {} PROVE \E n \in T : \A m \in T : n <= m
<1> DEFINE L == {ss \in Nat \X Nat : ss[1] < ss[2]}
<1>0. IsWellFoundedOn(L, Nat)
  BY NatLessThanWellFounded, Less
<1>1. \E n \in T : \A m \in T : ~ (<<m, n>> \in L)
  BY <1>0, WFMin, Zenon
<1>2. \A n, m \in T : ~ (<<m, n>> \in L) => n <= m
  OBVIOUS
<1> QED BY <1>1, <1>2

LEMMA CountDisjoint ==
    ASSUME NEW S, NEW T, IsFiniteSet(S), IsFiniteSet(T), S \cap T = {}
    PROVE  IsFiniteSet(S \cup T) /\ Cardinality(S \cup T) = Cardinality(S) + Cardinality(T)
<1>1. IsFiniteSet(S \cup T)
      /\ Cardinality(S \cup T) = Cardinality(S) + Cardinality(T) - Cardinality(S \cap T)
  BY FS_Union
<1>2. Cardinality(S \cap T) = 0 BY FS_EmptySet
<1> QED BY <1>1, <1>2, FS_CardinalityType

LEMMA SetInduction ==
    ASSUME NEW R, IsFiniteSet(R), NEW Good,
           \A A \in SUBSET R : (\A B \in SUBSET A : B # A => B \in Good) => A \in Good
    PROVE  R \in Good
<1> DEFINE Bad == {A \in SUBSET R : A \notin Good}
           T == {Cardinality(A) : A \in Bad}
<1>1. ASSUME Bad # {} PROVE FALSE
  <2>1. T \in SUBSET Nat /\ T # {}
    BY <1>1, FS_Subset, FS_CardinalityType
  <2>2. PICK n \in T : \A m \in T : n <= m
    BY <2>1, NatMin
  <2>3. PICK A \in Bad : n = Cardinality(A)
    BY <2>2
  <2>4. ASSUME NEW B \in SUBSET A, B # A PROVE B \in Good
    <3>1. IsFiniteSet(A) /\ IsFiniteSet(B)
      BY FS_Subset
    <3>2. Cardinality(B) < Cardinality(A)
      BY <2>4, <3>1, FS_Subset, FS_CardinalityType
    <3>3. B \in Bad => Cardinality(A) <= Cardinality(B)
      BY <2>2, <2>3
    <3> QED BY <3>1, <3>2, <3>3, FS_CardinalityType
  <2> QED BY <2>3, <2>4
<1> QED BY <1>1

Chosen(A) == CHOOSE x \in A : TRUE
Adds(f, h, A) == IF A = {} THEN 0 ELSE f[Chosen(A)] + h[A \ {Chosen(A)}]
Iter(f, D) == CHOOSE h : h = [A \in D |-> Adds(f, h, A)]

LEMMA IterRec ==
    ASSUME NEW f, NEW R, IsFiniteSet(R)
    PROVE  \A A \in SUBSET R : Iter(f, SUBSET R)[A] =
                IF A = {} THEN 0 ELSE f[Chosen(A)] + Iter(f, SUBSET R)[A \ {Chosen(A)}]
<1> DEFINE D(n) == {A \in SUBSET R : Cardinality(A) <= n}
           Has(n) == \E h : h = [A \in D(n) |-> Adds(f, h, A)]
           T == {n \in Nat : ~ Has(n)}
<1>0. \A A \in SUBSET R : IsFiniteSet(A) /\ Cardinality(A) \in Nat /\ Cardinality(A) <= Cardinality(R)
  BY FS_Subset, FS_CardinalityType
<1>1. ASSUME T # {} PROVE FALSE
  <2>1. PICK n \in T : \A m \in T : n <= m
    BY <1>1, NatMin
  <2>2. n # 0
    <3> SUFFICES Has(0) BY <2>1
    <3> DEFINE h == [A \in D(0) |-> 0]
    <3>1. h = [A \in D(0) |-> Adds(f, h, A)]
      BY <1>0, FS_EmptySet DEF Adds
    <3> QED BY <3>1
  <2>3. n - 1 \in Nat /\ Has(n-1)
    <3> HIDE DEF Has
    <3>1. n \in Nat /\ n - 1 \in Nat
      BY <2>2
    <3>2. n - 1 \notin T
      BY <2>1, <3>1
    <3> QED BY <3>1, <3>2
  <2>4. PICK g : g = [A \in D(n-1) |-> Adds(f, g, A)]
    BY <2>3
  <2> DEFINE h == [A \in D(n) |-> Adds(f, g, A)]
  <2>5. ASSUME NEW A \in D(n), A # {} PROVE h[A \ {Chosen(A)}] = g[A \ {Chosen(A)}]
    <3> DEFINE B == A \ {Chosen(A)}
    <3>1. Chosen(A) \in A BY <2>5 DEF Chosen
    <3>2. Cardinality(B) = Cardinality(A) - 1
      BY <1>0, <3>1, FS_RemoveElement
    <3>3. B \in D(n-1) /\ B \in D(n)
      BY <1>0, <2>3, <3>2
    <3>4. h[B] = Adds(f, g, B) /\ g[B] = Adds(f, g, B)
      BY <2>4, <3>3
    <3> QED BY <3>4
  <2>6. \A A \in D(n) : Adds(f, h, A) = Adds(f, g, A)
    <3> TAKE A \in D(n)
    <3> HIDE DEF h
    <3>1. CASE A = {}  BY <3>1 DEF Adds
    <3>2. CASE A # {}  BY <3>2, <2>5 DEF Adds
    <3> QED BY <3>1, <3>2
  <2>7. h = [A \in D(n) |-> Adds(f, h, A)]
    BY <2>6
  <2>8. Has(n) BY <2>7
  <2> QED BY <2>1, <2>8
<1>2. Has(Cardinality(R))
  BY <1>1, FS_CardinalityType
<1>3. D(Cardinality(R)) = SUBSET R
  BY <1>0
<1>4. \E h : h = [A \in SUBSET R |-> Adds(f, h, A)]
  BY <1>2, <1>3
<1> DEFINE h == Iter(f, SUBSET R)
<1>5. h = [A \in SUBSET R |-> Adds(f, h, A)]
  BY <1>4, Zenon DEF Iter
<1> HIDE DEF h
<1>6. \A A \in SUBSET R : h[A] = Adds(f, h, A)
  BY <1>5
<1> QED BY <1>6, Zenon DEF Adds, h

LEMMA SumIter == ASSUME NEW f, NEW R PROVE SumFunctionOnSet(f, R) = Iter(f, SUBSET R)[R]
  BY DEF SumFunctionOnSet, FoldFunctionOnSet, MapThenFoldSet, Iter, Adds, Chosen

LEMMA SumEmpty == ASSUME NEW f PROVE SumFunctionOnSet(f, {}) = 0
<1>1. IsFiniteSet({}) /\ {} \in SUBSET {} BY FS_EmptySet
<1>2. Iter(f, SUBSET {})[{}] = 0 BY <1>1, IterRec
<1> QED BY <1>2, SumIter

(* The iterations over a set and over a subset of it agree where both are.   *)
LEMMA IterSame ==
    ASSUME NEW f, NEW R, IsFiniteSet(R), NEW Q \in SUBSET R
    PROVE  Iter(f, SUBSET R)[Q] = Iter(f, SUBSET Q)[Q]
<1> DEFINE h == Iter(f, SUBSET R)
           k == Iter(f, SUBSET Q)
           Good == {A \in SUBSET Q : h[A] = k[A]}
<1>1. IsFiniteSet(Q) BY FS_Subset
<1>2. \A A \in SUBSET Q :
        /\ h[A] = IF A = {} THEN 0 ELSE f[Chosen(A)] + h[A \ {Chosen(A)}]
        /\ k[A] = IF A = {} THEN 0 ELSE f[Chosen(A)] + k[A \ {Chosen(A)}]
  <2> TAKE A \in SUBSET Q
  <2>1. A \in SUBSET R OBVIOUS
  <2>2. h[A] = IF A = {} THEN 0 ELSE f[Chosen(A)] + h[A \ {Chosen(A)}]
    BY <2>1, IterRec
  <2>3. k[A] = IF A = {} THEN 0 ELSE f[Chosen(A)] + k[A \ {Chosen(A)}]
    <3>1. \A B \in SUBSET Q : k[B] = IF B = {} THEN 0 ELSE f[Chosen(B)] + k[B \ {Chosen(B)}]
      BY <1>1, IterRec
    <3> QED BY <3>1
  <2> QED BY <2>2, <2>3
<1> HIDE DEF h, k
<1>3. ASSUME NEW A \in SUBSET Q, \A B \in SUBSET A : B # A => B \in Good
      PROVE  A \in Good
  <2>2. CASE A = {}
    BY <1>2, <2>2
  <2>3. CASE A # {}
    <3>1. Chosen(A) \in A BY <2>3 DEF Chosen
    <3>2. A \ {Chosen(A)} \in Good BY <1>3, <3>1
    <3> QED BY <1>2, <2>3, <3>2
  <2> QED BY <2>2, <2>3
<1> HIDE DEF Good
<1>4. Q \in Good BY <1>1, <1>3, SetInduction
<1> QED BY <1>4 DEF Good, h, k

LEMMA SumChosen ==
    ASSUME NEW f, NEW R, IsFiniteSet(R), R # {}
    PROVE  SumFunctionOnSet(f, R) = f[Chosen(R)] + SumFunctionOnSet(f, R \ {Chosen(R)})
<1> DEFINE Q == R \ {Chosen(R)}
<1>1. IsFiniteSet(Q) /\ Q \in SUBSET R BY FS_Subset
<1>2. Iter(f, SUBSET R)[R] = f[Chosen(R)] + Iter(f, SUBSET R)[Q]
  <2>1. R \in SUBSET R OBVIOUS
  <2> QED BY <2>1, IterRec
<1>3. Iter(f, SUBSET R)[Q] = Iter(f, SUBSET Q)[Q]
  BY <1>1, IterSame
<1> QED BY <1>2, <1>3, SumIter

LEMMA SumType ==
    ASSUME NEW f, NEW R, IsFiniteSet(R), \A x \in R : f[x] \in Int
    PROVE  SumFunctionOnSet(f, R) \in Int
<1> DEFINE Good == {A \in SUBSET R : SumFunctionOnSet(f, A) \in Int}
<1>1. ASSUME NEW A \in SUBSET R, \A B \in SUBSET A : B # A => B \in Good
      PROVE  A \in Good
  <2>1. CASE A = {} BY <2>1, SumEmpty
  <2>2. CASE A # {}
    <3>1. Chosen(A) \in A BY <2>2 DEF Chosen
    <3>2. A \ {Chosen(A)} \in Good BY <1>1, <3>1
    <3>3. IsFiniteSet(A) BY FS_Subset
    <3> QED BY <2>2, <3>1, <3>2, <3>3, SumChosen
  <2> QED BY <2>1, <2>2
<1> HIDE DEF Good
<1>2. R \in Good BY <1>1, SetInduction
<1> QED BY <1>2 DEF Good

(* Any element may be taken first.                                           *)
LEMMA SumRemove ==
    ASSUME NEW f, NEW R, IsFiniteSet(R), \A x \in R : f[x] \in Int, NEW c \in R
    PROVE  SumFunctionOnSet(f, R) = f[c] + SumFunctionOnSet(f, R \ {c})
<1> DEFINE Good == {A \in SUBSET R : \A x \in A :
                        SumFunctionOnSet(f, A) = f[x] + SumFunctionOnSet(f, A \ {x})}
<1>1. ASSUME NEW A \in SUBSET R, \A B \in SUBSET A : B # A => B \in Good
      PROVE  A \in Good
  <2> SUFFICES ASSUME NEW x \in A
               PROVE  SumFunctionOnSet(f, A) = f[x] + SumFunctionOnSet(f, A \ {x})
    OBVIOUS
  <2> DEFINE d == Chosen(A)
             B == A \ {d}
             C == A \ {x}
             E == B \ {x}
  <2>1. d \in A BY DEF Chosen
  <2>2. IsFiniteSet(A) /\ IsFiniteSet(B) /\ IsFiniteSet(C) /\ IsFiniteSet(E)
    BY FS_Subset
  <2>3. SumFunctionOnSet(f, A) = f[d] + SumFunctionOnSet(f, B)
    BY <2>2, SumChosen
  <2>4. CASE x = d BY <2>3, <2>4
  <2>5. CASE x # d
    <3>1. B \in Good /\ C \in Good BY <1>1, <2>1
    <3>2. x \in B /\ d \in C /\ C \ {d} = E BY <2>1, <2>5
    <3>3. SumFunctionOnSet(f, B) = f[x] + SumFunctionOnSet(f, E)
      BY <3>1, <3>2
    <3>4. SumFunctionOnSet(f, C) = f[d] + SumFunctionOnSet(f, E)
      BY <3>1, <3>2
    <3>5. SumFunctionOnSet(f, E) \in Int /\ f[d] \in Int /\ f[x] \in Int
      BY <2>1, <2>2, SumType
    <3> QED BY <2>3, <3>3, <3>4, <3>5
  <2> QED BY <2>4, <2>5
<1> HIDE DEF Good
<1>2. R \in Good BY <1>1, SetInduction
<1> QED BY <1>2 DEF Good

LEMMA SumPlus ==
    ASSUME NEW f, NEW g, NEW h, NEW R, IsFiniteSet(R),
           \A x \in R : f[x] \in Int /\ g[x] \in Int /\ h[x] = f[x] + g[x]
    PROVE  SumFunctionOnSet(h, R) = SumFunctionOnSet(f, R) + SumFunctionOnSet(g, R)
<1> DEFINE Good == {A \in SUBSET R :
            SumFunctionOnSet(h, A) = SumFunctionOnSet(f, A) + SumFunctionOnSet(g, A)}
<1>1. ASSUME NEW A \in SUBSET R, \A B \in SUBSET A : B # A => B \in Good
      PROVE  A \in Good
  <2>1. CASE A = {} BY <2>1, SumEmpty
  <2>2. CASE A # {}
    <3> DEFINE d == Chosen(A)
               B == A \ {d}
    <3>1. d \in A BY <2>2 DEF Chosen
    <3>2. B \in Good BY <1>1, <3>1
    <3>3. IsFiniteSet(A) /\ IsFiniteSet(B) BY FS_Subset
    <3>4. /\ SumFunctionOnSet(f, A) = f[d] + SumFunctionOnSet(f, B)
          /\ SumFunctionOnSet(g, A) = g[d] + SumFunctionOnSet(g, B)
          /\ SumFunctionOnSet(h, A) = h[d] + SumFunctionOnSet(h, B)
      BY <2>2, <3>3, SumChosen
    <3>5. SumFunctionOnSet(f, B) \in Int /\ SumFunctionOnSet(g, B) \in Int
      BY <3>3, SumType
    <3> HIDE DEF d, B
    <3>6. f[d] \in Int /\ g[d] \in Int /\ h[d] = f[d] + g[d] BY <3>1
    <3> QED BY <3>2, <3>4, <3>5, <3>6
  <2> QED BY <2>1, <2>2
<1> HIDE DEF Good
<1>2. R \in Good BY <1>1, SetInduction
<1> QED BY <1>2 DEF Good

(* What is 0 adds nothing.                                                   *)
LEMMA SumSupport ==
    ASSUME NEW f, NEW R, IsFiniteSet(R), \A x \in R : f[x] \in Int,
           NEW Q \in SUBSET R, \A x \in R \ Q : f[x] = 0
    PROVE  SumFunctionOnSet(f, Q) = SumFunctionOnSet(f, R)
<1> DEFINE Good == {A \in SUBSET R : SumFunctionOnSet(f, A \cap Q) = SumFunctionOnSet(f, A)}
<1>1. ASSUME NEW A \in SUBSET R, \A B \in SUBSET A : B # A => B \in Good
      PROVE  A \in Good
  <2>1. CASE A = {}
    <3>1. A \cap Q = A BY <2>1
    <3> QED BY <3>1
  <2>2. CASE A # {}
    <3> DEFINE d == Chosen(A)
               B == A \ {d}
    <3>1. d \in A BY <2>2 DEF Chosen
    <3>2. B \in Good BY <1>1, <3>1
    <3>3. IsFiniteSet(A) /\ IsFiniteSet(B) /\ IsFiniteSet(A \cap Q) BY FS_Subset
    <3>4. SumFunctionOnSet(f, A) = f[d] + SumFunctionOnSet(f, B)
      BY <2>2, <3>3, SumChosen
    <3>5. CASE d \in Q
      <4>1. (A \cap Q) \ {d} = B \cap Q OBVIOUS
      <4>2. SumFunctionOnSet(f, A \cap Q) = f[d] + SumFunctionOnSet(f, B \cap Q)
        BY <3>1, <3>3, <3>5, <4>1, SumRemove
      <4> QED BY <3>2, <3>4, <4>2
    <3>6. CASE d \notin Q
      <4>1. A \cap Q = B \cap Q BY <3>6
      <4>2. f[d] = 0 BY <3>1, <3>6
      <4>3. SumFunctionOnSet(f, B) \in Int BY <3>3, SumType
      <4>4. SumFunctionOnSet(f, B \cap Q) = SumFunctionOnSet(f, B) BY <3>2
      <4>5. SumFunctionOnSet(f, A) = SumFunctionOnSet(f, B) BY <3>4, <4>2, <4>3
      <4> QED BY <4>1, <4>4, <4>5
    <3> QED BY <3>5, <3>6
  <2> QED BY <2>1, <2>2
<1> HIDE DEF Good
<1>2. R \in Good BY <1>1, SetInduction
<1>3. R \cap Q = Q OBVIOUS
<1> QED BY <1>2, <1>3 DEF Good

(* One value changes, by d. *)
LEMMA SumUpdate ==
    ASSUME NEW f, NEW g, NEW R, IsFiniteSet(R), NEW c \in R, NEW d \in Int,
           \A x \in R : f[x] \in Int /\ g[x] = IF x = c THEN f[x] + d ELSE f[x]
    PROVE  SumFunctionOnSet(g, R) = SumFunctionOnSet(f, R) + d
<1> DEFINE e == [x \in R |-> IF x = c THEN d ELSE 0]
<1>1. SumFunctionOnSet(g, R) = SumFunctionOnSet(f, R) + SumFunctionOnSet(e, R)
  BY SumPlus
<1>2. SumFunctionOnSet(e, {c}) = SumFunctionOnSet(e, R)
  BY SumSupport
<1>3. IsFiniteSet({c}) /\ {c} \ {c} = {} BY FS_Singleton
<1>4. SumFunctionOnSet(e, {c}) = e[c] + SumFunctionOnSet(e, {})
  BY <1>3, SumRemove
<1> QED BY <1>1, <1>2, <1>4, SumEmpty

(* The elements of P, counted by their keys.                                 *)
Keyed(P, key, A) == {p \in P : key[p] \in A}

LEMMA SumCount ==
    ASSUME NEW P, IsFiniteSet(P), NEW key, NEW R, IsFiniteSet(R), NEW f,
           \A x \in R : f[x] = Cardinality(Keyed(P, key, {x}))
    PROVE  SumFunctionOnSet(f, R) = Cardinality(Keyed(P, key, R))
<1> DEFINE Of(A) == {p \in P : key[p] \in A}
           Good == {A \in SUBSET R : SumFunctionOnSet(f, A) = Cardinality(Of(A))}
<1>1. ASSUME NEW A \in SUBSET R, \A B \in SUBSET A : B # A => B \in Good
      PROVE  A \in Good
  <2>1. CASE A = {}
    <3>1. Of(A) = {} BY <2>1
    <3> QED BY <2>1, <3>1, SumEmpty, FS_EmptySet
  <2>2. CASE A # {}
    <3> DEFINE d == Chosen(A)
               B == A \ {d}
               D == {p \in P : key[p] = d}
    <3>1. d \in A BY <2>2 DEF Chosen
    <3>2. B \in Good BY <1>1, <3>1
    <3>3. IsFiniteSet(A) BY FS_Subset
    <3>4. SumFunctionOnSet(f, A) = f[d] + SumFunctionOnSet(f, B)
      BY <2>2, <3>3, SumChosen
    <3>5. IsFiniteSet(D) /\ IsFiniteSet(Of(B))
      <4>1. D \subseteq P /\ Of(B) \subseteq P OBVIOUS
      <4> QED BY <4>1, FS_Subset
    <3>6. Of(A) = D \cup Of(B) /\ D \cap Of(B) = {} BY <3>1
    <3>7. Cardinality(Of(A)) = Cardinality(D) + Cardinality(Of(B))
      <4>1. Cardinality(D \cup Of(B)) = Cardinality(D) + Cardinality(Of(B))
        BY <3>5, <3>6, CountDisjoint
      <4> QED BY <4>1, <3>6
    <3>8. f[d] = Cardinality(D)
      <4>1. Keyed(P, key, {d}) = D BY DEF Keyed
      <4> QED BY <3>1, <4>1
    <3>9. SumFunctionOnSet(f, B) = Cardinality(Of(B)) BY <3>2
    <3> QED BY <3>4, <3>7, <3>8, <3>9
  <2> QED BY <2>1, <2>2
<1> HIDE DEF Good
<1>2. R \in Good BY <1>1, SetInduction
<1> QED BY <1>2 DEF Good, Keyed
-----------------------------------------------------------------------------
(* Types                                                                     *)

USE DEF names, committed, writes, totalsVars, Writer, Totals

LEMMA TotalsFinite == ASSUME TotalsAssumption PROVE IsFiniteSet(Totals)
<1>1. IsFiniteSet({"srcmsgtotals", "dstmsgtotals"})
  <2>1. {"srcmsgtotals", "dstmsgtotals"} = {"srcmsgtotals"} \cup {"dstmsgtotals"}
    OBVIOUS
  <2>2. IsFiniteSet({"srcmsgtotals"}) /\ IsFiniteSet({"dstmsgtotals"})
    BY FS_Singleton
  <2>3. IsFiniteSet({"srcmsgtotals"} \cup {"dstmsgtotals"})
    BY <2>2, FS_Union
  <2> QED BY <2>1, <2>3
<1> QED BY <1>1, FS_Product DEF TotalsAssumption

LEMMA OwedSteps ==
    ASSUME NEW a, NEW b
    PROVE  /\ Items(<<>>) = {} /\ Items(<<b>>) = {b} /\ Items(<<a, b>>) = {a, b}
           /\ <<a, b>> # <<>> /\ <<b>> # <<>>
           /\ Head(<<a, b>>) = a /\ Tail(<<a, b>>) = <<b>>
           /\ Head(<<b>>) = b /\ Tail(<<b>>) = <<>>
           /\ Rest(<<>>) = 0 /\ Rest(<<b>>) = b.part /\ Rest(<<a, b>>) = a.part + b.part
<1>1. Items(<<>>) = {} BY DEF Items
<1>2. Items(<<b>>) = {b} BY DEF Items
<1>3. Items(<<a, b>>) = {a, b} BY DEF Items
<1>4. Rest(<<>>) = 0 /\ Rest(<<b>>) = b.part /\ Rest(<<a, b>>) = a.part + b.part
  BY DEF Rest
<1> QED BY <1>1, <1>2, <1>3, <1>4

LEMMA RestOfOwed ==
    ASSUME NEW S, NEW t \in Seq(S), t # <<>>
    PROVE  Head(t) \in S /\ Tail(t) \in Seq(S)
  OBVIOUS

(* The parts of a message make a whole.                                      *)
LEMMA HalvesAre ==
    ASSUME NEW m
    PROVE  /\ Halves(m)[1] = PartIn(current_domains, "srcmsgtotals", m)
           /\ Halves(m)[2] = PartIn(current_domains, "dstmsgtotals", m)
           /\ Halves(m)[1] \in 0 .. 2 /\ Halves(m)[2] = 2 - Halves(m)[1]
  BY DEF Halves, PartIn, NameOf

LEMMA TotalsTypeStep ==
    ASSUME TotalsAssumption, TotalsTypeOK, TotalsNext,
           \A w \in Writer : OwnInv(w) /\ BatchInv(w)
    PROVE  TotalsTypeOK'
<1> USE DEF TotalsTypeOK, TotalsAssumption
<1>1. ASSUME NEW w \in Writer, BeginWrite(w) PROVE TotalsTypeOK'
  <2>1. PICK ms \in SUBSET Mail : batch' = [batch EXCEPT ![w] = ms] /\ left' = [left EXCEPT ![w] = ms]
    BY <1>1 DEF BeginWrite
  <2> QED BY <1>1, <2>1 DEF BeginWrite, current_domains
<1>2. ASSUME NEW w \in Writer, LookUp(w) PROVE TotalsTypeOK'
  <2>1. PICK m \in left[w] :
            /\ left' = [left EXCEPT ![w] = @ \ {m}]
            /\ owed' = [owed EXCEPT ![w] =
                <<[row |-> <<"srcmsgtotals", Src[m]>>, part |-> Halves(m)[1]],
                  [row |-> <<"dstmsgtotals", Dst[m]>>, part |-> Halves(m)[2]]>>]
    BY <1>2 DEF LookUp
  <2>2. Halves(m)[1] \in 0 .. 2 /\ Halves(m)[2] \in 0 .. 2
    BY HalvesAre
  <2>3. m \in Mail /\ Src[m] \in Host /\ Dst[m] \in Host
    OBVIOUS
  <2>4. <<[row |-> <<"srcmsgtotals", Src[m]>>, part |-> Halves(m)[1]],
          [row |-> <<"dstmsgtotals", Dst[m]>>, part |-> Halves(m)[2]]>>
        \in Seq([row : Totals, part : 0 .. 2])
    BY <2>2, <2>3
  <2> QED BY <1>2, <2>1, <2>4 DEF LookUp, current_domains
<1>3. ASSUME NEW w \in Writer, owed[w] # <<>>, Changes(w), inserts' \in [Writer -> BOOLEAN],
             UNCHANGED <<names, committed, batch, left>>
      PROVE  TotalsTypeOK'
  <2>1. /\ Head(owed[w]) \in [row : Totals, part : 0 .. 2]
        /\ Tail(owed[w]) \in Seq([row : Totals, part : 0 .. 2])
    <3>1. owed[w] \in Seq([row : Totals, part : 0 .. 2])
      OBVIOUS
    <3> QED BY <1>3, <3>1, RestOfOwed
  <2>2. held' \in [Writer -> SUBSET Totals] /\ owed' \in [Writer -> Seq([row : Totals, part : 0 .. 2])]
    BY <1>3, <2>1 DEF Changes, NextRow
  <2>3. adds' \in [Writer -> [Totals -> [total : Int, runtotal : Int]]]
    <3>1. NextRow(w) \in Totals /\ Sign(w) \in Int /\ Sign(w) * Head(owed[w]).part \in Int
      BY <2>1 DEF NextRow, Sign
    <3>2. adds[w] \in [Totals -> [total : Int, runtotal : Int]]
      OBVIOUS
    <3>3. [total |-> adds[w][NextRow(w)].total + Sign(w),
           runtotal |-> adds[w][NextRow(w)].runtotal + Sign(w) * Head(owed[w]).part]
          \in [total : Int, runtotal : Int]
      <4>1. adds[w][NextRow(w)] \in [total : Int, runtotal : Int]
        BY <3>1, <3>2
      <4> HIDE DEF TotalsTypeOK
      <4> QED BY <3>1, <4>1
    <3> DEFINE new == [total |-> adds[w][NextRow(w)].total + Sign(w),
                runtotal |-> adds[w][NextRow(w)].runtotal + Sign(w) * Head(owed[w]).part]
    <3>4. adds' = [adds EXCEPT ![w] = [adds[w] EXCEPT ![NextRow(w)] = new]]
      BY <1>3 DEF Changes
    <3>5. new \in [total : Int, runtotal : Int]
      BY <3>3
    <3> HIDE DEF new
    <3>6. [adds[w] EXCEPT ![NextRow(w)] = new] \in [Totals -> [total : Int, runtotal : Int]]
      BY <3>1, <3>2, <3>5
    <3> QED BY <3>4, <3>6
  <2> QED BY <1>3, <2>2, <2>3 DEF current_domains
<1>4. ASSUME NEW w \in Writer, UpdateRow(w) PROVE TotalsTypeOK'
  BY <1>3, <1>4 DEF UpdateRow
<1>5. ASSUME NEW w \in Writer, NotFound(w) PROVE TotalsTypeOK'
  <2>1. owed[w] \in Seq([row : Totals, part : 0 .. 2]) /\ owed[w] # <<>>
    BY <1>5 DEF NotFound
  <2>2. Tail(owed[w]) \in Seq([row : Totals, part : 0 .. 2])
    BY <2>1, RestOfOwed
  <2>3. owed' \in [Writer -> Seq([row : Totals, part : 0 .. 2])] /\ inserts' \in [Writer -> BOOLEAN]
    <3>1. CASE w = Cleaner
      <4>1. owed' = [owed EXCEPT ![w] = Tail(owed[w])] /\ inserts' = inserts
        BY <1>5, <3>1 DEF NotFound
      <4> QED BY <2>2, <4>1
    <3>2. CASE w # Cleaner BY <1>5, <3>2 DEF NotFound
    <3> QED BY <3>1, <3>2
  <2> QED BY <1>5, <2>3 DEF NotFound, current_domains
<1>6. ASSUME NEW w \in Writer, InsertRow(w) PROVE TotalsTypeOK'
  <2>1. owed[w] # <<>> /\ inserts' \in [Writer -> BOOLEAN]
    BY <1>6 DEF InsertRow, OwnInv
  <2> QED BY <1>3, <1>6, <2>1 DEF InsertRow
<1>7. ASSUME NEW w \in Writer, Ended(w), UNCHANGED names,
             messages' \subseteq Mail, deleted' \subseteq Mail \ messages', rows' \subseteq Totals,
             totals' \in [Totals -> [total : Int, runtotal : Int]]
      PROVE  TotalsTypeOK'
  <2>1. Zero \in [Totals -> [total : Int, runtotal : Int]]
    BY DEF Zero
  <2>2. adds' \in [Writer -> [Totals -> [total : Int, runtotal : Int]]]
    BY <1>7, <2>1 DEF Ended
  <2>3. owed' \in [Writer -> Seq([row : Totals, part : 0 .. 2])]
    <3>1. <<>> \in Seq([row : Totals, part : 0 .. 2])
      OBVIOUS
    <3> QED BY <1>7, <3>1 DEF Ended
  <2> QED BY <1>7, <2>2, <2>3 DEF Ended, current_domains
<1>8. ASSUME NEW w \in Writer, CommitWrite(w) PROVE TotalsTypeOK'
  <2>1. /\ messages' \subseteq Mail /\ deleted' \subseteq Mail \ messages'
        /\ rows' \subseteq Totals
    BY <1>8 DEF CommitWrite, BatchInv
  <2>2. totals' \in [Totals -> [total : Int, runtotal : Int]]
    BY <1>8 DEF CommitWrite
  <2> QED BY <1>7, <1>8, <2>1, <2>2 DEF CommitWrite
<1>9. ASSUME NEW w \in Writer, RollBack(w) PROVE TotalsTypeOK'
  BY <1>7, <1>9 DEF RollBack
<1>10. ASSUME NEW n \in Ours, NameStep(n) PROVE TotalsTypeOK'
  <2>1. CASE AddName(n)   BY <2>1 DEF AddName, current_domains
  <2>2. CASE SwitchName(n) BY <2>2 DEF SwitchName, current_domains
  <2>3. CASE DeleteName(n)
    <3> DEFINE ns == Aliases(n) \cup {n}
    <3>1. /\ nameStatus' = [a \in Host |-> IF a \in ns THEN "none" ELSE nameStatus[a]]
          /\ touched' = touched \cup ns /\ rows' = rows /\ UNCHANGED <<messages, deleted, writes>>
          /\ totals' = [r \in Totals |-> totals[r]]
      BY <2>3 DEF DeleteName, DeleteWith
    <3>2. \A a \in current_domains' : Parent[a] \in current_domains'
      BY <3>1 DEF current_domains, Aliases
    <3> QED BY <3>1, <3>2 DEF Aliases
  <2> QED BY <1>10, <2>1, <2>2, <2>3 DEF NameStep
<1> QED
  BY <1>1, <1>2, <1>4, <1>5, <1>6, <1>8, <1>9, <1>10 DEF TotalsNext, WriterStep

-----------------------------------------------------------------------------
(* Counting                                                                  *)

LEMMA CountTypes ==
    ASSUME NEW D, NEW S, IsFiniteSet(S), NEW r
    PROVE  Cardinality(On(S, r)) \in Nat /\ Parts(D, S, r) \in Nat
<1> DEFINE A == On(S, r)
           B == {m \in A : PartIn(D, r[1], m) >= 1}
           C == {m \in A : PartIn(D, r[1], m) = 2}
<1>1. A \subseteq S /\ B \subseteq S /\ C \subseteq S BY DEF On
<1>2. Cardinality(A) \in Nat /\ Cardinality(B) \in Nat /\ Cardinality(C) \in Nat
  <2> HIDE DEF A, B, C
  <2> QED BY <1>1, FS_Subset, FS_CardinalityType
<1> QED BY <1>2 DEF Parts

LEMMA CountBoth ==
    ASSUME NEW D, NEW S, IsFiniteSet(S), NEW T, IsFiniteSet(T), S \cap T = {}, NEW r
    PROVE  /\ Cardinality(On(S \cup T, r)) = Cardinality(On(S, r)) + Cardinality(On(T, r))
           /\ Parts(D, S \cup T, r) = Parts(D, S, r) + Parts(D, T, r)
<1> DEFINE A(U) == On(U, r)
           B(U) == {m \in A(U) : PartIn(D, r[1], m) >= 1}
           C(U) == {m \in A(U) : PartIn(D, r[1], m) = 2}
<1>1. /\ A(S) \subseteq S /\ A(T) \subseteq T /\ A(S \cup T) = A(S) \cup A(T)
      /\ B(S) \subseteq S /\ B(T) \subseteq T /\ B(S \cup T) = B(S) \cup B(T)
      /\ C(S) \subseteq S /\ C(T) \subseteq T /\ C(S \cup T) = C(S) \cup C(T)
  BY DEF On
<1>2. \A U : Parts(D, U, r) = Cardinality(B(U)) + Cardinality(C(U))
  BY DEF Parts
<1> HIDE DEF A, B, C
<1>3. Cardinality(A(S \cup T)) = Cardinality(A(S)) + Cardinality(A(T))
  <2>1. IsFiniteSet(A(S)) /\ IsFiniteSet(A(T)) /\ A(S) \cap A(T) = {} BY <1>1, FS_Subset
  <2> QED BY <1>1, <2>1, CountDisjoint
<1>4. Cardinality(B(S \cup T)) = Cardinality(B(S)) + Cardinality(B(T))
  <2>1. IsFiniteSet(B(S)) /\ IsFiniteSet(B(T)) /\ B(S) \cap B(T) = {} BY <1>1, FS_Subset
  <2> QED BY <1>1, <2>1, CountDisjoint
<1>5. Cardinality(C(S \cup T)) = Cardinality(C(S)) + Cardinality(C(T))
  <2>1. IsFiniteSet(C(S)) /\ IsFiniteSet(C(T)) /\ C(S) \cap C(T) = {} BY <1>1, FS_Subset
  <2> QED BY <1>1, <2>1, CountDisjoint
<1>6. /\ Cardinality(B(S)) \in Nat /\ Cardinality(B(T)) \in Nat
      /\ Cardinality(C(S)) \in Nat /\ Cardinality(C(T)) \in Nat
  BY <1>1, FS_Subset, FS_CardinalityType
<1>7. Parts(D, S \cup T, r) = Parts(D, S, r) + Parts(D, T, r)
  BY <1>2, <1>4, <1>5, <1>6
<1> QED BY <1>3, <1>7 DEF A

LEMMA CountOne ==
    ASSUME NEW D, NEW m, NEW r
    PROVE  /\ Cardinality(On({m}, r)) = IF r[2] = NameOf(r[1], m) THEN 1 ELSE 0
           /\ Parts(D, {m}, r) = IF r[2] = NameOf(r[1], m) THEN PartIn(D, r[1], m) ELSE 0
<1> DEFINE A == On({m}, r)
           B == {x \in A : PartIn(D, r[1], x) >= 1}
           C == {x \in A : PartIn(D, r[1], x) = 2}
<1>1. Cardinality({}) = 0 /\ Cardinality({m}) = 1
  BY FS_EmptySet, FS_Singleton
<1>2. PartIn(D, r[1], m) \in {0, 1, 2}
  BY DEF PartIn
<1>3. Parts(D, {m}, r) = Cardinality(B) + Cardinality(C)
  BY DEF Parts
<1>4. CASE r[2] # NameOf(r[1], m)
  <2>1. A = {} /\ B = {} /\ C = {} BY <1>4 DEF On
  <2> HIDE DEF B, C
  <2> QED BY <1>1, <1>3, <1>4, <2>1
<1>5. CASE r[2] = NameOf(r[1], m)
  <2>1. A = {m} BY <1>5 DEF On
  <2>2. B = IF PartIn(D, r[1], m) = 0 THEN {} ELSE {m}
    BY <1>2, <2>1
  <2>3. C = IF PartIn(D, r[1], m) = 2 THEN {m} ELSE {}
    BY <1>2, <2>1
  <2> HIDE DEF B, C
  <2> QED BY <1>1, <1>2, <1>3, <1>5, <2>1, <2>2, <2>3
<1> QED BY <1>4, <1>5

LEMMA CountNone ==
    ASSUME NEW D, NEW r
    PROVE  Cardinality(On({}, r)) = 0 /\ Parts(D, {}, r) = 0
<1>1. /\ On({}, r) = {} /\ {m \in On({}, r) : PartIn(D, r[1], m) >= 1} = {}
      /\ {m \in On({}, r) : PartIn(D, r[1], m) = 2} = {}
  BY DEF On
<1>2. Cardinality({}) = 0 BY FS_EmptySet
<1> QED BY <1>1, <1>2 DEF Parts

(* A sum of nothing but zeros.                                               *)
LEMMA SumZero ==
    ASSUME NEW f, NEW R, IsFiniteSet(R), \A x \in R : f[x] = 0
    PROVE  SumFunctionOnSet(f, R) = 0
<1>1. {} \in SUBSET R OBVIOUS
<1>2. SumFunctionOnSet(f, {}) = SumFunctionOnSet(f, R)
  BY <1>1, SumSupport
<1> QED BY <1>2, SumEmpty

-----------------------------------------------------------------------------
(* The steps of a transaction                                                *)

LEMMA BegunFinite ==
    ASSUME TotalsAssumption, TotalsTypeOK, NEW w \in Writer
    PROVE  Opened(w) \subseteq Mail /\ IsFiniteSet(Opened(w)) /\ Cardinality(Opened(w)) \in Nat
<1>1. Opened(w) \subseteq Mail BY DEF TotalsTypeOK, Opened
<1> QED BY <1>1, FS_Subset, FS_CardinalityType DEF TotalsAssumption

LEMMA OwnStays ==
    ASSUME NEW w \in Writer, OwnInv(w), UNCHANGED names,
           batch'[w] = batch[w], left'[w] = left[w], owed'[w] = owed[w],
           held'[w] = held[w], adds'[w] = adds[w], inserts'[w] => owed[w] # <<>>
    PROVE  OwnInv(w)'
<1>1. Opened(w)' = Opened(w) BY DEF Opened
<1>2. current_domains' = current_domains /\ \A n : Calm(n)' <=> Calm(n)
  BY DEF current_domains, Calm
<1>3. OwedInv(w)'
  BY <1>1, <1>2 DEF OwnInv, OwedInv
<1>4. AddsInv(w)'
  BY <1>1, <1>2 DEF OwnInv, AddsInv
<1>5. HeldInv(w)'
  BY <1>1 DEF OwnInv, HeldInv
<1>6. AddedInv(w)'
  BY <1>1 DEF OwnInv, AddedInv, Added
<1> QED BY <1>3, <1>4, <1>5, <1>6 DEF OwnInv

(* Nothing is begun.                                                         *)
LEMMA OwnIdle ==
    ASSUME TotalsAssumption, NEW w \in Writer, Opened(w) = {}, owed[w] = <<>>, ~inserts[w],
           adds[w] = Zero, left[w] \subseteq batch[w]
    PROVE  OwnInv(w)
<1>1. Items(owed[w]) = {} /\ Rest(owed[w]) = 0 BY OwedSteps
<1>2. OwedInv(w) /\ HeldInv(w) BY DEF OwedInv, HeldInv
<1>3. AddsInv(w)
  BY <1>1, CountNone DEF AddsInv, Zero, Signed
<1>4. AddedInv(w)
  <2>1. \A r \in Totals : Added(w)[r] = 0 BY DEF Added, Zero
  <2>2. SumFunctionOnSet(Added(w), Totals) = 0 BY <2>1, SumZero, TotalsFinite
  <2>3. Cardinality(Opened(w)) = 0 BY FS_EmptySet
  <2> QED BY <1>1, <2>2, <2>3 DEF AddedInv, Signed
<1> QED BY <1>2, <1>3, <1>4 DEF OwnInv

LEMMA LookUpKeeps ==
    ASSUME TotalsAssumption, TotalsTypeOK, NEW w \in Writer, OwnInv(w), LookUp(w)
    PROVE  OwnInv(w)'
<1>1. PICK m \in left[w] :
            /\ left' = [left EXCEPT ![w] = @ \ {m}]
            /\ owed' = [owed EXCEPT ![w] =
                <<[row |-> <<"srcmsgtotals", Src[m]>>, part |-> Halves(m)[1]],
                  [row |-> <<"dstmsgtotals", Dst[m]>>, part |-> Halves(m)[2]]>>]
  BY DEF LookUp
<1> DEFINE p == PartIn(current_domains, "srcmsgtotals", m)
           e1 == Posting("srcmsgtotals", m, p)
           e2 == Posting("dstmsgtotals", m, 2 - p)
<1>2. /\ UNCHANGED <<names, committed, batch, inserts, held, adds>> /\ owed[w] = <<>>
      /\ m \in batch[w] /\ ~inserts[w]
  BY DEF LookUp, OwnInv
<1>3. p \in 0 .. 2 /\ PartIn(current_domains, "dstmsgtotals", m) = 2 - p
  BY HalvesAre
<1>4. owed'[w] = <<e1, e2>> /\ left'[w] = left[w] \ {m}
  BY <1>1, HalvesAre DEF TotalsTypeOK, Posting, RowOf, NameOf
<1>5. Opened(w)' = Opened(w) \cup {m} /\ m \notin Opened(w)
  BY <1>2, <1>4 DEF Opened
<1>6. current_domains' = current_domains /\ \A n : Calm(n)' <=> Calm(n)
  BY <1>2 DEF current_domains, Calm
<1>7. Items(owed[w]) = {} /\ Items(owed'[w]) = {e1, e2}
      /\ Rest(owed[w]) = 0 /\ Rest(owed'[w]) = p + (2 - p)
  <2>1. Items(<<e1, e2>>) = {e1, e2} /\ Rest(<<e1, e2>>) = e1.part + e2.part
        /\ Items(<<>>) = {} /\ Rest(<<>>) = 0
    BY OwedSteps, Zenon
  <2>2. e1.part = p /\ e2.part = 2 - p
    BY DEF Posting
  <2> HIDE DEF e1, e2
  <2> QED BY <1>2, <1>4, <2>1, <2>2
<1>8. OwedInv(w)'
  BY <1>3, <1>4, <1>5, <1>6 DEF OwedInv
<1>9. AddsInv(w)'
  <2> SUFFICES ASSUME NEW r \in Totals
               PROVE  /\ (\A e \in {e1, e2} : e.row # r) =>
                           /\ adds[w][r].total = Signed(w, Cardinality(On(Opened(w)', r)))
                           /\ Calm(r[2]) => adds[w][r].runtotal =
                                    Signed(w, Parts(current_domains, Opened(w)', r))
                      /\ \A e \in {e1, e2} : e.row = r =>
                           /\ adds[w][r].total = Signed(w, Cardinality(On(Opened(w)', r)) - 1)
                           /\ Calm(r[2]) => adds[w][r].runtotal =
                                    Signed(w, Parts(current_domains, Opened(w)', r) - e.part)
                      /\ r \notin held[w] => adds[w][r] = Zero[r]
    BY <1>2, <1>6, <1>7 DEF AddsInv
  <2> DEFINE D == current_domains
             c == Cardinality(On(Opened(w), r))
             k == Parts(D, Opened(w), r)
  <2>1. /\ adds[w][r].total = Signed(w, c) /\ (Calm(r[2]) => adds[w][r].runtotal = Signed(w, k))
        /\ r \notin held[w] => adds[w][r] = Zero[r]
    BY <1>7 DEF OwnInv, AddsInv
  <2>2. c \in Nat /\ k \in Nat
    BY BegunFinite, CountTypes
  <2>3. /\ Cardinality(On(Opened(w)', r)) = c + IF r[2] = NameOf(r[1], m) THEN 1 ELSE 0
        /\ Parts(D, Opened(w)', r) = k + IF r[2] = NameOf(r[1], m) THEN PartIn(D, r[1], m) ELSE 0
    <3>1. IsFiniteSet({m}) /\ Opened(w) \cap {m} = {} BY <1>5, FS_Singleton
    <3>2. /\ Cardinality(On(Opened(w)', r)) = c + Cardinality(On({m}, r))
          /\ Parts(D, Opened(w)', r) = k + Parts(D, {m}, r)
      BY <1>5, <3>1, BegunFinite, CountBoth
    <3>3. /\ Cardinality(On({m}, r)) = IF r[2] = NameOf(r[1], m) THEN 1 ELSE 0
          /\ Parts(D, {m}, r) = IF r[2] = NameOf(r[1], m) THEN PartIn(D, r[1], m) ELSE 0
      BY CountOne
    <3> HIDE DEF c, k, D
    <3> QED BY <3>2, <3>3
  <2>4. (r[2] = NameOf(r[1], m)) <=> (r = e1.row \/ r = e2.row)
    BY DEF Posting, RowOf, NameOf
  <2>5. (r = e1.row => PartIn(D, r[1], m) = e1.part) /\ (r = e2.row => PartIn(D, r[1], m) = e2.part)
    BY <1>3 DEF Posting, RowOf
  <2>6. p \in Nat /\ PartIn(D, r[1], m) \in Nat
    BY <1>3 DEF PartIn
  <2> HIDE DEF e1, e2, c, k, D, p
  <2>7. CASE r # e1.row /\ r # e2.row
    BY <2>1, <2>2, <2>3, <2>4, <2>7 DEF D
  <2>8. CASE r = e1.row \/ r = e2.row
    <3>1. /\ Cardinality(On(Opened(w)', r)) = c + 1
          /\ Parts(D, Opened(w)', r) = k + PartIn(D, r[1], m)
      BY <2>3, <2>4, <2>8
    <3>2. c = (c + 1) - 1 /\ k = (k + PartIn(D, r[1], m)) - PartIn(D, r[1], m)
      BY <2>2, <2>6
    <3>3. \A e \in {e1, e2} : e.row = r => e.part = PartIn(D, r[1], m)
      BY <2>5
    <3> QED BY <2>1, <2>8, <3>1, <3>2, <3>3 DEF D
  <2> QED BY <2>7, <2>8
<1>10. HeldInv(w)'
  <2>1. \A x \in Opened(w), side \in {"srcmsgtotals", "dstmsgtotals"} : RowOf(side, x) \in held[w]
    BY <1>7 DEF OwnInv, HeldInv
  <2>2. e1.row = RowOf("srcmsgtotals", m) /\ e2.row = RowOf("dstmsgtotals", m)
    BY DEF Posting
  <2> HIDE DEF e1, e2
  <2> QED BY <1>2, <1>5, <1>7, <2>1, <2>2 DEF HeldInv
<1>11. AddedInv(w)'
  <2>1. Cardinality(Opened(w)') = Cardinality(Opened(w)) + 1
    BY <1>5, BegunFinite, FS_AddElement
  <2>2. Added(w)' = Added(w) BY <1>2 DEF Added
  <2>3. 2 * (Cardinality(Opened(w)) + 1) - (p + (2 - p)) = 2 * Cardinality(Opened(w)) - 0
    BY <1>3, BegunFinite
  <2> HIDE DEF p
  <2> QED BY <1>7, <2>1, <2>2, <2>3 DEF AddedInv, OwnInv
<1> QED BY <1>2, <1>4, <1>8, <1>9, <1>10, <1>11 DEF OwnInv

LEMMA SignTimes == ASSUME NEW w, NEW x \in Int PROVE Sign(w) * x = Signed(w, x)
<1>1. CASE w = Cleaner BY <1>1 DEF Sign, Signed
<1>2. CASE w # Cleaner BY <1>2 DEF Sign, Signed
<1> QED BY <1>1, <1>2

(* What is left to change, taken apart.                                      *)
LEMMA OwedApart ==
    ASSUME TotalsAssumption, TotalsTypeOK, NEW w \in Writer, OwnInv(w), owed[w] # <<>>
    PROVE  LET e == Head(owed[w])
               rest == Tail(owed[w])
           IN  /\ Items(owed[w]) = {e} \cup Items(rest) /\ \A d \in Items(rest) : d.row # e.row
               /\ e.part \in 0 .. 2 /\ Rest(rest) \in Nat /\ Rest(owed[w]) = e.part + Rest(rest)
               /\ NextRow(w) = e.row /\ e.row \in Totals
               /\ \E m \in Opened(w) : e.row \in {RowOf("srcmsgtotals", m), RowOf("dstmsgtotals", m)}
               /\ rest # <<>> =>
                    \E m \in Opened(w), p \in 0 .. 2 :
                        /\ rest = <<Posting("dstmsgtotals", m, 2 - p)>>
                        /\ Calm(Src[m]) \/ Calm(Dst[m]) =>
                                p = PartIn(current_domains, "srcmsgtotals", m)
<1>1. PICK m \in Opened(w), p \in 0 .. 2 :
        /\ \/ owed[w] = <<Posting("srcmsgtotals", m, p), Posting("dstmsgtotals", m, 2 - p)>>
           \/ owed[w] = <<Posting("dstmsgtotals", m, 2 - p)>>
        /\ Calm(Src[m]) \/ Calm(Dst[m]) => p = PartIn(current_domains, "srcmsgtotals", m)
  BY DEF OwnInv, OwedInv
<1> DEFINE a == Posting("srcmsgtotals", m, p)
           b == Posting("dstmsgtotals", m, 2 - p)
<1>2. /\ a.row = RowOf("srcmsgtotals", m) /\ b.row = RowOf("dstmsgtotals", m)
      /\ a.row # b.row /\ a.part = p /\ b.part = 2 - p /\ p \in Nat /\ 2 - p \in Nat /\ 2 - p \in 0 .. 2
  BY DEF Posting, RowOf
<1>3. a.row \in Totals /\ b.row \in Totals
  <2>1. m \in Mail BY BegunFinite
  <2>2. Src[m] \in Host /\ Dst[m] \in Host BY <2>1 DEF TotalsAssumption
  <2>3. a.row = <<"srcmsgtotals", Src[m]>> /\ b.row = <<"dstmsgtotals", Dst[m]>>
    BY <1>2 DEF RowOf, NameOf
  <2>4. <<"srcmsgtotals", Src[m]>> \in Totals /\ <<"dstmsgtotals", Dst[m]>> \in Totals
    BY <2>2
  <2> HIDE DEF a, b, Totals
  <2> QED BY <2>3, <2>4
<1>4. /\ Items(<<>>) = {} /\ Items(<<b>>) = {b} /\ Items(<<a, b>>) = {a, b}
      /\ Head(<<a, b>>) = a /\ Tail(<<a, b>>) = <<b>> /\ Head(<<b>>) = b /\ Tail(<<b>>) = <<>>
      /\ Rest(<<>>) = 0 /\ Rest(<<b>>) = b.part /\ Rest(<<a, b>>) = a.part + b.part
  BY OwedSteps, Zenon
<1> HIDE DEF a, b
<1>5. CASE owed[w] = <<a, b>>
  <2>1. <<b>> = <<Posting("dstmsgtotals", m, 2 - p)>> BY DEF b
  <2> QED BY <1>1, <1>2, <1>3, <1>4, <1>5, <2>1 DEF NextRow
<1>6. CASE owed[w] = <<b>>
  BY <1>1, <1>2, <1>3, <1>4, <1>6 DEF NextRow
<1> QED BY <1>1, <1>5, <1>6 DEF a, b

LEMMA ChangeKeeps ==
    ASSUME TotalsAssumption, TotalsTypeOK, NEW w \in Writer, OwnInv(w), owed[w] # <<>>,
           Changes(w), UNCHANGED <<names, batch, left>>, ~inserts'[w]
    PROVE  OwnInv(w)'
<1> DEFINE e == Head(owed[w])
           rest == Tail(owed[w])
           new == [total |-> adds[w][e.row].total + Sign(w),
                   runtotal |-> adds[w][e.row].runtotal + Sign(w) * e.part]
<1>1. /\ Items(owed[w]) = {e} \cup Items(rest) /\ \A d \in Items(rest) : d.row # e.row
      /\ e.part \in 0 .. 2 /\ Rest(rest) \in Nat /\ Rest(owed[w]) = e.part + Rest(rest)
      /\ NextRow(w) = e.row /\ e.row \in Totals
  BY OwedApart
<1>2. rest # <<>> =>
        \E m \in Opened(w), p \in 0 .. 2 :
            /\ rest = <<Posting("dstmsgtotals", m, 2 - p)>>
            /\ Calm(Src[m]) \/ Calm(Dst[m]) => p = PartIn(current_domains, "srcmsgtotals", m)
  BY OwedApart
<1>3. adds[w] \in [Totals -> [total : Int, runtotal : Int]]
  BY DEF TotalsTypeOK
<1>4. held'[w] = held[w] \cup {e.row} /\ owed'[w] = rest
  BY <1>1 DEF Changes, TotalsTypeOK
<1>5. adds'[w] = [adds[w] EXCEPT ![e.row] = new]
  <2>1. adds' = [adds EXCEPT ![w] = [adds[w] EXCEPT ![NextRow(w)] =
            [total |-> adds[w][NextRow(w)].total + Sign(w),
             runtotal |-> adds[w][NextRow(w)].runtotal + Sign(w) * Head(owed[w]).part]]]
    BY DEF Changes
  <2>2. adds \in [Writer -> [Totals -> [total : Int, runtotal : Int]]]
    BY DEF TotalsTypeOK
  <2> QED BY <1>1, <2>1, <2>2
<1>6. /\ new.total = adds[w][e.row].total + Signed(w, 1)
      /\ new.runtotal = adds[w][e.row].runtotal + Signed(w, e.part)
  BY <1>1, SignTimes DEF Sign, Signed
<1>7. \A r \in Totals : adds'[w][r] = IF r = e.row THEN new ELSE adds[w][r]
  BY <1>1, <1>3, <1>5
<1>8. Opened(w)' = Opened(w) BY DEF Opened
<1>9. current_domains' = current_domains /\ \A n : Calm(n)' <=> Calm(n)
  BY DEF current_domains, Calm
<1> HIDE DEF e, rest, new
<1>10. OwedInv(w)'
  BY <1>2, <1>4, <1>8, <1>9 DEF OwedInv
<1>11. AddsInv(w)'
  <2> SUFFICES ASSUME NEW r \in Totals
               PROVE  /\ (\A d \in Items(rest) : d.row # r) =>
                           /\ adds'[w][r].total = Signed(w, Cardinality(On(Opened(w), r)))
                           /\ Calm(r[2]) => adds'[w][r].runtotal =
                                    Signed(w, Parts(current_domains, Opened(w), r))
                      /\ \A d \in Items(rest) : d.row = r =>
                           /\ adds'[w][r].total = Signed(w, Cardinality(On(Opened(w), r)) - 1)
                           /\ Calm(r[2]) => adds'[w][r].runtotal =
                                    Signed(w, Parts(current_domains, Opened(w), r) - d.part)
                      /\ r \notin held'[w] => adds'[w][r] = Zero[r]
    BY <1>4, <1>8, <1>9 DEF AddsInv
  <2> DEFINE c == Cardinality(On(Opened(w), r))
             k == Parts(current_domains, Opened(w), r)
  <2>1. c \in Nat /\ k \in Nat
    BY BegunFinite, CountTypes
  <2>2. /\ (\A d \in Items(owed[w]) : d.row # r) =>
             /\ adds[w][r].total = Signed(w, c)
             /\ Calm(r[2]) => adds[w][r].runtotal = Signed(w, k)
        /\ \A d \in Items(owed[w]) : d.row = r =>
             /\ adds[w][r].total = Signed(w, c - 1)
             /\ Calm(r[2]) => adds[w][r].runtotal = Signed(w, k - d.part)
        /\ r \notin held[w] => adds[w][r] = Zero[r]
    BY DEF OwnInv, AddsInv
  <2> HIDE DEF c, k
  <2>3. CASE r = e.row
    <3>1. /\ adds[w][r].total = Signed(w, c - 1)
          /\ Calm(r[2]) => adds[w][r].runtotal = Signed(w, k - e.part)
      BY <1>1, <2>2, <2>3
    <3>2. Signed(w, c - 1) + Signed(w, 1) = Signed(w, c)
          /\ Signed(w, k - e.part) + Signed(w, e.part) = Signed(w, k)
      BY <1>1, <2>1 DEF Signed
    <3> QED BY <1>1, <1>4, <1>6, <1>7, <2>3, <3>1, <3>2 DEF c, k
  <2>4. CASE r # e.row
    BY <1>1, <1>4, <1>7, <2>2, <2>4 DEF c, k
  <2> QED BY <2>3, <2>4
<1>12. HeldInv(w)'
  <2>1. \A m \in Opened(w), side \in {"srcmsgtotals", "dstmsgtotals"} :
            RowOf(side, m) \in held[w] \cup {d.row : d \in Items(owed[w])}
    BY DEF OwnInv, HeldInv
  <2> QED BY <1>1, <1>4, <1>8, <2>1 DEF HeldInv
<1>13. AddedInv(w)'
  <2>1. \A r \in Totals : Added(w)[r] = adds[w][r].runtotal /\ Added(w)'[r] = adds'[w][r].runtotal
    BY DEF Added
  <2>2. \A r \in Totals : Added(w)[r] \in Int
    BY <1>3, <2>1
  <2>3. \A r \in Totals : Added(w)'[r] = IF r = e.row THEN Added(w)[r] + Signed(w, e.part) ELSE Added(w)[r]
    BY <1>6, <1>7, <2>1
  <2>4. Signed(w, e.part) \in Int BY <1>1 DEF Signed
  <2> DEFINE f == Added(w)
             g == Added(w)'
             d == Signed(w, e.part)
  <2>5. SumFunctionOnSet(g, Totals) = SumFunctionOnSet(f, Totals) + d
    <3>1. \A r \in Totals : f[r] \in Int /\ g[r] = IF r = e.row THEN f[r] + d ELSE f[r]
      BY <2>2, <2>3
    <3>2. d \in Int BY <2>4
    <3>3. IsFiniteSet(Totals) BY TotalsFinite
    <3>4. e.row \in Totals BY <1>1
    <3> HIDE DEF f, g, d, Totals
    <3> QED BY <3>1, <3>2, <3>3, <3>4, SumUpdate
  <2>6. SumFunctionOnSet(f, Totals) = Signed(w, 2 * Cardinality(Opened(w)) - Rest(owed[w]))
    BY DEF OwnInv, AddedInv
  <2>7. Signed(w, 2 * Cardinality(Opened(w)) - Rest(owed[w])) + d
            = Signed(w, 2 * Cardinality(Opened(w)) - Rest(rest))
    <3>1. Cardinality(Opened(w)) \in Nat BY BegunFinite
    <3> QED BY <1>1, <3>1 DEF Signed
  <2> HIDE DEF f, d
  <2> QED BY <1>4, <1>8, <2>5, <2>6, <2>7 DEF AddedInv
<1>14. left'[w] \subseteq batch'[w] BY DEF OwnInv
<1> QED BY <1>10, <1>11, <1>12, <1>13, <1>14 DEF OwnInv

LEMMA NotFoundKeeps ==
    ASSUME TotalsAssumption, TotalsTypeOK, RowsInv, NEW w \in Writer, OwnInv(w), BatchInv(w),
           NotFound(w)
    PROVE  OwnInv(w)'
<1>1. CASE w = Cleaner
  <2>1. PICK m \in Opened(w) : NextRow(w) \in {RowOf("srcmsgtotals", m), RowOf("dstmsgtotals", m)}
    BY OwedApart DEF NotFound
  <2>2. m \in messages BY <1>1, <2>1 DEF Opened, BatchInv
  <2> QED BY <2>1, <2>2 DEF RowsInv, NotFound
<1>2. CASE w # Cleaner
  BY <1>2, OwnStays DEF NotFound
<1> QED BY <1>1, <1>2

LEMMA EndedKeeps ==
    ASSUME TotalsAssumption, TotalsTypeOK, NEW w \in Writer, Ended(w)
    PROVE  OwnInv(w)'
<1>1. /\ Opened(w)' = {} /\ owed'[w] = <<>> /\ ~inserts'[w] /\ adds'[w] = Zero
      /\ left'[w] \subseteq batch'[w]
  BY DEF Ended, Opened, TotalsTypeOK
<1>2. Items(<<>>) = {} /\ Rest(<<>>) = 0 BY OwedSteps
<1>3. OwedInv(w)' /\ HeldInv(w)' BY <1>1 DEF OwedInv, HeldInv
<1>4. AddsInv(w)'
  BY <1>1, <1>2, CountNone DEF AddsInv, Zero, Signed
<1>5. AddedInv(w)'
  <2>1. Added(w)' = [r \in Totals |-> 0] BY <1>1 DEF Added, Zero
  <2>2. SumFunctionOnSet(Added(w)', Totals) = 0 BY <2>1, SumZero, TotalsFinite
  <2>3. Cardinality(Opened(w)') = 0 BY <1>1, FS_EmptySet
  <2> QED BY <1>1, <1>2, <2>2, <2>3 DEF AddedInv, Signed
<1> QED BY <1>1, <1>3, <1>4, <1>5 DEF OwnInv

(* What a transaction commits is added to the totals, or taken off.          *)
LEMMA CommitKeeps ==
    ASSUME TotalsAssumption, TotalsTypeOK, RowsInv, NEW w \in Writer, OwnInv(w), BatchInv(w),
           CommitWrite(w)
    PROVE  RowsInv'
<1> DEFINE D == current_domains
           B == batch[w]
<1>1. /\ Opened(w) = B /\ owed[w] = <<>> /\ rows' = rows \cup held[w]
      /\ totals' = [r \in Totals |->
            [total |-> totals[r].total + adds[w][r].total,
             runtotal |-> totals[r].runtotal + adds[w][r].runtotal]]
      /\ current_domains' = D /\ (\A n : Calm(n)' <=> Calm(n))
  BY DEF CommitWrite, Opened, current_domains, Calm
<1>2. Items(owed[w]) = {} /\ Rest(owed[w]) = 0
  BY <1>1, OwedSteps
<1>3. /\ IsFiniteSet(messages) /\ Cardinality(messages) \in Nat
      /\ IsFiniteSet(B) /\ Cardinality(B) \in Nat
      /\ IsFiniteSet(messages \ B) /\ Cardinality(messages \ B) \in Nat
  <2>1. messages \subseteq Mail /\ B \subseteq Mail /\ messages \ B \subseteq Mail
    BY DEF TotalsTypeOK
  <2> QED BY <2>1, FS_Subset, FS_CardinalityType DEF TotalsAssumption
<1>4. \A r \in Totals :
        /\ adds[w][r].total = Signed(w, Cardinality(On(B, r)))
        /\ Calm(r[2]) => adds[w][r].runtotal = Signed(w, Parts(D, B, r))
        /\ r \notin held[w] => adds[w][r] = Zero[r]
  BY <1>1, <1>2 DEF OwnInv, AddsInv
<1>5. SumFunctionOnSet(Added(w), Totals) = Signed(w, 2 * Cardinality(B))
  BY <1>1, <1>2, <1>3 DEF OwnInv, AddedInv
<1>6. IF w = Cleaner THEN B \subseteq messages /\ messages' = messages \ B
      ELSE B \cap messages = {} /\ messages' = messages \cup B
  BY DEF CommitWrite, BatchInv
<1>7. \A r :
        /\ Cardinality(On(messages', r)) = Cardinality(On(messages, r)) + Signed(w, Cardinality(On(B, r)))
        /\ Parts(D, messages', r) = Parts(D, messages, r) + Signed(w, Parts(D, B, r))
  <2> TAKE r
  <2>1. /\ Cardinality(On(messages, r)) \in Nat /\ Parts(D, messages, r) \in Nat
        /\ Cardinality(On(B, r)) \in Nat /\ Parts(D, B, r) \in Nat
        /\ Cardinality(On(messages \ B, r)) \in Nat /\ Parts(D, messages \ B, r) \in Nat
    BY <1>3, CountTypes
  <2>2. CASE w = Cleaner
    <3>1. messages = (messages \ B) \cup B /\ (messages \ B) \cap B = {}
      BY <1>6, <2>2
    <3>2. /\ Cardinality(On(messages, r)) = Cardinality(On(messages \ B, r)) + Cardinality(On(B, r))
          /\ Parts(D, messages, r) = Parts(D, messages \ B, r) + Parts(D, B, r)
      BY <1>3, <3>1, CountBoth
    <3>3. \A x \in Nat : Signed(w, x) = -x
      BY <2>2 DEF Signed
    <3> HIDE DEF B, D
    <3>4. messages' = messages \ B
      BY <1>6, <2>2
    <3>5. /\ Signed(w, Cardinality(On(B, r))) = -Cardinality(On(B, r))
          /\ Signed(w, Parts(D, B, r)) = -Parts(D, B, r)
      BY <2>1, <3>3
    <3>6. /\ Cardinality(On(messages', r)) = Cardinality(On(messages \ B, r))
          /\ Parts(D, messages', r) = Parts(D, messages \ B, r)
      BY <3>4
    <3> QED BY <2>1, <3>2, <3>5, <3>6
  <2>3. CASE w # Cleaner
    <3>1. /\ Cardinality(On(messages \cup B, r)) = Cardinality(On(messages, r)) + Cardinality(On(B, r))
          /\ Parts(D, messages \cup B, r) = Parts(D, messages, r) + Parts(D, B, r)
      BY <1>3, <1>6, <2>3, CountBoth
    <3> QED BY <1>6, <2>3, <3>1 DEF Signed
  <2> QED BY <2>2, <2>3
<1>8. Cardinality(messages') = Cardinality(messages) + Signed(w, Cardinality(B))
  <2>1. CASE w = Cleaner
    <3>1. messages = (messages \ B) \cup B /\ (messages \ B) \cap B = {}
      BY <1>6, <2>1
    <3>2. Cardinality(messages) = Cardinality(messages \ B) + Cardinality(B)
      BY <1>3, <3>1, CountDisjoint
    <3>3. \A x \in Nat : Signed(w, x) = -x
      BY <2>1 DEF Signed
    <3> HIDE DEF B
    <3> QED BY <1>3, <1>6, <2>1, <3>2, <3>3
  <2>2. CASE w # Cleaner
    <3>1. Cardinality(messages \cup B) = Cardinality(messages) + Cardinality(B)
      BY <1>3, <1>6, <2>2, CountDisjoint
    <3> QED BY <1>6, <2>2, <3>1 DEF Signed
  <2> QED BY <2>1, <2>2
<1>9. /\ totals \in [Totals -> [total : Int, runtotal : Int]]
      /\ adds[w] \in [Totals -> [total : Int, runtotal : Int]]
  BY DEF TotalsTypeOK
<1>10. \A m \in messages', side \in {"srcmsgtotals", "dstmsgtotals"} : RowOf(side, m) \in rows'
  <2>1. \A m \in B, side \in {"srcmsgtotals", "dstmsgtotals"} : RowOf(side, m) \in held[w]
    BY <1>1, <1>2 DEF OwnInv, HeldInv
  <2>2. messages' \subseteq messages \cup B BY <1>6
  <2> QED BY <1>1, <2>1, <2>2 DEF RowsInv
<1>11. ASSUME NEW r \in Totals
       PROVE  /\ totals'[r].total = Cardinality(On(messages', r))
              /\ Calm(r[2]) => totals'[r].runtotal = Parts(D, messages', r)
              /\ r \notin rows' => totals'[r] = Zero[r]
  <2>1. /\ totals[r].total = Cardinality(On(messages, r))
        /\ Calm(r[2]) => totals[r].runtotal = Parts(D, messages, r)
        /\ r \notin rows => totals[r] = Zero[r]
    BY DEF RowsInv
  <2>2. totals'[r] = [total |-> totals[r].total + adds[w][r].total,
                      runtotal |-> totals[r].runtotal + adds[w][r].runtotal]
    BY <1>1
  <2>3. r \notin rows' => totals'[r] = Zero[r]
    BY <1>1, <1>4, <2>1, <2>2 DEF Zero
  <2> HIDE DEF D, B
  <2> QED BY <1>4, <1>7, <2>1, <2>2, <2>3
<1>12. SumFunctionOnSet(runtotal', Totals) = 2 * Cardinality(messages')
  <2>1. \A r \in Totals : /\ runtotal[r] \in Int /\ Added(w)[r] \in Int
                          /\ runtotal'[r] = runtotal[r] + Added(w)[r]
    BY <1>1, <1>9 DEF runtotal, Added
  <2>2. IsFiniteSet(Totals) BY TotalsFinite
  <2> DEFINE f == runtotal
             g == Added(w)
             h == runtotal'
  <2>3. SumFunctionOnSet(h, Totals) = SumFunctionOnSet(f, Totals) + SumFunctionOnSet(g, Totals)
    <3>1. \A r \in Totals : f[r] \in Int /\ g[r] \in Int /\ h[r] = f[r] + g[r]
      BY <2>1
    <3> HIDE DEF f, g, h, Totals
    <3> QED BY <2>2, <3>1, SumPlus
  <2>4. SumFunctionOnSet(runtotal, Totals) = 2 * Cardinality(messages)
    BY DEF RowsInv
  <2> QED BY <1>3, <1>5, <1>8, <2>3, <2>4 DEF Signed
<1> QED BY <1>1, <1>10, <1>11, <1>12 DEF RowsInv

(* Of another transaction, too, a commit leaves what it is about alone.      *)
LEMMA BatchKeeps ==
    ASSUME TotalsTypeOK, \A w \in Writer : OwnInv(w) /\ BatchInv(w),
           NEW v \in Writer, WriterStep(v), NEW w \in Writer
    PROVE  BatchInv(w)'
<1> USE DEF TotalsTypeOK, BatchInv
<1>1. CASE BeginWrite(v)  BY <1>1 DEF BeginWrite
<1>2. CASE LookUp(v)      BY <1>2 DEF LookUp
<1>3. CASE UpdateRow(v)   BY <1>3 DEF UpdateRow
<1>4. CASE NotFound(v)    BY <1>4 DEF NotFound
<1>5. CASE InsertRow(v)   BY <1>5 DEF InsertRow
<1>6. CASE CommitWrite(v)
  <2>1. batch' = [batch EXCEPT ![v] = {}] BY <1>6 DEF CommitWrite, Ended
  <2>2. CASE w = v BY <2>1, <2>2
  <2>3. CASE w # v /\ v = Cleaner
    BY <1>6, <2>1, <2>3 DEF CommitWrite
  <2>4. CASE w # v /\ v # Cleaner
    BY <1>6, <2>1, <2>4 DEF CommitWrite
  <2> QED BY <2>2, <2>3, <2>4
<1>7. CASE RollBack(v)    BY <1>7 DEF RollBack, Ended
<1> QED BY <1>1, <1>2, <1>3, <1>4, <1>5, <1>6, <1>7 DEF WriterStep

LEMMA WriterKeeps ==
    ASSUME TotalsAssumption, TotalsTypeOK, RowsInv, \A w \in Writer : OwnInv(w) /\ BatchInv(w),
           NEW v \in Writer, WriterStep(v)
    PROVE  RowsInv' /\ \A w \in Writer : OwnInv(w)' /\ BatchInv(w)'
<1>1. \A w \in Writer : BatchInv(w)'
  BY BatchKeeps
<1>2. ASSUME NEW w \in Writer, w # v PROVE OwnInv(w)'
  <2>1. /\ UNCHANGED names /\ batch'[w] = batch[w] /\ left'[w] = left[w] /\ owed'[w] = owed[w]
        /\ held'[w] = held[w] /\ adds'[w] = adds[w] /\ inserts'[w] = inserts[w]
    <3> USE DEF TotalsTypeOK
    <3>1. CASE BeginWrite(v)  BY <1>2, <3>1 DEF BeginWrite
    <3>2. CASE LookUp(v)      BY <1>2, <3>2 DEF LookUp
    <3>3. CASE UpdateRow(v)   BY <1>2, <3>3 DEF UpdateRow, Changes
    <3>4. CASE NotFound(v)    BY <1>2, <3>4 DEF NotFound
    <3>5. CASE InsertRow(v)   BY <1>2, <3>5 DEF InsertRow, Changes
    <3>6. CASE CommitWrite(v) BY <1>2, <3>6 DEF CommitWrite, Ended
    <3>7. CASE RollBack(v)    BY <1>2, <3>7 DEF RollBack, Ended
    <3> QED BY <3>1, <3>2, <3>3, <3>4, <3>5, <3>6, <3>7 DEF WriterStep
  <2>2. OwnInv(w) /\ (inserts'[w] => owed[w] # <<>>) BY <2>1 DEF OwnInv
  <2> QED BY <2>1, <2>2, OwnStays
<1>3. OwnInv(v)'
  <2>1. CASE BeginWrite(v)
    <3>1. owed[v] = <<>> /\ Opened(v) = {}
      BY <2>1 DEF BeginWrite, Opened, OwnInv, OwedInv
    <3>2. PICK ms \in SUBSET Mail : batch' = [batch EXCEPT ![v] = ms] /\ left' = [left EXCEPT ![v] = ms]
      BY <2>1 DEF BeginWrite
    <3>3. batch'[v] = ms /\ left'[v] = ms BY <3>2 DEF TotalsTypeOK
    <3>4. Opened(v)' = Opened(v) /\ left'[v] \subseteq batch'[v] BY <3>1, <3>3 DEF Opened
    <3>5. /\ UNCHANGED <<names, owed, inserts, held, adds>>
          /\ current_domains' = current_domains /\ \A n : Calm(n)' <=> Calm(n)
      BY <2>1 DEF BeginWrite, current_domains, Calm
    <3>6. OwedInv(v)' BY <3>1, <3>5 DEF OwedInv
    <3>7. AddsInv(v)' BY <3>4, <3>5 DEF OwnInv, AddsInv
    <3>8. HeldInv(v)' BY <3>4, <3>5 DEF OwnInv, HeldInv
    <3>9. AddedInv(v)' BY <3>4, <3>5 DEF OwnInv, AddedInv, Added
    <3> QED BY <3>4, <3>5, <3>6, <3>7, <3>8, <3>9 DEF OwnInv
  <2>2. CASE LookUp(v)      BY <2>2, LookUpKeeps
  <2>3. CASE UpdateRow(v)   BY <2>3, ChangeKeeps DEF UpdateRow
  <2>4. CASE NotFound(v)    BY <2>4, NotFoundKeeps
  <2>5. CASE InsertRow(v)
    <3>1. owed[v] # <<>> /\ ~inserts'[v] BY <2>5 DEF InsertRow, OwnInv, TotalsTypeOK
    <3> QED BY <2>5, <3>1, ChangeKeeps DEF InsertRow
  <2>6. CASE CommitWrite(v) BY <2>6, EndedKeeps DEF CommitWrite
  <2>7. CASE RollBack(v)    BY <2>7, EndedKeeps DEF RollBack
  <2> QED BY <2>1, <2>2, <2>3, <2>4, <2>5, <2>6, <2>7 DEF WriterStep
<1>4. RowsInv'
  <2>1. CASE CommitWrite(v) BY <2>1, CommitKeeps
  <2>2. CASE UNCHANGED <<names, committed>>
    BY <2>2 DEF RowsInv, current_domains, Calm, runtotal
  <2> QED BY <2>1, <2>2 DEF WriterStep, BeginWrite, LookUp, UpdateRow, NotFound, InsertRow, RollBack
<1> QED BY <1>1, <1>2, <1>3, <1>4

-----------------------------------------------------------------------------
(* The pages that change the names                                           *)

(* What is said of rows whose names stay is not touched by others that go.   *)
LEMMA NamesKeep ==
    ASSUME TotalsAssumption, TotalsTypeOK, RowsInv, \A w \in Writer : OwnInv(w) /\ BatchInv(w),
           NEW ns, touched' = touched \cup ns, UNCHANGED <<committed, writes>>,
           \A x \in Host \ ns : x \in current_domains' <=> x \in current_domains
    PROVE  RowsInv' /\ \A w \in Writer : OwnInv(w)' /\ BatchInv(w)'
<1>1. \A n : Calm(n)' => Calm(n)
  BY DEF Calm
<1>2. ASSUME NEW m \in Mail, NEW side, Calm(Src[m])' \/ Calm(Dst[m])'
      PROVE  PartIn(current_domains', side, m) = PartIn(current_domains, side, m)
  <2>1. Src[m] \in Host \ ns /\ Dst[m] \in Host \ ns
    BY <1>2 DEF Calm, TotalsAssumption
  <2>2. /\ Src[m] \in current_domains' <=> Src[m] \in current_domains
        /\ Dst[m] \in current_domains' <=> Dst[m] \in current_domains
    BY <2>1
  <2> QED BY <2>2 DEF PartIn, NameOf
<1>3. ASSUME NEW S \in SUBSET Mail, NEW r \in Totals, Calm(r[2])'
      PROVE  Parts(current_domains', S, r) = Parts(current_domains, S, r)
  <2>1. \A m \in On(S, r) : PartIn(current_domains', r[1], m) = PartIn(current_domains, r[1], m)
    BY <1>2, <1>3 DEF On, NameOf
  <2>2. /\ {m \in On(S, r) : PartIn(current_domains', r[1], m) >= 1}
            = {m \in On(S, r) : PartIn(current_domains, r[1], m) >= 1}
        /\ {m \in On(S, r) : PartIn(current_domains', r[1], m) = 2}
            = {m \in On(S, r) : PartIn(current_domains, r[1], m) = 2}
    BY <2>1
  <2> QED BY <2>2 DEF Parts
<1>4. RowsInv'
  <2>1. messages \in SUBSET Mail BY DEF TotalsTypeOK
  <2>2. \A r \in Totals : Calm(r[2])' => totals[r].runtotal = Parts(current_domains', messages, r)
    BY <1>1, <1>3, <2>1 DEF RowsInv
  <2>3. /\ \A m \in messages, side \in {"srcmsgtotals", "dstmsgtotals"} : RowOf(side, m) \in rows
        /\ \A r \in Totals : /\ totals[r].total = Cardinality(On(messages, r))
                             /\ r \notin rows => totals[r] = Zero[r]
        /\ SumFunctionOnSet(runtotal, Totals) = 2 * Cardinality(messages)
    BY DEF RowsInv
  <2>4. runtotal' = runtotal BY DEF runtotal
  <2> QED BY <2>2, <2>3, <2>4 DEF RowsInv
<1>5. ASSUME NEW w \in Writer PROVE OwnInv(w)'
  <2>1. Opened(w)' = Opened(w) /\ Opened(w) \in SUBSET Mail
    BY BegunFinite DEF Opened
  <2>2. OwedInv(w)'
    <3>1. CASE owed[w] = <<>> BY <3>1 DEF OwedInv
    <3>2. CASE owed[w] # <<>>
      <4>1. PICK m \in Opened(w), p \in 0 .. 2 :
                /\ \/ owed[w] = <<Posting("srcmsgtotals", m, p), Posting("dstmsgtotals", m, 2 - p)>>
                   \/ owed[w] = <<Posting("dstmsgtotals", m, 2 - p)>>
                /\ Calm(Src[m]) \/ Calm(Dst[m]) => p = PartIn(current_domains, "srcmsgtotals", m)
        BY <3>2 DEF OwnInv, OwedInv
      <4>2. Calm(Src[m])' \/ Calm(Dst[m])' => p = PartIn(current_domains', "srcmsgtotals", m)
        BY <1>1, <1>2, <2>1, <4>1
      <4> QED BY <2>1, <4>1, <4>2 DEF OwedInv
    <3> QED BY <3>1, <3>2
  <2>3. AddsInv(w)'
    BY <1>1, <1>3, <2>1 DEF OwnInv, AddsInv
  <2>4. HeldInv(w)' BY <2>1 DEF OwnInv, HeldInv
  <2>5. AddedInv(w)' BY <2>1 DEF OwnInv, AddedInv, Added
  <2> QED BY <2>2, <2>3, <2>4, <2>5 DEF OwnInv
<1>6. \A w \in Writer : BatchInv(w)' BY DEF BatchInv
<1> QED BY <1>4, <1>5, <1>6

LEMMA TotalsInductive == ASSUME TotalsAssumption PROVE TotalsSpec => []TotalsInv
<1>1. TotalsInit => TotalsInv
  <2> SUFFICES ASSUME TotalsInit PROVE TotalsInv
    OBVIOUS
  <2>1. TotalsTypeOK
    BY DEF TotalsInit, TotalsTypeOK, TotalsAssumption, Zero, current_domains
  <2>2. \A w \in Writer : OwnInv(w) /\ BatchInv(w)
    BY OwnIdle DEF TotalsInit, Opened, BatchInv
  <2>3. RowsInv
    <3>1. \A r \in Totals : runtotal[r] = 0 BY DEF TotalsInit, runtotal, Zero
    <3>2. SumFunctionOnSet(runtotal, Totals) = 0 BY <3>1, SumZero, TotalsFinite
    <3>3. \A r \in Totals : totals[r].total = 0 /\ totals[r].runtotal = 0
      BY DEF TotalsInit, Zero
    <3> QED BY <3>2, <3>3, CountNone, FS_EmptySet DEF TotalsInit, RowsInv
  <2> QED BY <2>1, <2>2, <2>3 DEF TotalsInv
<1>2. TotalsInv /\ [TotalsNext]_totalsVars => TotalsInv'
  <2> SUFFICES ASSUME TotalsInv, [TotalsNext]_totalsVars PROVE TotalsInv'
    OBVIOUS
  <2>1. CASE TotalsNext
    <3>1. TotalsTypeOK' BY <2>1, TotalsTypeStep DEF TotalsInv
    <3>2. ASSUME NEW w \in Writer, WriterStep(w)
          PROVE  RowsInv' /\ \A v \in Writer : OwnInv(v)' /\ BatchInv(v)'
      BY <3>2, WriterKeeps DEF TotalsInv
    <3>3. ASSUME NEW n \in Ours, NameStep(n)
          PROVE  RowsInv' /\ \A v \in Writer : OwnInv(v)' /\ BatchInv(v)'
      <4> USE DEF TotalsInv
      <4>1. CASE AddName(n)
        <5>1. \A x \in Host \ {n} : x \in current_domains' <=> x \in current_domains
          BY <4>1 DEF AddName, current_domains, TotalsTypeOK
        <5> QED BY <4>1, <5>1, NamesKeep DEF AddName
      <4>2. CASE SwitchName(n)
        <5>1. /\ \A x \in Host \ {} : x \in current_domains' <=> x \in current_domains
              /\ touched' = touched \cup {}
          BY <4>2 DEF SwitchName, current_domains, TotalsTypeOK
        <5> QED BY <4>2, <5>1, NamesKeep DEF SwitchName
      <4>3. CASE DeleteName(n)
        <5> DEFINE ns == Aliases(n) \cup {n}
        <5>1. /\ nameStatus' = [a \in Host |-> IF a \in ns THEN "none" ELSE nameStatus[a]]
              /\ touched' = touched \cup ns /\ rows' = rows
              /\ UNCHANGED <<messages, deleted, writes>>
              /\ totals' = [r \in Totals |-> totals[r]]
          BY <4>3 DEF DeleteName, DeleteWith
        <5>2. totals' = totals BY <5>1 DEF TotalsTypeOK
        <5>3. \A x \in Host \ ns : x \in current_domains' <=> x \in current_domains
          BY <5>1 DEF current_domains
        <5> HIDE DEF ns
        <5> QED BY <5>1, <5>2, <5>3, NamesKeep
      <4> QED BY <3>3, <4>1, <4>2, <4>3 DEF NameStep
    <3> QED BY <2>1, <3>1, <3>2, <3>3 DEF TotalsNext, TotalsInv
  <2>2. CASE UNCHANGED totalsVars
    <3>1. /\ \A x \in Host \ {} : x \in current_domains' <=> x \in current_domains
          /\ touched' = touched \cup {} /\ UNCHANGED <<committed, writes>>
      BY <2>2 DEF current_domains
    <3>2. RowsInv' /\ \A w \in Writer : OwnInv(w)' /\ BatchInv(w)'
      BY <3>1, NamesKeep DEF TotalsInv
    <3>3. TotalsTypeOK' BY <2>2 DEF TotalsInv, TotalsTypeOK, current_domains
    <3> QED BY <3>2, <3>3 DEF TotalsInv
  <2> QED BY <2>1, <2>2
<1> QED BY <1>1, <1>2, PTL DEF TotalsSpec

-----------------------------------------------------------------------------
(* What the pages show                                                       *)

(* The halves that the rows of a set of names have, added up.                *)
LEMMA SumOfParts ==
    ASSUME TotalsAssumption, TotalsInv, NEW N \in SUBSET current_domains, \A n \in N : Calm(n)
    PROVE  LET A == {m \in messages : Src[m] \in N}
               B == {m \in messages : Dst[m] \in N}
               Lone == {m \in messages : ~ ({Src[m], Dst[m]} \subseteq current_domains)}
           IN  RunTotal(N) = (Cardinality(A) + Cardinality(A \cap Lone))
                        + (Cardinality(B) + Cardinality(B \cap Lone))
<1> DEFINE D == current_domains
           A == {m \in messages : Src[m] \in N}
           B == {m \in messages : Dst[m] \in N}
           Lone == {m \in messages : ~ ({Src[m], Dst[m]} \subseteq D)}
           R == {r \in Totals : r[2] \in N}
           src == [m \in messages |-> <<"srcmsgtotals", Src[m]>>]
           dst == [m \in messages |-> <<"dstmsgtotals", Dst[m]>>]
           f1 == [r \in R |-> Cardinality({m \in messages : src[m] = r})]
           f2 == [r \in R |-> Cardinality({m \in Lone : src[m] = r})]
           f3 == [r \in R |-> Cardinality({m \in messages : dst[m] = r})]
           f4 == [r \in R |-> Cardinality({m \in Lone : dst[m] = r})]
           g1 == [r \in R |-> f1[r] + f2[r]]
           g2 == [r \in R |-> f3[r] + f4[r]]
           h == [r \in R |-> g1[r] + g2[r]]
<1>1. /\ IsFiniteSet(messages) /\ IsFiniteSet(Lone) /\ IsFiniteSet(R) /\ IsFiniteSet(Totals)
      /\ messages \subseteq Mail /\ N \subseteq Host
  <2>1. messages \subseteq Mail /\ N \subseteq Host
    BY DEF TotalsInv, TotalsTypeOK, current_domains
  <2>2. IsFiniteSet(messages) /\ IsFiniteSet(Totals)
    BY <2>1, FS_Subset, TotalsFinite DEF TotalsAssumption
  <2>3. Lone \subseteq messages /\ R \subseteq Totals OBVIOUS
  <2> HIDE DEF Lone, R, Totals
  <2> QED BY <2>1, <2>2, <2>3, FS_Subset
<1>2. \A r \in R : /\ f1[r] \in Int /\ f2[r] \in Int /\ f3[r] \in Int /\ f4[r] \in Int
                   /\ g1[r] \in Int /\ g2[r] \in Int
                   /\ g1[r] = f1[r] + f2[r] /\ g2[r] = f3[r] + f4[r] /\ h[r] = g1[r] + g2[r]
  <2> TAKE r \in R
  <2>1. /\ {m \in messages : src[m] = r} \subseteq messages
        /\ {m \in messages : dst[m] = r} \subseteq messages
        /\ {m \in Lone : src[m] = r} \subseteq Lone /\ {m \in Lone : dst[m] = r} \subseteq Lone
    OBVIOUS
  <2> HIDE DEF src, dst, Lone, R
  <2>2. /\ Cardinality({m \in messages : src[m] = r}) \in Nat
        /\ Cardinality({m \in Lone : src[m] = r}) \in Nat
        /\ Cardinality({m \in messages : dst[m] = r}) \in Nat
        /\ Cardinality({m \in Lone : dst[m] = r}) \in Nat
    BY <1>1, <2>1, FS_Subset, FS_CardinalityType
  <2>3. f1[r] \in Int /\ f2[r] \in Int /\ f3[r] \in Int /\ f4[r] \in Int
    BY <2>2
  <2> HIDE DEF f1, f2, f3, f4
  <2> QED BY <2>3
<1>3. /\ SumFunctionOnSet(f1, R) = Cardinality({m \in messages : src[m] \in R})
      /\ SumFunctionOnSet(f2, R) = Cardinality({m \in Lone : src[m] \in R})
      /\ SumFunctionOnSet(f3, R) = Cardinality({m \in messages : dst[m] \in R})
      /\ SumFunctionOnSet(f4, R) = Cardinality({m \in Lone : dst[m] \in R})
  <2>1. SumFunctionOnSet(f1, R) = Cardinality({m \in messages : src[m] \in R})
    <3>1. \A r \in R : f1[r] = Cardinality(Keyed(messages, src, {r}))
      <4>1. \A r \in R : Keyed(messages, src, {r}) = {m \in messages : src[m] = r} BY DEF Keyed
      <4> QED BY <4>1
    <3> HIDE DEF R, f1, src, Lone
    <3>2. SumFunctionOnSet(f1, R) = Cardinality(Keyed(messages, src, R)) BY <1>1, <3>1, SumCount
    <3> QED BY <3>2 DEF Keyed
  <2>2. SumFunctionOnSet(f2, R) = Cardinality({m \in Lone : src[m] \in R})
    <3>1. \A r \in R : f2[r] = Cardinality(Keyed(Lone, src, {r}))
      <4>1. \A r \in R : Keyed(Lone, src, {r}) = {m \in Lone : src[m] = r} BY DEF Keyed
      <4> QED BY <4>1
    <3> HIDE DEF R, f2, src, Lone
    <3>2. SumFunctionOnSet(f2, R) = Cardinality(Keyed(Lone, src, R)) BY <1>1, <3>1, SumCount
    <3> QED BY <3>2 DEF Keyed
  <2>3. SumFunctionOnSet(f3, R) = Cardinality({m \in messages : dst[m] \in R})
    <3>1. \A r \in R : f3[r] = Cardinality(Keyed(messages, dst, {r}))
      <4>1. \A r \in R : Keyed(messages, dst, {r}) = {m \in messages : dst[m] = r} BY DEF Keyed
      <4> QED BY <4>1
    <3> HIDE DEF R, f3, dst, Lone
    <3>2. SumFunctionOnSet(f3, R) = Cardinality(Keyed(messages, dst, R)) BY <1>1, <3>1, SumCount
    <3> QED BY <3>2 DEF Keyed
  <2>4. SumFunctionOnSet(f4, R) = Cardinality({m \in Lone : dst[m] \in R})
    <3>1. \A r \in R : f4[r] = Cardinality(Keyed(Lone, dst, {r}))
      <4>1. \A r \in R : Keyed(Lone, dst, {r}) = {m \in Lone : dst[m] = r} BY DEF Keyed
      <4> QED BY <4>1
    <3> HIDE DEF R, f4, dst, Lone
    <3>2. SumFunctionOnSet(f4, R) = Cardinality(Keyed(Lone, dst, R)) BY <1>1, <3>1, SumCount
    <3> QED BY <3>2 DEF Keyed
  <2> QED BY <2>1, <2>2, <2>3, <2>4
<1>4. /\ {m \in messages : src[m] \in R} = A /\ {m \in Lone : src[m] \in R} = A \cap Lone
      /\ {m \in messages : dst[m] \in R} = B /\ {m \in Lone : dst[m] \in R} = B \cap Lone
  BY <1>1
<1>5. \A r \in R : runtotal[r] = h[r]
  <2> TAKE r \in R
  <2>1. runtotal[r] = Parts(D, messages, r)
    BY DEF TotalsInv, RowsInv, runtotal
  <2>2. /\ {m \in On(messages, r) : PartIn(D, r[1], m) >= 1} = On(messages, r)
        /\ {m \in On(messages, r) : PartIn(D, r[1], m) = 2} = {m \in Lone : m \in On(messages, r)}
    BY DEF On, PartIn, NameOf
  <2>3. CASE r[1] = "srcmsgtotals"
    <3>1. /\ On(messages, r) = {m \in messages : src[m] = r}
          /\ {m \in Lone : m \in On(messages, r)} = {m \in Lone : src[m] = r}
          /\ {m \in messages : dst[m] = r} = {} /\ {m \in Lone : dst[m] = r} = {}
      BY <2>3 DEF On, NameOf
    <3>2. f3[r] = 0 /\ f4[r] = 0 BY <3>1, FS_EmptySet
    <3>3. f1[r] + f2[r] = Parts(D, messages, r) BY <2>2, <3>1 DEF Parts
    <3> HIDE DEF f1, f2, f3, f4, g1, g2, h
    <3> QED BY <1>2, <2>1, <3>2, <3>3
  <2>4. CASE r[1] = "dstmsgtotals"
    <3>1. /\ On(messages, r) = {m \in messages : dst[m] = r}
          /\ {m \in Lone : m \in On(messages, r)} = {m \in Lone : dst[m] = r}
          /\ {m \in messages : src[m] = r} = {} /\ {m \in Lone : src[m] = r} = {}
      BY <2>4 DEF On, NameOf
    <3>2. f1[r] = 0 /\ f2[r] = 0 BY <3>1, FS_EmptySet
    <3>3. f3[r] + f4[r] = Parts(D, messages, r) BY <2>2, <3>1 DEF Parts
    <3> HIDE DEF f1, f2, f3, f4, g1, g2, h
    <3> QED BY <1>2, <2>1, <3>2, <3>3
  <2> QED BY <2>3, <2>4
<1>6. SumFunctionOnSet(h, R) = (SumFunctionOnSet(f1, R) + SumFunctionOnSet(f2, R))
                               + (SumFunctionOnSet(f3, R) + SumFunctionOnSet(f4, R))
  <2> HIDE DEF R, f1, f2, f3, f4, g1, g2, h
  <2>1. SumFunctionOnSet(g1, R) = SumFunctionOnSet(f1, R) + SumFunctionOnSet(f2, R)
    BY <1>1, <1>2, SumPlus
  <2>2. SumFunctionOnSet(g2, R) = SumFunctionOnSet(f3, R) + SumFunctionOnSet(f4, R)
    BY <1>1, <1>2, SumPlus
  <2>3. SumFunctionOnSet(h, R) = SumFunctionOnSet(g1, R) + SumFunctionOnSet(g2, R)
    BY <1>1, <1>2, SumPlus
  <2> QED BY <2>1, <2>2, <2>3
<1>7. SumFunctionOnSet(runtotal, R) = SumFunctionOnSet(h, R)
  <2> DEFINE z == [r \in R |-> 0]
  <2>1. SumFunctionOnSet(z, R) = 0 BY <1>1, SumZero
  <2>2. \A r \in R : h[r] \in Int /\ z[r] \in Int /\ runtotal[r] = h[r] + z[r]
    <3>1. \A r \in R : z[r] = 0 OBVIOUS
    <3> HIDE DEF f1, f2, f3, f4, g1, g2, h, z, R
    <3>2. \A r \in R : h[r] \in Int BY <1>2
    <3> QED BY <1>5, <3>1, <3>2
  <2>3. SumFunctionOnSet(h, R) \in Int
    <3> HIDE DEF h, z, R
    <3> QED BY <1>1, <2>2, SumType
  <2> HIDE DEF h, z, R
  <2>4. SumFunctionOnSet(runtotal, R) = SumFunctionOnSet(h, R) + SumFunctionOnSet(z, R)
    BY <1>1, <2>2, SumPlus
  <2> QED BY <2>1, <2>3, <2>4
<1>8. RunTotal(N) = SumFunctionOnSet(runtotal, R)
  <2> DEFINE Q == {r \in rows : r[2] \in N}
  <2>1. Q \in SUBSET R /\ \A r \in R \ Q : runtotal[r] = 0
    BY DEF TotalsInv, TotalsTypeOK, RowsInv, runtotal, Zero
  <2>2. \A r \in R : runtotal[r] \in Int
    BY DEF TotalsInv, TotalsTypeOK, runtotal
  <2>3. SumFunctionOnSet(runtotal, Q) = SumFunctionOnSet(runtotal, R)
    <3> HIDE DEF Q, R
    <3> QED BY <1>1, <2>1, <2>2, SumSupport
  <2> QED BY <2>3 DEF RunTotal
<1> HIDE DEF f1, f2, f3, f4, g1, g2, h, R, src, dst
<1> QED BY <1>3, <1>4, <1>6, <1>7, <1>8

(* Each message of an administrator is counted twice, but for those that     *)
(* cross to another hosted name.                                             *)
CountedTwice(M, N, D) ==
    LET A == {m \in M : Src[m] \in N}
        B == {m \in M : Dst[m] \in N}
        Lone == {m \in M : ~ ({Src[m], Dst[m]} \subseteq D)}
        Both == {m \in A \cup B : {Src[m], Dst[m]} \subseteq D /\ ~ ({Src[m], Dst[m]} \subseteq N)}
    IN  (Cardinality(A) + Cardinality(A \cap Lone)) + (Cardinality(B) + Cardinality(B \cap Lone))
             = 2 * Cardinality(A \cup B) - Cardinality(Both)

LEMMA EachTwice ==
    ASSUME NEW M, IsFiniteSet(M), NEW N, NEW D, N \subseteq D
    PROVE  CountedTwice(M, N, D)
<1> DEFINE A == {m \in M : Src[m] \in N}
           B == {m \in M : Dst[m] \in N}
           Lone == {m \in M : ~ ({Src[m], Dst[m]} \subseteq D)}
           Both == {m \in A \cup B : {Src[m], Dst[m]} \subseteq D /\ ~ ({Src[m], Dst[m]} \subseteq N)}
           AB == A \cap B
           A1 == A \cap Lone
           B1 == B \cap Lone
<1>1. /\ A \cup B = ((AB \cup A1) \cup B1) \cup Both
      /\ AB \cap A1 = {} /\ (AB \cup A1) \cap B1 = {} /\ ((AB \cup A1) \cup B1) \cap Both = {}
  OBVIOUS
<1>2. A \subseteq M /\ B \subseteq M /\ AB \subseteq M /\ A1 \subseteq M /\ B1 \subseteq M
      /\ Both \subseteq M
  OBVIOUS
<1> HIDE DEF A, B, AB, A1, B1, Both, Lone
<1>3. /\ IsFiniteSet(A) /\ Cardinality(A) \in Nat /\ IsFiniteSet(B) /\ Cardinality(B) \in Nat
      /\ IsFiniteSet(AB) /\ Cardinality(AB) \in Nat /\ IsFiniteSet(A1) /\ Cardinality(A1) \in Nat
      /\ IsFiniteSet(B1) /\ Cardinality(B1) \in Nat /\ IsFiniteSet(Both) /\ Cardinality(Both) \in Nat
  BY <1>2, FS_Subset, FS_CardinalityType
<1>4. Cardinality(A \cup B) = Cardinality(A) + Cardinality(B) - Cardinality(AB)
  BY <1>3, FS_Union DEF AB
<1>5. IsFiniteSet(AB \cup A1) /\ Cardinality(AB \cup A1) = Cardinality(AB) + Cardinality(A1)
  BY <1>1, <1>3, CountDisjoint
<1>6. /\ IsFiniteSet((AB \cup A1) \cup B1)
      /\ Cardinality((AB \cup A1) \cup B1) = Cardinality(AB \cup A1) + Cardinality(B1)
  BY <1>1, <1>3, <1>5, CountDisjoint
<1>7. Cardinality(A \cup B) = Cardinality((AB \cup A1) \cup B1) + Cardinality(Both)
  BY <1>1, <1>3, <1>6, CountDisjoint
<1>8. (Cardinality(A) + Cardinality(A1)) + (Cardinality(B) + Cardinality(B1))
            = 2 * Cardinality(A \cup B) - Cardinality(Both)
  BY <1>3, <1>4, <1>5, <1>6, <1>7
<1> QED BY <1>8 DEF CountedTwice, A, B, A1, B1, Both, Lone

(* The variables of Totals have their types.                                 *)
THEOREM TotalsTypeCorrect == ASSUME TotalsAssumption PROVE TotalsSpec => []TotalsTypeOK
<1>1. TotalsInv => TotalsTypeOK
  BY DEF TotalsInv
<1> QED BY <1>1, TotalsInductive, PTL

(* For any messages and names, however transactions overlap, wait, are       *)
(* rolled back and meet the unique key, and whatever domains come and go:    *)
(* the counts that are kept are those of the messages                        *)
(* (functions.sql:17-113, query.py:397-440, 486-501).                        *)
THEOREM CountsAlwaysAgree == ASSUME TotalsAssumption PROVE TotalsSpec => []CountsAgree
<1>1. ASSUME TotalsInv PROVE CountsAgree
  <2>1. ASSUME NEW n \in Host, NEW side \in {"srcmsgtotals", "dstmsgtotals"}
        PROVE  totals[<<side, n>>].total = Cardinality(GroupedBy(side, n))
    <3>1. GroupedBy(side, n) = On(messages, <<side, n>>)
      BY DEF GroupedBy, On, NameOf
    <3>2. <<side, n>> \in Totals OBVIOUS
    <3> QED BY <1>1, <3>1, <3>2 DEF TotalsInv, RowsInv
  <2>2. RunTotal(Host) = 2 * Cardinality(messages)
    <3> DEFINE Q == {r \in rows : r[2] \in Host}
    <3>1. /\ Q \in SUBSET Totals /\ \A r \in Totals \ Q : runtotal[r] = 0
          /\ \A r \in Totals : runtotal[r] \in Int
      BY <1>1 DEF TotalsInv, TotalsTypeOK, RowsInv, runtotal, Zero
    <3>2. SumFunctionOnSet(runtotal, Q) = SumFunctionOnSet(runtotal, Totals)
      <4>1. IsFiniteSet(Totals) BY TotalsFinite
      <4> HIDE DEF Q, Totals
      <4> QED BY <3>1, <4>1, SumSupport
    <3> QED BY <1>1, <3>2 DEF RunTotal, TotalsInv, RowsInv
  <2>3. ASSUME NEW o \in Organization,
               \A m \in Mail : {Src[m], Dst[m]} \cap Names(o) # {}
                               => {Src[m], Dst[m]} \cap touched = {}
        PROVE  RunTotal(Names(o)) = 2 * Cardinality(FilteredFor(o)) - Cardinality(Crossing(o))
    <3>1. Names(o) \in SUBSET current_domains /\ \A n \in Names(o) : Calm(n)
      BY <2>3 DEF Names, current_domains, Calm
    <3>2. IsFiniteSet(messages)
      BY <1>1, FS_Subset DEF TotalsInv, TotalsTypeOK, TotalsAssumption
    <3> DEFINE N == Names(o)
               D == current_domains
               A == {m \in messages : Src[m] \in N}
               B == {m \in messages : Dst[m] \in N}
               Lone == {m \in messages : ~ ({Src[m], Dst[m]} \subseteq D)}
               Both == {m \in A \cup B : {Src[m], Dst[m]} \subseteq D /\ ~ ({Src[m], Dst[m]} \subseteq N)}
    <3>3. RunTotal(N) = (Cardinality(A) + Cardinality(A \cap Lone)) + (Cardinality(B) + Cardinality(B \cap Lone))
      BY <1>1, <3>1, SumOfParts
    <3>4. (Cardinality(A) + Cardinality(A \cap Lone)) + (Cardinality(B) + Cardinality(B \cap Lone))
                = 2 * Cardinality(A \cup B) - Cardinality(Both)
      <4>1. N \subseteq D BY <3>1
      <4>2. CountedTwice(messages, N, D)
        <5> HIDE DEF N, D
        <5> QED BY <3>2, <4>1, EachTwice
      <4> QED BY <4>2 DEF CountedTwice
    <3>5. FilteredFor(o) = A \cup B /\ Crossing(o) = Both
      BY DEF FilteredFor, Crossing
    <3> HIDE DEF N, D, A, B, Lone, Both
    <3> QED BY <3>3, <3>4, <3>5 DEF N
  <2> QED BY <2>1, <2>2, <2>3 DEF CountsAgree
<1> QED BY <1>1, TotalsInductive, PTL

-----------------------------------------------------------------------------
(* Filters: what DynaQuery makes of a list                                   *)

(* The filters of X with the key k, and whether it has more than one of them.*)
WithKey(X, k) == {g \in X : KeyOf[g] = k}
Several(X, k) == \E g, h \in WithKey(X, k) : g # h

(* What DynaQuery has of the filters X when it has passed over them.         *)
Clauses(X) ==
    [kwargs |-> {f \in X : ~Several(X, KeyOf[f])},
     orclauses |-> [k \in Range(KeyOf) |-> IF Several(X, k) THEN WithKey(X, k) ELSE {}],
     lkwargs |-> {k \in Range(KeyOf) : Several(X, k)}]

LEMMA ClausesOfNone == Clauses({}) = NoClauses
  BY DEF Clauses, NoClauses, Several, WithKey

(* One more filter is taken from there.                                      *)
LEMMA ClausesAndOne ==
    ASSUME NEW X, NEW f, f \notin X, X \cup {f} \subseteq DOMAIN KeyOf
    PROVE  load_keys(Clauses(X), f) = Clauses(X \cup {f})
<1> DEFINE k == KeyOf[f]
           Y == X \cup {f}
           acc == Clauses(X)
           first == {g \in acc.kwargs : KeyOf[g] = k}
           K == Range(KeyOf)
<1>1. k \in K BY DEF Range
<1>2. \A g \in X : KeyOf[g] \in K BY DEF Range
<1>3. \A j \in K : WithKey(Y, j) = IF j = k THEN WithKey(X, j) \cup {f} ELSE WithKey(X, j)
  BY DEF WithKey
<1>4. \A j \in K : j # k => (Several(Y, j) <=> Several(X, j))
  BY <1>3 DEF Several
<1>5. Several(Y, k) <=> WithKey(X, k) # {}
  BY <1>1, <1>3 DEF Several, WithKey
<1>6. first = IF Several(X, k) THEN {} ELSE WithKey(X, k)
  BY DEF Clauses, WithKey
<1>7. Several(X, k) => WithKey(X, k) # {}
  BY DEF Several
<1>8. CASE first # {}
  <2>1. ~Several(X, k) /\ first = WithKey(X, k) /\ Several(Y, k)
    BY <1>5, <1>6, <1>8
  <2>2. acc.kwargs \ first = {g \in Y : ~Several(Y, KeyOf[g])}
    BY <1>2, <1>4, <2>1 DEF Clauses, WithKey
  <2>3. [acc.orclauses EXCEPT ![k] = @ \cup first \cup {f}]
            = [j \in K |-> IF Several(Y, j) THEN WithKey(Y, j) ELSE {}]
    BY <1>1, <1>3, <1>4, <2>1 DEF Clauses
  <2>4. acc.lkwargs \cup {k} = {j \in K : Several(Y, j)}
    BY <1>1, <1>4, <2>1 DEF Clauses
  <2> QED BY <1>8, <2>2, <2>3, <2>4 DEF Clauses, load_keys, LoadKeys
<1>9. CASE first = {} /\ Several(X, k)
  <2>1. k \in acc.lkwargs /\ Several(Y, k)
    BY <1>1, <1>5, <1>7, <1>9 DEF Clauses
  <2>2. acc.kwargs = {g \in Y : ~Several(Y, KeyOf[g])}
    BY <1>2, <1>4, <1>9, <2>1 DEF Clauses
  <2>3. [acc.orclauses EXCEPT ![k] = @ \cup {f}]
            = [j \in K |-> IF Several(Y, j) THEN WithKey(Y, j) ELSE {}]
    BY <1>1, <1>3, <1>4, <1>9, <2>1 DEF Clauses
  <2>4. acc.lkwargs = {j \in K : Several(Y, j)}
    BY <1>1, <1>4, <1>9, <2>1 DEF Clauses
  <2> QED BY <1>9, <2>1, <2>2, <2>3, <2>4 DEF Clauses, load_keys, LoadKeys
<1>10. CASE first = {} /\ ~Several(X, k)
  <2>1. WithKey(X, k) = {} /\ ~Several(Y, k) /\ k \notin acc.lkwargs
    BY <1>5, <1>6, <1>10 DEF Clauses
  <2>2. acc.kwargs \cup {f} = {g \in Y : ~Several(Y, KeyOf[g])}
    BY <1>2, <1>4, <2>1 DEF Clauses, WithKey
  <2>3. acc.orclauses = [j \in K |-> IF Several(Y, j) THEN WithKey(Y, j) ELSE {}]
    BY <1>1, <1>3, <1>4, <1>10, <2>1 DEF Clauses
  <2>4. acc.lkwargs = {j \in K : Several(Y, j)}
    BY <1>1, <1>4, <1>10, <2>1 DEF Clauses
  <2> QED BY <1>10, <2>1, <2>2, <2>3, <2>4 DEF Clauses, load_keys, LoadKeys
<1> QED BY <1>8, <1>9, <1>10

(* The fold over a list: of each set of places, the clauses of what is there.*)
Folded(list, h, A) ==
    IF A = {} THEN NoClauses ELSE load_keys(h[A \ {Max(A)}], list[Max(A)])
Fold(list) == CHOOSE h : h = [A \in SUBSET (DOMAIN list) |-> Folded(list, h, A)]
There(list, A) == {list[i] : i \in A}

LEMMA FoldIs == ASSUME NEW list PROVE FoldLeft(load_keys, NoClauses, list) = Fold(list)[DOMAIN list]
  BY DEF FoldLeft, MapThenFoldSet, Fold, Folded

LEMMA MaxOf ==
    ASSUME NEW n \in Nat, NEW A \in SUBSET (1 .. n), A # {}
    PROVE  Max(A) \in A /\ \A y \in A : Max(A) >= y
<1> DEFINE T == {m \in Nat : n - m \in A}
<1>0. \A y \in A : y \in 1 .. n /\ n - y \in T
  <2> TAKE y \in A
  <2>1. y \in 1 .. n OBVIOUS
  <2>2. n - y \in Nat /\ n - (n - y) = y BY <2>1
  <2> QED BY <2>1, <2>2
<1>1. T \in SUBSET Nat /\ T # {}
  <2>1. T \in SUBSET Nat OBVIOUS
  <2> QED BY <1>0, <2>1
<1>2. PICK t \in T : \A m \in T : t <= m BY <1>1, NatMin
<1>3. PICK x \in A : x = n - t BY <1>2
<1>4. \A y \in A : x >= y
  <2> TAKE y \in A
  <2>1. t <= n - y /\ t \in Nat /\ y \in 1 .. n BY <1>0, <1>2
  <2> QED BY <1>3, <2>1
<1>5. \E z \in A : \A y \in A : z >= y BY <1>4
<1> QED BY <1>5 DEF Max

(* A list without repetition is turned into the clauses of its filters.      *)
LEMMA FoldedAsClauses ==
    ASSUME NEW list \in Seq(DOMAIN KeyOf), IsInjective(list)
    PROVE  FoldLeft(load_keys, NoClauses, list) = Clauses(Range(list))
<1> DEFINE n == Len(list)
           N == DOMAIN list
           h == [A \in SUBSET N |-> Clauses(There(list, A))]
           k == Fold(list)
<1>1. n \in Nat /\ N = 1 .. n /\ \A i \in N : list[i] \in DOMAIN KeyOf
  OBVIOUS
<1>2. \A A \in SUBSET N : h[A] = Folded(list, h, A)
  <2> TAKE A \in SUBSET N
  <2>1. CASE A = {}
    <3>1. There(list, A) = {} BY <2>1 DEF There
    <3> QED BY <2>1, <3>1, ClausesOfNone DEF Folded
  <2>2. CASE A # {}
    <3> DEFINE i == Max(A)
               B == A \ {i}
               X == There(list, B)
               f == list[i]
    <3>1. i \in A BY <1>1, <2>2, MaxOf
    <3>2. X \cup {f} = There(list, A) /\ f \notin X
      BY <3>1 DEF There, IsInjective
    <3>3. X \cup {f} \subseteq DOMAIN KeyOf BY <1>1, <3>1 DEF There
    <3>4. load_keys(Clauses(X), f) = Clauses(X \cup {f})
      <4> HIDE DEF X, f
      <4> QED BY <3>2, <3>3, ClausesAndOne
    <3>5. h[B] = Clauses(X) /\ h[A] = Clauses(There(list, A)) OBVIOUS
    <3> HIDE DEF h
    <3> QED BY <2>2, <3>2, <3>4, <3>5 DEF Folded
  <2> QED BY <2>1, <2>2
<1>3. h = [A \in SUBSET N |-> Folded(list, h, A)]
  <2> DEFINE g == [A \in SUBSET N |-> Folded(list, h, A)]
  <2>1. h = [A \in SUBSET N |-> h[A]] OBVIOUS
  <2>2. \A A \in SUBSET N : g[A] = h[A] BY <1>2
  <2> HIDE DEF h
  <2> QED BY <1>2, <2>1
<1>4. k = [A \in SUBSET N |-> Folded(list, k, A)]
  <2>1. \E j : j = [A \in SUBSET N |-> Folded(list, j, A)]
    <3> HIDE DEF h
    <3> QED BY <1>3
  <2> QED BY <2>1, Zenon DEF Fold
<1> HIDE DEF h, k
<1>5. \A A \in SUBSET N : k[A] = Folded(list, k, A)
  BY <1>4
<1> DEFINE T == {j \in 0 .. n : k[1 .. j] # h[1 .. j]}
<1>6. ASSUME T # {} PROVE FALSE
  <2>1. T \in SUBSET Nat BY <1>1
  <2>2. PICK j \in T : \A m \in T : j <= m BY <1>6, <2>1, NatMin
  <2> DEFINE A == 1 .. j
  <2>3. A \in SUBSET N BY <1>1
  <2>4. CASE j = 0
    <3>1. A = {} BY <2>4
    <3>2. k[A] = NoClauses /\ h[A] = NoClauses BY <1>2, <1>5, <2>3, <3>1 DEF Folded
    <3> QED BY <2>2, <3>2
  <2>5. CASE j # 0
    <3>1. j \in Nat /\ j - 1 \in 0 .. n /\ A # {} BY <1>1, <2>5
    <3>2. Max(A) = j
      <4>1. Max(A) \in A /\ \A y \in A : Max(A) >= y BY <3>1, MaxOf
      <4> QED BY <3>1, <4>1
    <3>3. A \ {Max(A)} = 1 .. (j - 1) BY <3>1, <3>2
    <3>4. k[1 .. (j - 1)] = h[1 .. (j - 1)] BY <2>2, <3>1
    <3>5. k[A] = Folded(list, k, A) /\ h[A] = Folded(list, h, A) BY <1>2, <1>5, <2>3
    <3>6. Folded(list, k, A) = Folded(list, h, A)
      <4> HIDE DEF A
      <4> QED BY <3>1, <3>3, <3>4 DEF Folded
    <3> QED BY <2>2, <3>5, <3>6
  <2> QED BY <2>4, <2>5
<1>7. k[N] = h[N] BY <1>1, <1>6
<1>8. h[N] = Clauses(Range(list)) BY DEF h, There, Range
<1> QED BY <1>7, <1>8, FoldIs DEF k

(* A filter taken out of a list.                                             *)
LEMMA Removed ==
    ASSUME NEW list \in Seq(Filter), NEW i \in 1 .. Len(list), IsInjective(list)
    PROVE  /\ RemoveAt(list, i) \in Seq(Filter)
           /\ IsInjective(RemoveAt(list, i))
           /\ Range(RemoveAt(list, i)) = Range(list) \ {list[i]}
<1> DEFINE n == Len(list)
           r == RemoveAt(list, i)
           s1 == SubSeq(list, 1, i - 1)
           s2 == SubSeq(list, i + 1, n)
<1>1. n \in Nat /\ DOMAIN list = 1 .. n OBVIOUS
<1>2. /\ s1 \in Seq(Filter) /\ Len(s1) = i - 1 /\ \A j \in 1 .. i - 1 : s1[j] = list[j]
  <2>1. \A j \in 1 .. i - 1 : list[j] \in Filter BY <1>1
  <2> QED BY <1>1, <2>1, SubSeqProperties
<1>3. /\ s2 \in Seq(Filter) /\ Len(s2) = n - i /\ \A j \in 1 .. n - i : s2[j] = list[i + j]
  <2>1. \A j \in i + 1 .. n : list[j] \in Filter BY <1>1
  <2>2. /\ i + 1 \in Int /\ n \in Int /\ n - (i + 1) + 1 = n - i
        /\ ~(i + 1 <= n) => n - i = 0
    <3>1. i \in Int /\ n \in Int /\ i <= n BY <1>1
    <3> HIDE DEF n
    <3> QED BY <3>1
  <2>3. /\ s2 \in Seq(Filter) /\ Len(s2) = IF i + 1 <= n THEN n - (i + 1) + 1 ELSE 0
        /\ \A j \in 1 .. n - (i + 1) + 1 : s2[j] = list[(i + 1) + j - 1]
    <3> HIDE DEF n
    <3> QED BY <2>1, <2>2, SubSeqProperties
  <2>4. \A j \in 1 .. n - i : (i + 1) + j - 1 = i + j BY <1>1
  <2> HIDE DEF s2
  <2> QED BY <2>2, <2>3, <2>4
<1>4. r = s1 \o s2 BY DEF RemoveAt
<1> HIDE DEF r, s1, s2
<1>5. /\ r \in Seq(Filter) /\ Len(r) = n - 1
      /\ \A j \in 1 .. n - 1 : r[j] = IF j < i THEN list[j] ELSE list[j + 1]
  <2>1. r \in Seq(Filter) /\ Len(r) = n - 1
    <3>1. r \in Seq(Filter) /\ Len(r) = Len(s1) + Len(s2)
      BY <1>2, <1>3, <1>4, ConcatProperties
    <3>2. (i - 1) + (n - i) = n - 1 BY <1>1
    <3> QED BY <1>2, <1>3, <3>1, <3>2
  <2>2. ASSUME NEW j \in 1 .. n - 1 PROVE r[j] = IF j < i THEN list[j] ELSE list[j + 1]
    <3>1. r[j] = IF j <= Len(s1) THEN s1[j] ELSE s2[j - Len(s1)]
      <4>1. j \in 1 .. Len(s1) + Len(s2)
        <5>1. (i - 1) + (n - i) = n - 1 BY <1>1
        <5> QED BY <1>2, <1>3, <5>1
      <4> QED BY <1>2, <1>3, <1>4, <4>1, ConcatProperties
    <3>2. CASE j < i
      <4>1. j \in 1 .. i - 1 /\ j <= i - 1 BY <1>1, <3>2
      <4> QED BY <1>2, <3>1, <3>2, <4>1
    <3>3. CASE ~(j < i)
      <4>1. j - (i - 1) \in 1 .. n - i /\ i + (j - (i - 1)) = j + 1 /\ ~(j <= i - 1)
        BY <1>1, <3>3
      <4> QED BY <1>2, <1>3, <3>1, <3>3, <4>1
    <3> QED BY <3>2, <3>3
  <2> QED BY <2>1, <2>2
<1>6. DOMAIN r = 1 .. n - 1 BY <1>1, <1>5
<1>7. ASSUME NEW a \in 1 .. n - 1, NEW b \in 1 .. n - 1, r[a] = r[b] PROVE a = b
  <2> DEFINE past(j) == IF j < i THEN j ELSE j + 1
  <2>1. past(a) \in 1 .. n /\ past(b) \in 1 .. n /\ list[past(a)] = list[past(b)]
    BY <1>1, <1>5, <1>7
  <2>2. past(a) = past(b)
    <3> HIDE DEF past
    <3> QED BY <1>1, <2>1 DEF IsInjective
  <2> QED BY <1>1, <2>2
<1>8. ASSUME NEW j \in 1 .. n - 1 PROVE r[j] \in Range(list) \ {list[i]}
  <2>1. PICK k \in 1 .. n : k # i /\ r[j] = list[k] BY <1>1, <1>5
  <2> QED BY <1>1, <2>1 DEF Range, IsInjective
<1>9. ASSUME NEW k \in 1 .. n, k # i PROVE list[k] \in Range(r)
  <2>1. PICK j \in 1 .. n - 1 : r[j] = list[k]
    <3>1. CASE k < i
      <4>1. k \in 1 .. n - 1 /\ r[k] = list[k] BY <1>1, <1>5, <3>1
      <4> QED BY <4>1
    <3>2. CASE k > i
      <4>1. k - 1 \in 1 .. n - 1 /\ ~(k - 1 < i) /\ k - 1 + 1 = k BY <1>1, <3>2
      <4>2. r[k - 1] = list[k] BY <1>5, <4>1
      <4> QED BY <4>1, <4>2
    <3> QED BY <1>1, <1>9, <3>1, <3>2
  <2> QED BY <1>6, <2>1 DEF Range
<1>10. Range(r) = Range(list) \ {list[i]}
  <2>1. \A x \in Range(r) : x \in Range(list) \ {list[i]} BY <1>6, <1>8 DEF Range
  <2>2. \A x \in Range(list) \ {list[i]} : x \in Range(r) BY <1>1, <1>9 DEF Range
  <2> QED BY <2>1, <2>2
<1>11. IsInjective(r) BY <1>6, <1>7 DEF IsInjective
<1> QED BY <1>5, <1>10, <1>11 DEF r

(* And one put at its end.                                                   *)
LEMMA Appended ==
    ASSUME NEW list \in Seq(Filter), NEW f \in Filter, IsInjective(list), ~Contains(list, f)
    PROVE  /\ Append(list, f) \in Seq(Filter) /\ IsInjective(Append(list, f))
           /\ Range(Append(list, f)) = Range(list) \cup {f}
<1> DEFINE n == Len(list)
           r == Append(list, f)
<1>1. n \in Nat /\ DOMAIN list = 1 .. n OBVIOUS
<1>2. /\ r \in Seq(Filter) /\ Len(r) = n + 1 /\ r[n + 1] = f
      /\ \A j \in 1 .. n : r[j] = list[j]
  BY AppendProperties
<1>3. DOMAIN r = 1 .. n + 1 BY <1>2
<1> HIDE DEF r
<1>4. \A j \in 1 .. n : list[j] # f BY DEF Contains
<1>5. \A a \in 1 .. n + 1 : a = n + 1 \/ a \in 1 .. n BY <1>1
<1>6. IsInjective(r)
  <2> SUFFICES ASSUME NEW a \in 1 .. n + 1, NEW b \in 1 .. n + 1, r[a] = r[b] PROVE a = b
    BY <1>3 DEF IsInjective
  <2> QED BY <1>1, <1>2, <1>4, <1>5 DEF IsInjective
<1>7. Range(r) = Range(list) \cup {f}
  <2>1. \A x \in Range(r) : x \in Range(list) \cup {f} BY <1>1, <1>2, <1>3, <1>5 DEF Range
  <2>2. \A x \in Range(list) : x \in Range(r)
    <3>1. \A j \in 1 .. n : j \in 1 .. n + 1 BY <1>1
    <3> QED BY <1>1, <1>2, <1>3, <3>1 DEF Range
  <2>3. f \in Range(r)
    <3>1. n + 1 \in 1 .. n + 1 BY <1>1
    <3> QED BY <1>2, <1>3, <3>1 DEF Range
  <2> QED BY <2>1, <2>2, <2>3
<1> QED BY <1>2, <1>6, <1>7 DEF r

-----------------------------------------------------------------------------
(* Filters: the session                                                      *)

(* A link names a filter by a place that the page shows. As long as nothing  *)
(* is muddled one request at most is under way, it has read what the session *)
(* has, and if it removes a filter, so has the page it came from.            *)
FiltersInv ==
    /\ FiltersTypeOK
    /\ IsInjective(filter_by) /\ \A t \in Tab : IsInjective(read[t])
    /\ \A t \in Tab : op[t].do \in {"delete", "save"} => op[t].at \in 1 .. Len(shown[t])
    /\ ~muddled =>
        /\ Range(filter_by) = wanted
        /\ \A t \in Tab : op[t] # Without =>
            /\ read[t] = filter_by
            /\ op[t].do = "delete" => shown[t] = filter_by
            /\ \A u \in Tab \ {t} : op[u] = Without

LEMMA Asked ==
    ASSUME NEW t \in Tab, FiltersTypeOK
    PROVE  /\ op[t] \in Request \cup {Without}
           /\ op[t].do \in {"add", "load"} => op[t].filter \in Filter
           /\ op[t].do \in {"delete", "save"} => op[t].at \in 1 .. MaxFilters
           /\ op[t].do \in {"add", "load", "delete", "save", "show"} <=> op[t] # Without
  BY DEF FiltersTypeOK, Request, Without

(* What goes back to the session.                                            *)
LEMMA AnswerKeeps ==
    ASSUME FiltersAssumption, FiltersInv, NEW t \in Tab, op[t] # Without,
           NEW list, list \in Seq(Filter), IsInjective(list),
           Answer(t, list), filters' \subseteq Filter, wanted' \subseteq Filter,
           ~muddled => Range(list) = wanted'
    PROVE  FiltersInv'
<1>1. FiltersTypeOK'
  BY DEF FiltersInv, FiltersTypeOK, Answer
<1>2. IsInjective(filter_by') /\ \A u \in Tab : IsInjective(read'[u])
  <2>1. IsInjective(<<>>) BY DEF IsInjective
  <2> QED BY <2>1 DEF FiltersInv, FiltersTypeOK, Answer
<1>3. \A u \in Tab : op'[u].do \in {"delete", "save"} => op'[u].at \in 1 .. Len(shown'[u])
  BY DEF FiltersInv, FiltersTypeOK, Answer, Without
<1>4. ASSUME ~muddled' PROVE Range(filter_by') = wanted' /\ \A u \in Tab : op'[u] = Without
  BY <1>4 DEF FiltersInv, FiltersTypeOK, Answer
<1> QED BY <1>1, <1>2, <1>3, <1>4 DEF FiltersInv

LEMMA AskKeeps ==
    ASSUME FiltersAssumption, FiltersInv, NEW t \in Tab, Ask(t)
    PROVE  FiltersInv'
<1>1. PICK q \in Offered(t) :
        /\ op' = [op EXCEPT ![t] = q]
        /\ muddled' = (muddled \/ (q.do = "delete" /\ shown[t] # filter_by)
                       \/ \E u \in Tab \ {t} : op[u] # Without)
  BY DEF Ask
<1>2. /\ q \in Request
      /\ q.do \in {"delete", "save"} => q.at \in 1 .. Len(shown[t])
  <2>1. q \in Request /\ (q.do \in {"delete", "save"} => q.at <= Len(shown[t]))
    BY DEF Offered
  <2>2. q.do \in {"delete", "save"} => q.at \in 1 .. MaxFilters
    BY <2>1 DEF Request
  <2>3. Len(shown[t]) \in Nat /\ MaxFilters \in Nat BY DEF FiltersInv, FiltersTypeOK, FiltersAssumption
  <2> QED BY <2>1, <2>2, <2>3
<1>3. FiltersTypeOK'
  <2>1. asked' \in 0 .. MaxAsked BY DEF FiltersInv, FiltersTypeOK, Ask, FiltersAssumption
  <2>2. muddled' \in BOOLEAN BY <1>1
  <2>3. op' \in [Tab -> Request \cup {Without}] BY <1>1, <1>2 DEF FiltersInv, FiltersTypeOK
  <2>4. read' \in [Tab -> Seq(Filter)] BY DEF FiltersInv, FiltersTypeOK, Ask
  <2> QED BY <2>1, <2>2, <2>3, <2>4 DEF FiltersInv, FiltersTypeOK, Ask
<1>4. IsInjective(filter_by') /\ \A u \in Tab : IsInjective(read'[u])
  BY DEF FiltersInv, FiltersTypeOK, Ask
<1>5. \A u \in Tab : op'[u].do \in {"delete", "save"} => op'[u].at \in 1 .. Len(shown'[u])
  BY <1>1, <1>2 DEF FiltersInv, FiltersTypeOK, Ask
<1>6. ASSUME ~muddled'
      PROVE  /\ Range(filter_by') = wanted'
             /\ \A v \in Tab : op'[v] # Without =>
                 /\ read'[v] = filter_by'
                 /\ op'[v].do = "delete" => shown'[v] = filter_by'
                 /\ \A u \in Tab \ {v} : op'[u] = Without
  <2>1. /\ ~muddled /\ (q.do = "delete" => shown[t] = filter_by)
        /\ \A u \in Tab \ {t} : op[u] = Without
    BY <1>1, <1>6
  <2> QED BY <1>1, <2>1 DEF FiltersInv, FiltersTypeOK, Ask
<1> QED BY <1>3, <1>4, <1>5, <1>6 DEF FiltersInv

LEMMA FiltersInductive == ASSUME FiltersAssumption PROVE FiltersSpec => []FiltersInv
<1>1. ASSUME FiltersInit PROVE FiltersInv
  <2>1. PICK m \in 0 .. 1 : filter_by \in [1 .. m -> Filter]
    BY <1>1 DEF FiltersInit, BoundedSeq, SeqOf
  <2>2. filter_by \in Seq(Filter) /\ DOMAIN filter_by = 1 .. m BY <2>1
  <2>3. IsInjective(filter_by) BY <2>1, <2>2 DEF IsInjective
  <2>4. Range(filter_by) \subseteq Filter BY <2>1 DEF Range
  <2>5. IsInjective(<<>>) /\ <<>> \in Seq(Filter) BY DEF IsInjective
  <2>6. FiltersTypeOK
    <3>1. shown \in [Tab -> Seq(Filter)] /\ read \in [Tab -> Seq(Filter)]
      BY <1>1, <2>2, <2>5 DEF FiltersInit
    <3>2. op \in [Tab -> Request \cup {Without}] BY <1>1 DEF FiltersInit
    <3>3. asked \in 0 .. MaxAsked BY <1>1 DEF FiltersInit, FiltersAssumption
    <3> QED BY <1>1, <2>2, <2>4, <3>1, <3>2, <3>3 DEF FiltersInit, FiltersTypeOK
  <2>7. \A t \in Tab : op[t] = Without /\ op[t].do = "none" /\ IsInjective(read[t])
    BY <1>1, <2>5 DEF FiltersInit, Without
  <2> QED BY <1>1, <2>3, <2>6, <2>7 DEF FiltersInit, FiltersInv
<1>2. ASSUME FiltersInv, [FiltersNext]_filtersVars PROVE FiltersInv'
  <2>1. ASSUME NEW t \in Tab, Ask(t) PROVE FiltersInv'
    BY <1>2, <2>1, AskKeeps
  <2>2. ASSUME NEW t \in Tab, Add(t) PROVE FiltersInv'
    <3> DEFINE f == op[t].filter
               list == IF Contains(read[t], f) THEN read[t] ELSE Append(read[t], f)
    <3>1. op[t] # Without /\ f \in Filter
      BY <1>2, <2>2, Asked DEF FiltersInv, Add
    <3>2. read[t] \in Seq(Filter) /\ IsInjective(read[t])
      BY <1>2 DEF FiltersInv, FiltersTypeOK
    <3>3. list \in Seq(Filter) /\ IsInjective(list) /\ Range(list) = Range(read[t]) \cup {f}
      <4>1. CASE Contains(read[t], f)
        <5>1. f \in Range(read[t]) BY <3>2, <4>1 DEF Contains, Range
        <5> QED BY <3>2, <4>1, <5>1
      <4>2. CASE ~Contains(read[t], f)
        BY <3>1, <3>2, <4>2, Appended
      <4> QED BY <4>1, <4>2
    <3>4. Answer(t, list) /\ wanted' = wanted \cup {f} /\ filters' = filters BY <2>2 DEF Add
    <3>5. wanted' \subseteq Filter /\ filters' \subseteq Filter
      BY <1>2, <3>1, <3>4 DEF FiltersInv, FiltersTypeOK
    <3>6. ~muddled => Range(read[t]) = wanted BY <1>2, <3>1 DEF FiltersInv
    <3> HIDE DEF list, f
    <3> QED BY <1>2, <3>1, <3>3, <3>4, <3>5, <3>6, AnswerKeeps
  <2>3. ASSUME NEW t \in Tab, Delete(t) PROVE FiltersInv'
    <3> DEFINE i == op[t].at
               list == IF i <= Len(read[t]) THEN RemoveAt(read[t], i) ELSE read[t]
    <3>1. op[t] # Without /\ op[t].do = "delete" BY <1>2, <2>3, Asked DEF FiltersInv, Delete
    <3>2. read[t] \in Seq(Filter) /\ IsInjective(read[t])
      BY <1>2 DEF FiltersInv, FiltersTypeOK
    <3>3. i \in 1 .. Len(shown[t]) /\ Len(shown[t]) \in Nat /\ Len(read[t]) \in Nat
      BY <1>2, <3>1, <3>2 DEF FiltersInv, FiltersTypeOK
    <3>4. /\ list \in Seq(Filter) /\ IsInjective(list)
          /\ i <= Len(read[t]) => Range(list) = Range(read[t]) \ {read[t][i]}
      <4>1. CASE i <= Len(read[t])
        <5>1. i \in 1 .. Len(read[t]) BY <3>3, <4>1
        <5> QED BY <3>2, <4>1, <5>1, Removed
      <4>2. CASE ~(i <= Len(read[t])) BY <3>2, <4>2
      <4> QED BY <4>1, <4>2
    <3>5. Answer(t, list) /\ wanted' = wanted \ {shown[t][i]} /\ filters' = filters
      BY <2>3 DEF Delete
    <3>6. wanted' \subseteq Filter /\ filters' \subseteq Filter
      BY <1>2, <3>5 DEF FiltersInv, FiltersTypeOK
    <3>7. ~muddled => Range(read[t]) = wanted /\ shown[t] = read[t] BY <1>2, <3>1 DEF FiltersInv
    <3>8. ~muddled => Range(list) = wanted'
      <4> HIDE DEF list, i
      <4> QED BY <3>3, <3>4, <3>5, <3>7
    <3> HIDE DEF list, i
    <3> QED BY <1>2, <3>1, <3>4, <3>5, <3>6, <3>8, AnswerKeeps
  <2>4. ASSUME NEW t \in Tab, Save(t) \/ Show(t) PROVE FiltersInv'
    <3>1. op[t] # Without /\ (op[t].do = "save" => op[t].at \in 1 .. Len(shown[t]))
      BY <1>2, <2>4, Asked DEF FiltersInv, Save, Show
    <3>2. read[t] \in Seq(Filter) /\ IsInjective(read[t])
      BY <1>2 DEF FiltersInv, FiltersTypeOK
    <3>3. Answer(t, read[t]) /\ wanted' = wanted BY <2>4 DEF Save, Show
    <3>4. filters' \subseteq Filter /\ wanted' \subseteq Filter
      <4>1. CASE Show(t) BY <1>2, <3>3, <4>1 DEF FiltersInv, FiltersTypeOK, Show
      <4>2. CASE Save(t)
        <5>1. op[t].at \in Nat /\ op[t].at >= 1 BY <1>2, <4>2, Asked DEF FiltersInv, Save
        <5>2. op[t].at <= Len(read[t]) => read[t][op[t].at] \in Filter
          <6>1. Len(read[t]) \in Nat BY <3>2
          <6>2. op[t].at <= Len(read[t]) => op[t].at \in 1 .. Len(read[t]) BY <5>1, <6>1
          <6> QED BY <3>2, <6>2
        <5> QED BY <1>2, <3>3, <4>2, <5>2 DEF FiltersInv, FiltersTypeOK, Save
      <4> QED BY <2>4, <4>1, <4>2
    <3>5. ~muddled => Range(read[t]) = wanted BY <1>2, <3>1 DEF FiltersInv
    <3> QED BY <1>2, <3>1, <3>2, <3>3, <3>4, <3>5, AnswerKeeps
  <2>5. ASSUME NEW f \in Filter, DeleteStored(f) PROVE FiltersInv'
    <3>1. FiltersTypeOK' BY <1>2, <2>5 DEF FiltersInv, FiltersTypeOK, DeleteStored
    <3> QED BY <1>2, <2>5, <3>1 DEF FiltersInv, DeleteStored
  <2>6. CASE UNCHANGED filtersVars
    <3>1. FiltersTypeOK' BY <1>2, <2>6 DEF FiltersInv, FiltersTypeOK, filtersVars
    <3> QED BY <1>2, <2>6, <3>1 DEF FiltersInv, filtersVars
  <2> QED BY <1>2, <2>1, <2>2, <2>3, <2>4, <2>5, <2>6 DEF FiltersNext
<1> QED BY <1>1, <1>2, PTL DEF FiltersSpec

(* The variables of Filters have their types.                                *)
THEOREM FiltersTypeCorrect == ASSUME FiltersAssumption PROVE FiltersSpec => []FiltersTypeOK
<1>1. FiltersInv => FiltersTypeOK BY DEF FiltersInv
<1> QED BY <1>1, FiltersInductive, PTL

(* For any filters, tabs and number of requests: the condition of a list is  *)
(* what its filters ask for, whatever their order, no filter is in it twice, *)
(* and it has those that the user added and did not remove as long as no     *)
(* requests overlapped and no page was old (query.py:54-141, reports.py:     *)
(* 122-132, 470-499).                                                        *)
THEOREM ListsAreAsAsked == ASSUME FiltersAssumption PROVE FiltersSpec => []FilteredAsAsked
<1>1. ASSUME FiltersInv PROVE FilteredAsAsked
  <2> DEFINE X == Range(filter_by)
             K == Range(KeyOf)
             acc == Clauses(X)
  <2>1. filter_by \in Seq(DOMAIN KeyOf) /\ X \subseteq DOMAIN KeyOf
    BY <1>1 DEF FiltersInv, FiltersTypeOK, FiltersAssumption, Range
  <2>2. FoldLeft(load_keys, NoClauses, filter_by) = acc
    BY <1>1, <2>1, FoldedAsClauses DEF FiltersInv
  <2>3. generate(filter_by) =
            {{f} : f \in acc.kwargs}
            \cup {acc.orclauses[k] : k \in {j \in K : acc.orclauses[j] # {}}}
    <3> HIDE DEF acc
    <3> QED BY <2>2, Zenon DEF generate
  <2>4. \A f \in X : KeyOf[f] \in K BY <2>1 DEF Range
  <2>5. \A k \in K : acc.orclauses[k] = IF Several(X, k) THEN WithKey(X, k) ELSE {}
    BY DEF Clauses
  <2>6. acc.kwargs = {f \in X : ~Several(X, KeyOf[f])} BY DEF Clauses
  <2>7. \A f \in X : ~Several(X, KeyOf[f]) => WithKey(X, KeyOf[f]) = {f}
    BY DEF Several, WithKey
  <2>8. \A k \in K : Several(X, k) => \E f \in X : KeyOf[f] = k
    BY DEF Several, WithKey
  <2> HIDE DEF acc, X, K
  <2>9. {{f} : f \in acc.kwargs}
            \cup {acc.orclauses[k] : k \in {j \in K : acc.orclauses[j] # {}}}
            = {WithKey(X, KeyOf[f]) : f \in X}
    <3>1. ASSUME NEW f \in acc.kwargs PROVE {f} \in {WithKey(X, KeyOf[g]) : g \in X}
      BY <2>6, <2>7
    <3>2. ASSUME NEW k \in K, acc.orclauses[k] # {}
          PROVE  acc.orclauses[k] \in {WithKey(X, KeyOf[g]) : g \in X}
      BY <2>5, <2>8, <3>2
    <3>3. ASSUME NEW f \in X
          PROVE  \/ WithKey(X, KeyOf[f]) \in {{g} : g \in acc.kwargs}
                 \/ WithKey(X, KeyOf[f])
                        \in {acc.orclauses[k] : k \in {j \in K : acc.orclauses[j] # {}}}
      <4>1. CASE Several(X, KeyOf[f])
        <5>1. WithKey(X, KeyOf[f]) # {} BY DEF WithKey
        <5> QED BY <2>4, <2>5, <4>1, <5>1
      <4>2. CASE ~Several(X, KeyOf[f]) BY <2>6, <2>7, <4>2
      <4> QED BY <4>1, <4>2
    <3> QED BY <3>1, <3>2, <3>3
  <2>10. generate(filter_by) = {WithKey(X, KeyOf[f]) : f \in X} BY <2>3, <2>9
  <2> QED BY <1>1, <2>10 DEF FilteredAsAsked, FiltersInv, WithKey, X
<1> QED BY <1>1, FiltersInductive, PTL
=============================================================================
