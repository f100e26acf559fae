----------------------------- MODULE ListLemmas -----------------------------
(***************************************************************************)
(* What the folds of the community modules compute, for the proofs about   *)
(* loops.  A fold over a set S takes one element after the other out of S, *)
(* the one that pick names, and applies step to it and to the result for   *)
(* the rest; e is whatever else the step depends on (the sequence or the   *)
(* function that is folded).                                               *)
(*                                                                         *)
(* The module is instantiated once for each fold.                          *)
(***************************************************************************)
EXTENDS Integers, Sequences, FiniteSets, FiniteSetTheorems, SequenceTheorems, WellFoundedInduction, TLAPS

CONSTANTS
    step(_, _, _),
    pick(_)

Fold(e, base, S) ==
    LET iter[s \in SUBSET S] ==
          IF s = {} THEN base
          ELSE LET x == pick(s) IN step(e, x, iter[s \ {x}])
    IN  iter[S]

Picks(S) == \A s \in SUBSET S : s # {} => pick(s) \in s

Small(S, n) == {s \in SUBSET S : Cardinality(s) <= n}
Iter(g, e, base, D) ==
    g = [s \in D |-> IF s = {} THEN base ELSE step(e, pick(s), g[s \ {pick(s)}])]

\* Induction over the natural numbers, with a set in place of a predicate.
LEMMA NatSetInduction ==
  ASSUME NEW S, 0 \in S, \A n \in Nat : n \in S => n + 1 \in S
  PROVE  Nat \subseteq S
<1> SUFFICES ASSUME NEW m \in Nat, m \notin S PROVE FALSE
  OBVIOUS
<1> DEFINE T == Nat \ S
<1> DEFINE R == OpToRel(<, Nat)
<1>1. IsWellFoundedOn(R, Nat)
  BY NatLessThanWellFounded
<1>2. T \subseteq Nat /\ T # {}
  OBVIOUS
<1> HIDE DEF T, R
<1>3. PICK x \in T : \A y \in T : ~ (<<y, x>> \in R)
  BY <1>1, <1>2, WFMin
<1>4. x # 0 /\ x \in Nat
  BY DEF T
<1>5. x - 1 \in Nat /\ x - 1 \notin S
  BY <1>4 DEF T
<1>6. x - 1 \in T
  BY <1>5 DEF T
<1>7. <<x - 1, x>> \in R
  BY <1>4, <1>5 DEF R, OpToRel
<1> QED
  BY <1>3, <1>6, <1>7

\* Taking the picked element out makes a set smaller.
LEMMA Smaller ==
  ASSUME NEW S, IsFiniteSet(S), Picks(S), NEW s \in SUBSET S, s # {}
  PROVE  /\ s \ {pick(s)} \in SUBSET S
         /\ IsFiniteSet(s)
         /\ Cardinality(s) \in Nat
         /\ Cardinality(s \ {pick(s)}) = Cardinality(s) - 1
<1>1. IsFiniteSet(s) /\ pick(s) \in s
  BY FS_Subset DEF Picks
<1> QED
  BY <1>1, FS_RemoveElement, FS_CardinalityType

\* The recursion of a fold is well defined.
LEMMA IterExists ==
  ASSUME NEW S, IsFiniteSet(S), Picks(S), NEW e, NEW base
  PROVE  \E g : Iter(g, e, base, SUBSET S)
<1> DEFINE G == {n \in Nat : \E g : Iter(g, e, base, Small(S, n))}
<1>1. 0 \in G
  <2> DEFINE g == [s \in Small(S, 0) |-> base]
  <2>1. \A s \in Small(S, 0) : s = {}
    BY FS_Subset, FS_EmptySet, FS_CardinalityType DEF Small
  <2>2. Iter(g, e, base, Small(S, 0))
    BY <2>1 DEF Iter
  <2> QED
    BY <2>2
<1>2. ASSUME NEW n \in Nat, n \in G PROVE n + 1 \in G
  <2>1. PICK g : Iter(g, e, base, Small(S, n))
    BY <1>2
  <2> DEFINE h == [s \in Small(S, n + 1) |->
                     IF s = {} THEN base ELSE step(e, pick(s), g[s \ {pick(s)}])]
  <2>2. ASSUME NEW s \in Small(S, n + 1), s # {}
        PROVE  /\ s \ {pick(s)} \in Small(S, n) /\ s \ {pick(s)} \in Small(S, n + 1)
    BY <2>2, Smaller DEF Small
  <2>3. ASSUME NEW s \in Small(S, n) PROVE g[s] = h[s]
    <3>1. s \in Small(S, n + 1)
      BY FS_Subset, FS_CardinalityType DEF Small
    <3>2. g[s] = IF s = {} THEN base ELSE step(e, pick(s), g[s \ {pick(s)}])
      BY <2>1 DEF Iter
    <3> QED
      BY <3>1, <3>2
  <2> HIDE DEF h
  <2>4. \A s \in Small(S, n + 1) : s # {} => g[s \ {pick(s)}] = h[s \ {pick(s)}]
    BY <2>2, <2>3
  <2>5. Iter(h, e, base, Small(S, n + 1))
    BY <2>4 DEF Iter, h
  <2> QED
    BY <2>5
<1> HIDE DEF G
<1>3. Nat \subseteq G
  BY <1>1, <1>2, NatSetInduction
<1>4. Cardinality(S) \in G
  BY <1>3, FS_CardinalityType
<1>5. Small(S, Cardinality(S)) = SUBSET S
  BY FS_Subset DEF Small
<1> QED
  BY <1>4, <1>5 DEF G

\* Two recursions over sets of which one holds the other agree on it.
LEMMA IterUnique ==
  ASSUME NEW S, NEW T, NEW e, NEW base, NEW g, NEW h,
         IsFiniteSet(S), Picks(S), T \subseteq S,
         Iter(g, e, base, SUBSET S), Iter(h, e, base, SUBSET T)
  PROVE  g[T] = h[T]
<1> DEFINE G == {n \in Nat : \A s \in Small(T, n) : g[s] = h[s]}
<1>0. IsFiniteSet(T) /\ Picks(T)
  BY FS_Subset DEF Picks
<1>1. 0 \in G
  <2>1. \A s \in Small(T, 0) : s = {}
    BY <1>0, FS_Subset, FS_EmptySet, FS_CardinalityType DEF Small
  <2>2. g[{}] = base /\ h[{}] = base
    BY DEF Iter
  <2> QED
    BY <2>1, <2>2
<1>2. ASSUME NEW n \in Nat, n \in G PROVE n + 1 \in G
  <2> SUFFICES ASSUME NEW s \in Small(T, n + 1) PROVE g[s] = h[s]
    OBVIOUS
  <2>1. CASE s = {}
    BY <2>1 DEF Iter
  <2>2. CASE s # {}
    <3>1. s \ {pick(s)} \in Small(T, n)
      BY <1>0, <2>2, Smaller DEF Small
    <3>2. g[s \ {pick(s)}] = h[s \ {pick(s)}]
      BY <1>2, <3>1
    <3>3. s \in SUBSET S /\ s \in SUBSET T
      BY DEF Small
    <3> QED
      BY <2>2, <3>2, <3>3 DEF Iter
  <2> QED
    BY <2>1, <2>2
<1> HIDE DEF G
<1>3. Nat \subseteq G
  BY <1>1, <1>2, NatSetInduction
<1>4. Cardinality(T) \in G
  BY <1>0, <1>3, FS_CardinalityType
<1>5. T \in Small(T, Cardinality(T))
  BY <1>0, FS_CardinalityType DEF Small
<1> QED
  BY <1>4, <1>5 DEF G

\* The fold is the value of its recursion.
LEMMA FoldIsIter ==
  ASSUME NEW S, IsFiniteSet(S), Picks(S), NEW e, NEW base
  PROVE  \E g : Iter(g, e, base, SUBSET S) /\ Fold(e, base, S) = g[S]
<1> DEFINE g == CHOOSE g : Iter(g, e, base, SUBSET S)
<1>1. Iter(g, e, base, SUBSET S)
  BY IterExists
<1>2. Fold(e, base, S) = g[S]
  BY DEF Fold, Iter
<1> QED
  BY <1>1, <1>2

\* The two equations of a fold over a finite set.
LEMMA FoldEmpty ==
  ASSUME NEW e, NEW base
  PROVE  Fold(e, base, {}) = base
<1>1. IsFiniteSet({}) /\ Picks({})
  BY FS_EmptySet DEF Picks
<1>2. PICK g : Iter(g, e, base, SUBSET {}) /\ Fold(e, base, {}) = g[{}]
  BY <1>1, FoldIsIter
<1> QED
  BY <1>2 DEF Iter

LEMMA FoldStep ==
  ASSUME NEW S, IsFiniteSet(S), Picks(S), S # {}, NEW e, NEW base
  PROVE  Fold(e, base, S) = step(e, pick(S), Fold(e, base, S \ {pick(S)}))
<1> DEFINE T == S \ {pick(S)}
<1>1. T \in SUBSET S /\ IsFiniteSet(T) /\ Picks(T)
  BY FS_Subset DEF Picks
<1>2. PICK g : Iter(g, e, base, SUBSET S) /\ Fold(e, base, S) = g[S]
  BY FoldIsIter
<1>3. PICK h : Iter(h, e, base, SUBSET T) /\ Fold(e, base, T) = h[T]
  BY <1>1, FoldIsIter
<1>4. g[S] = step(e, pick(S), g[T])
  BY <1>2 DEF Iter
<1> HIDE DEF T
<1>5. g[T] = h[T]
  <2>1. Iter(g, e, base, SUBSET S) /\ Iter(h, e, base, SUBSET T)
    BY <1>2, <1>3
  <2>2. IsFiniteSet(S) /\ Picks(S) /\ T \subseteq S
    BY <1>1
  <2> QED
    BY <2>1, <2>2, IterUnique, ZenonT(30)
<1> QED
  BY <1>2, <1>3, <1>4, <1>5 DEF T

\* Induction over a fold: c is a result for s when it lies in I[s].
LEMMA FoldInduction ==
  ASSUME NEW S, IsFiniteSet(S), Picks(S), NEW e, NEW base, NEW I,
         base \in I[{}],
         \A s \in SUBSET S : s # {} =>
             \A c \in I[s \ {pick(s)}] : step(e, pick(s), c) \in I[s]
  PROVE  Fold(e, base, S) \in I[S]
<1> DEFINE G == {n \in Nat : \A s \in Small(S, n) : Fold(e, base, s) \in I[s]}
<1>1. 0 \in G
  <2>1. \A s \in Small(S, 0) : s = {}
    BY FS_Subset, FS_EmptySet, FS_CardinalityType DEF Small
  <2> QED
    BY <2>1, FoldEmpty
<1>2. ASSUME NEW n \in Nat, n \in G PROVE n + 1 \in G
  <2> SUFFICES ASSUME NEW s \in Small(S, n + 1) PROVE Fold(e, base, s) \in I[s]
    OBVIOUS
  <2>1. CASE s = {}
    BY <2>1, FoldEmpty
  <2>2. CASE s # {}
    <3>1. s \in SUBSET S /\ IsFiniteSet(s) /\ Picks(s)
      BY FS_Subset DEF Picks, Small
    <3>2. s \ {pick(s)} \in Small(S, n)
      BY <2>2, Smaller DEF Small
    <3>3. Fold(e, base, s \ {pick(s)}) \in I[s \ {pick(s)}]
      BY <1>2, <3>2
    <3>4. Fold(e, base, s) = step(e, pick(s), Fold(e, base, s \ {pick(s)}))
      BY <2>2, <3>1, FoldStep
    <3> QED
      BY <2>2, <3>1, <3>3, <3>4
  <2> QED
    BY <2>1, <2>2
<1> HIDE DEF G
<1>3. Nat \subseteq G
  BY <1>1, <1>2, NatSetInduction
<1>4. Cardinality(S) \in G
  BY <1>3, FS_CardinalityType
<1>5. S \in Small(S, Cardinality(S))
  BY FS_CardinalityType DEF Small
<1> QED
  BY <1>4, <1>5 DEF G

-----------------------------------------------------------------------------
(* Folds over sequences, from the first element to the last. *)

\* A set of natural numbers has a least member, a bounded one a greatest.
LEMMA LeastMember ==
  ASSUME NEW S, S \subseteq Nat, S # {}
  PROVE  \E m \in S : \A y \in S : m <= y
<1> DEFINE R == OpToRel(<, Nat)
<1>1. IsWellFoundedOn(R, Nat)
  BY NatLessThanWellFounded
<1>2. \A y, z \in Nat : y < z => <<y, z>> \in R
  BY DEF OpToRel
<1> HIDE DEF R
<1>3. PICK m \in S : \A y \in S : ~ (<<y, m>> \in R)
  BY <1>1, WFMin
<1>4. ASSUME NEW y \in S PROVE m <= y
  <2>1. y \in Nat /\ m \in Nat /\ ~ (<<y, m>> \in R)
    BY <1>3
  <2>2. ~ (y < m)
    BY <1>2, <2>1
  <2> QED
    BY <2>1, <2>2
<1> QED
  BY <1>4

LEMMA GreatestMember ==
  ASSUME NEW n \in Nat, NEW s \in SUBSET (1 .. n), s # {}
  PROVE  \E m \in s : \A y \in s : m >= y
<1> DEFINE B == {m \in Nat : \A y \in s : m >= y}
<1>1. n \in B
  OBVIOUS
<1>2. PICK m \in B : \A y \in B : m <= y
  BY <1>1, LeastMember
<1>3. m \in s
  <2>1. SUFFICES ASSUME m \notin s PROVE FALSE
    OBVIOUS
  <2>2. m # 0
    <3>1. PICK y \in s : TRUE
      OBVIOUS
    <3>2. y \in 1 .. n /\ m >= y
      BY <1>2, <3>1
    <3> QED
      BY <3>2
  <2>3. \A y \in s : m - 1 >= y
    BY <1>2, <2>1
  <2>4. m - 1 \in B
    BY <1>2, <2>2, <2>3
  <2> QED
    BY <1>2, <2>4
<1> QED
  BY <1>2, <1>3

\* The fold picks the last position first.
PicksLast(n) == \A s \in SUBSET (1 .. n) : s # {} => pick(s) \in s /\ \A y \in s : pick(s) >= y

\* Induction over a sequence of n elements: c is a result for the first k when
\* it lies in I[k].
LEMMA FoldSeqInduction ==
  ASSUME NEW n \in Nat, PicksLast(n), NEW e, NEW base, NEW I,
         base \in I[0],
         \A k \in 0 .. n - 1 : \A c \in I[k] : step(e, k + 1, c) \in I[k + 1]
  PROVE  Fold(e, base, 1 .. n) \in I[n]
<1> DEFINE G == {k \in Nat : k <= n => Fold(e, base, 1 .. k) \in I[k]}
<1>1. 0 \in G
  BY FoldEmpty, 1 .. 0 = {}
<1>2. ASSUME NEW k \in Nat, k \in G PROVE k + 1 \in G
  <2> SUFFICES ASSUME k + 1 <= n PROVE Fold(e, base, 1 .. k + 1) \in I[k + 1]
    OBVIOUS
  <2>1. IsFiniteSet(1 .. k + 1)
    BY FS_Interval
  <2>2. Picks(1 .. k + 1) /\ pick(1 .. k + 1) = k + 1
    <3>1. \A s \in SUBSET (1 .. k + 1) : s \in SUBSET (1 .. n)
      OBVIOUS
    <3>2. Picks(1 .. k + 1)
      BY <3>1 DEF Picks, PicksLast
    <3>3. 1 .. k + 1 # {} /\ k + 1 \in 1 .. k + 1 /\ 1 .. k + 1 \in SUBSET (1 .. n)
      OBVIOUS
    <3>4. pick(1 .. k + 1) \in 1 .. k + 1 /\ pick(1 .. k + 1) >= k + 1
      BY <3>3 DEF PicksLast
    <3> QED
      BY <3>2, <3>4
  <2>3. (1 .. k + 1) \ {k + 1} = 1 .. k
    OBVIOUS
  <2>4. Fold(e, base, 1 .. k + 1) = step(e, k + 1, Fold(e, base, 1 .. k))
    <3>1. 1 .. k + 1 # {}
      BY k + 1 \in 1 .. k + 1
    <3> QED
      BY <2>1, <2>2, <2>3, <3>1, FoldStep
  <2>5. Fold(e, base, 1 .. k) \in I[k] /\ k \in 0 .. n - 1
    BY <1>2
  <2> QED
    BY <2>4, <2>5
<1> HIDE DEF G
<1>3. Nat \subseteq G
  BY <1>1, <1>2, NatSetInduction
<1> QED
  BY <1>3 DEF G

LEMMA FoldOne ==
  ASSUME PicksLast(1), NEW e, NEW base
  PROVE  Fold(e, base, 1 .. 1) = step(e, 1, base)
<1> DEFINE I == [k \in {0, 1} |-> IF k = 0 THEN {base} ELSE {step(e, 1, base)}]
<1>1. base \in I[0] /\ I[0] = {base} /\ I[1] = {step(e, 1, base)}
  OBVIOUS
<1> HIDE DEF I
<1>2. \A k \in 0 .. 1 - 1 : \A c \in I[k] : step(e, k + 1, c) \in I[k + 1]
  <2>1. \A k \in 0 .. 1 - 1 : k = 0 /\ k + 1 = 1
    OBVIOUS
  <2> QED
    BY <1>1, <2>1
<1>3. Fold(e, base, 1 .. 1) \in I[1]
  BY <1>1, <1>2, FoldSeqInduction
<1> QED
  BY <1>1, <1>3

-----------------------------------------------------------------------------
(* Loops that count from 1 to n, written as recursive functions. *)

Rec(e, base, n) ==
    LET f[i \in 0 .. n] == IF i = 0 THEN base ELSE step(e, i, f[i - 1])
    IN  f[n]

IsRec(f, e, base, n) ==
    f = [i \in 0 .. n |-> IF i = 0 THEN base ELSE step(e, i, f[i - 1])]

LEMMA RecExists ==
  ASSUME NEW n \in Nat, NEW e, NEW base
  PROVE  \E f : IsRec(f, e, base, n)
<1> DEFINE G == {k \in Nat : \E f : IsRec(f, e, base, k)}
<1>1. 0 \in G
  <2> DEFINE f == [i \in 0 .. 0 |-> base]
  <2>1. IsRec(f, e, base, 0)
    BY DEF IsRec
  <2> QED
    BY <2>1
<1>2. ASSUME NEW k \in Nat, k \in G PROVE k + 1 \in G
  <2>1. PICK g : IsRec(g, e, base, k)
    BY <1>2
  <2> DEFINE f == [i \in 0 .. k + 1 |-> IF i = k + 1 THEN step(e, i, g[k]) ELSE g[i]]
  <2>2. \A i \in 0 .. k : g[i] = IF i = 0 THEN base ELSE step(e, i, g[i - 1])
    BY <2>1 DEF IsRec
  <2>3. \A i \in 0 .. k : f[i] = g[i]
    OBVIOUS
  <2>4. f[k + 1] = step(e, k + 1, g[k])
    OBVIOUS
  <2>5. \A i \in 0 .. k + 1 : f[i] = IF i = 0 THEN base ELSE step(e, i, f[i - 1])
    <3> SUFFICES ASSUME NEW i \in 0 .. k + 1
                 PROVE  f[i] = IF i = 0 THEN base ELSE step(e, i, f[i - 1])
      OBVIOUS
    <3> HIDE DEF f
    <3>1. CASE i = k + 1
      <4>1. f[k] = g[k] /\ k \in 0 .. k /\ i # 0 /\ i - 1 = k
        BY <3>1, <2>3
      <4> QED
        BY <4>1, <3>1, <2>4
    <3>2. CASE i # k + 1 /\ i # 0
      <4>1. i \in 0 .. k /\ i - 1 \in 0 .. k
        BY <3>2
      <4> QED
        BY <4>1, <3>2, <2>2, <2>3
    <3>3. CASE i = 0
      BY <3>3, <2>2, <2>3
    <3> QED
      BY <3>1, <3>2, <3>3
  <2>6. IsRec(f, e, base, k + 1)
    BY <2>5 DEF IsRec
  <2> QED
    BY <2>6
<1> HIDE DEF G
<1>3. Nat \subseteq G
  BY <1>1, <1>2, NatSetInduction
<1> QED
  BY <1>3 DEF G

\* Induction over the passes of the loop: c is a result after k passes when it
\* lies in I[k].
LEMMA RecInduction ==
  ASSUME NEW n \in Nat, NEW e, NEW base, NEW I,
         base \in I[0],
         \A k \in 0 .. n - 1 : \A c \in I[k] : step(e, k + 1, c) \in I[k + 1]
  PROVE  Rec(e, base, n) \in I[n]
<1> DEFINE f == CHOOSE f : IsRec(f, e, base, n)
<1>1. IsRec(f, e, base, n)
  BY RecExists
<1>2. Rec(e, base, n) = f[n]
  BY DEF Rec, IsRec
<1> HIDE DEF f
<1>3. \A i \in 0 .. n : f[i] = IF i = 0 THEN base ELSE step(e, i, f[i - 1])
  BY <1>1 DEF IsRec
<1> DEFINE G == {k \in Nat : k <= n => f[k] \in I[k]}
<1>4. 0 \in G
  BY <1>3
<1>5. ASSUME NEW k \in Nat, k \in G PROVE k + 1 \in G
  <2> SUFFICES ASSUME k + 1 <= n PROVE f[k + 1] \in I[k + 1]
    OBVIOUS
  <2>1. k \in 0 .. n - 1 /\ f[k] \in I[k] /\ k + 1 \in 0 .. n /\ k + 1 # 0 /\ k + 1 - 1 = k
    BY <1>5
  <2>2. f[k + 1] = step(e, k + 1, f[k])
    BY <2>1, <1>3
  <2> QED
    BY <2>1, <2>2
<1> HIDE DEF G
<1>6. Nat \subseteq G
  BY <1>4, <1>5, NatSetInduction
<1> QED
  BY <1>2, <1>6 DEF G

LEMMA RecZero ==
  ASSUME NEW e, NEW base
  PROVE  Rec(e, base, 0) = base
<1> DEFINE I == [k \in {0} |-> {base}]
<1>1. base \in I[0]
  OBVIOUS
<1>2. \A k \in 0 .. 0 - 1 : \A c \in I[k] : step(e, k + 1, c) \in I[k + 1]
  OBVIOUS
<1>3. I[0] = {base}
  OBVIOUS
<1> HIDE DEF I
<1>4. Rec(e, base, 0) \in I[0]
  BY <1>1, <1>2, RecInduction
<1> QED
  BY <1>3, <1>4

-----------------------------------------------------------------------------
(* Lists without duplicates, and counters that wrap around. *)

Distinct(s) == \A i, j \in 1 .. Len(s) : s[i] = s[j] => i = j
Elements(s) == {s[i] : i \in DOMAIN s}

\* Unlinking the element at position p.
LEMMA Unlink ==
  ASSUME NEW S, NEW s, NEW p, s \in Seq(S), p \in 1 .. Len(s), Distinct(s)
  PROVE  LET t == SubSeq(s, 1, p - 1) \o SubSeq(s, p + 1, Len(s)) IN
         /\ t \in Seq(S) /\ Len(t) = Len(s) - 1
         /\ Distinct(t) /\ Elements(t) = Elements(s) \ {s[p]}
<1> USE DEF Distinct
<1> DEFINE a == SubSeq(s, 1, p - 1)
           b == SubSeq(s, p + 1, Len(s))
<1>1. a \in Seq(S) /\ Len(a) = p - 1 /\ \A i \in 1 .. p - 1 : a[i] = s[i]
  BY SubSeqProperties
<1>2. b \in Seq(S) /\ Len(b) = Len(s) - p /\ \A i \in 1 .. Len(s) - p : b[i] = s[p + i]
  BY SubSeqProperties
<1> HIDE DEF a, b
<1> DEFINE t == a \o b
<1>3. t = a \o b
  OBVIOUS
<1> HIDE DEF t
<1>4. Len(s) \in Nat /\ Len(a) \in Nat /\ Len(b) \in Nat
  BY <1>1, <1>2
<1>5. t \in Seq(S) /\ Len(t) = Len(s) - 1
  <2>1. t \in Seq(S) /\ Len(t) = Len(a) + Len(b)
    BY ONLY <1>1, <1>2, <1>3, ConcatProperties
  <2> QED
    BY <1>4, <1>1, <1>2, <2>1
<1>6. ASSUME NEW i \in 1 .. Len(t)
      PROVE  /\ i < p => t[i] = s[i]
             /\ i >= p => t[i] = s[i + 1]
  <2>1. i \in 1 .. Len(a) + Len(b)
    BY <1>4, <1>1, <1>2, <1>5
  <2>2. t[i] = IF i <= Len(a) THEN a[i] ELSE b[i - Len(a)]
    BY <1>1, <1>2, <1>3, <2>1, ConcatProperties
  <2>3. CASE i < p
    <3>1. i \in 1 .. p - 1 /\ i <= Len(a)
      BY <1>4, <1>1, <2>3
    <3> QED
      BY <1>1, <2>3, <2>2, <3>1
  <2>4. CASE i >= p
    <3>1. i > Len(a) /\ i - Len(a) \in 1 .. Len(s) - p /\ p + (i - Len(a)) = i + 1
      BY <1>4, <1>1, <1>5, <2>4
    <3>2. t[i] = b[i - Len(a)]
      BY <1>4, <2>2, <3>1
    <3>3. b[i - Len(a)] = s[p + (i - Len(a))]
      BY <1>2, <3>1
    <3> QED
      BY <2>4, <3>1, <3>2, <3>3
  <2> QED
    BY <2>3, <2>4
<1>7. ASSUME NEW i \in 1 .. Len(t), NEW j \in 1 .. Len(t), t[i] = t[j]
      PROVE  i = j
  <2>1. \A k \in 1 .. Len(t) : k \in 1 .. Len(s) /\ k + 1 \in 1 .. Len(s)
    BY <1>5
  <2>2. (i < p \/ i >= p) /\ (j < p \/ j >= p)
    OBVIOUS
  <2> QED
    BY <1>6, <1>7, <2>1, <2>2
<1>8. DOMAIN t = 1 .. Len(t) /\ DOMAIN s = 1 .. Len(s)
  BY <1>5
<1>9. ASSUME NEW i \in 1 .. Len(s), i # p
      PROVE  \E j \in 1 .. Len(t) : t[j] = s[i]
  <2>1. CASE i < p
    <3>1. i \in 1 .. Len(t)
      BY <1>4, <1>5, <2>1
    <3> QED
      BY <1>6, <2>1, <3>1
  <2>2. CASE i > p
    <3>1. i - 1 \in 1 .. Len(t) /\ i - 1 >= p /\ (i - 1) + 1 = i
      BY <1>5, <2>2
    <3> QED
      BY <1>6, <3>1
  <2> QED
    BY <1>9, <2>1, <2>2
<1>10. ASSUME NEW i \in 1 .. Len(t)
      PROVE  t[i] # s[p] /\ \E j \in 1 .. Len(s) : t[i] = s[j]
  <2>1. i \in 1 .. Len(s) /\ i + 1 \in 1 .. Len(s)
    BY <1>5
  <2> QED
    BY <1>6, <2>1
<1>11. {t[i] : i \in DOMAIN t} = {s[i] : i \in DOMAIN s} \ {s[p]}
  <2>1. ASSUME NEW i \in DOMAIN s, s[i] # s[p] PROVE s[i] \in {t[j] : j \in DOMAIN t}
    <3>1. i \in 1 .. Len(s) /\ i # p
      BY <1>8, <2>1
    <3> QED
      BY <1>8, <1>9, <3>1
  <2>2. ASSUME NEW i \in DOMAIN t PROVE t[i] # s[p] /\ t[i] \in {s[j] : j \in DOMAIN s}
    BY <1>8, <1>10
  <2> QED
    BY <2>1, <2>2
<1> QED
  BY <1>5, <1>7, <1>11 DEF Elements, t, a, b

\* Linking a new element in at the front.
LEMMA LinkIn ==
  ASSUME NEW S, NEW s, NEW x, s \in Seq(S), x \in S, x \notin Elements(s), Distinct(s)
  PROVE  LET t == <<x>> \o s IN
         /\ t \in Seq(S) /\ Len(t) = Len(s) + 1
         /\ Distinct(t) /\ Elements(t) = Elements(s) \cup {x}
<1> USE DEF Distinct
<1> DEFINE t == <<x>> \o s
<1>0. x \notin {s[i] : i \in DOMAIN s}
  BY DEF Elements
<1>1. t \in Seq(S) /\ Len(t) = Len(s) + 1 /\ Len(s) \in Nat
  OBVIOUS
<1>2. t[1] = x /\ \A i \in 1 .. Len(s) : t[i + 1] = s[i]
  OBVIOUS
<1> HIDE DEF t
<1>3. DOMAIN t = 1 .. Len(t) /\ DOMAIN s = 1 .. Len(s)
  BY <1>1
<1>4. ASSUME NEW i \in 1 .. Len(t), i # 1 PROVE i - 1 \in 1 .. Len(s) /\ t[i] = s[i - 1]
  <2>1. i - 1 \in 1 .. Len(s) /\ (i - 1) + 1 = i
    BY <1>1, <1>4
  <2> QED
    BY <1>2, <2>1
<1>5. ASSUME NEW i \in 1 .. Len(t), NEW j \in 1 .. Len(t), t[i] = t[j] PROVE i = j
  <2>1. ASSUME NEW k \in 1 .. Len(t), k # 1 PROVE t[k] # x
    BY <1>0, <1>3, <1>4, <2>1
  <2>2. CASE i = 1 \/ j = 1
    BY <1>2, <1>5, <2>1, <2>2
  <2>3. CASE i # 1 /\ j # 1
    <3>1. i - 1 \in 1 .. Len(s) /\ j - 1 \in 1 .. Len(s) /\ s[i - 1] = s[j - 1]
      BY <1>4, <1>5, <2>3
    <3>2. i - 1 = j - 1
      BY <3>1
    <3> QED
      BY <3>2
  <2> QED
    BY <2>2, <2>3
<1>6. {t[i] : i \in DOMAIN t} = {s[i] : i \in DOMAIN s} \cup {x}
  <2>1. ASSUME NEW i \in DOMAIN t PROVE t[i] \in {s[j] : j \in DOMAIN s} \cup {x}
    <3>1. CASE i = 1
      BY <1>2, <3>1
    <3>2. CASE i # 1
      BY <1>3, <1>4, <3>2
    <3> QED
      BY <3>1, <3>2
  <2>2. ASSUME NEW i \in DOMAIN s PROVE s[i] \in {t[j] : j \in DOMAIN t}
    <3>1. i + 1 \in DOMAIN t /\ t[i + 1] = s[i]
      BY <1>1, <1>2, <1>3
    <3> QED
      BY <3>1
  <2>3. x \in {t[j] : j \in DOMAIN t}
    <3>1. 1 \in DOMAIN t
      BY <1>1, <1>3
    <3> QED
      BY <1>2, <3>1
  <2> QED
    BY <2>1, <2>2, <2>3
<1> QED
  BY <1>1, <1>5, <1>6 DEF Elements, t

\* A list without duplicates has as many members as elements.
LEMMA CountMembers ==
  ASSUME NEW S, NEW s \in Seq(S), Distinct(s)
  PROVE  /\ IsFiniteSet(Elements(s))
         /\ Cardinality(Elements(s)) = Len(s)
<1> USE DEF Distinct, Elements
<1> DEFINE M == {s[i] : i \in DOMAIN s}
<1>1. IsFiniteSet(1 .. Len(s)) /\ Cardinality(1 .. Len(s)) = Len(s)
  <2>1. \A n \in Nat : IsFiniteSet(1 .. n) /\ Cardinality(1 .. n) = n
    BY FS_Interval
  <2>2. Len(s) \in Nat
    OBVIOUS
  <2> QED
    BY <2>1, <2>2
<1>2. s \in Bijection(1 .. Len(s), M)
  <2>1. s \in [1 .. Len(s) -> M] /\ DOMAIN s = 1 .. Len(s)
    OBVIOUS
  <2>2. s \in Injection(1 .. Len(s), M)
    BY <2>1 DEF Injection, IsInjective
  <2>3. s \in Surjection(1 .. Len(s), M)
    BY <2>1 DEF Surjection
  <2> QED
    BY <2>2, <2>3 DEF Bijection
<1>3. ExistsBijection(1 .. Len(s), M)
  BY <1>2 DEF ExistsBijection
<1> QED
  BY <1>1, <1>3, FS_Bijection

\* Counting down without passing zero.
LEMMA CountDown ==
  ASSUME NEW m \in Nat, NEW n \in 1 .. m - 1
  PROVE  (n + m - 1) % m = n - 1
  OBVIOUS
=============================================================================
