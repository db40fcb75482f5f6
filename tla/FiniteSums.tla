----------------------------- MODULE FiniteSums -----------------------------
(***************************************************************************)
(* The least-number principle, from the well-foundedness of < on Nat, and  *)
(* what it gives about sums over finite sets.  It stands in for proofs by  *)
(* induction: a statement about every number, or every size of a set,      *)
(* holds when it has no least counterexample.                              *)
(*                                                                         *)
(* A sum is SumFunctionOnSet(f, S), so every lemma speaks of functions and *)
(* sets, and none of an operator.                                          *)
(***************************************************************************)
EXTENDS Integers, FiniteSets, FiniteSetsExt, FiniteSetTheorems, WellFoundedInduction, TLAPS

(* Every non-empty set of naturals has a least element. *)
LEMMA LeastNatural ==
    ASSUME NEW S, S \subseteq Nat, S # {}
    PROVE  \E x \in S : \A y \in S : x <= y
<1>1. \A x, y \in Nat : x < y => <<x, y>> \in OpToRel(<, Nat)
  BY Zenon DEF OpToRel
<1>2. PICK x \in S : \A y \in S : ~ (<<y, x>> \in OpToRel(<, Nat))
  BY NatLessThanWellFounded, WFMin
<1>3. ASSUME NEW y \in S PROVE x <= y
  <2>1. x \in Nat /\ y \in Nat
    OBVIOUS
  <2>2. ~ (y < x)
    BY <1>1, <1>2, <2>1
  <2> QED
    BY <2>1, <2>2
<1> QED
  BY <1>3

(* Min is that element. *)
LEMMA MinIsLeast ==
    ASSUME NEW S, S \subseteq Nat, S # {}
    PROVE  Min(S) \in S /\ \A y \in S : Min(S) <= y
<1>1. \E x \in S : \A y \in S : x <= y
  BY LeastNatural
<1> QED
  BY <1>1 DEF Min

----------------------------------------------------------------------------
(* The equation of the fold: the element taken from a set, plus the rest. *)
Picked(s) == CHOOSE x \in s : TRUE
Rest(s) == s \ {Picked(s)}
FoldsAt(g, f, s) == g[s] = IF s = {} THEN 0 ELSE f[Picked(s)] + g[Rest(s)]
FoldsBelow(g, f, S) == \A s \in SUBSET S : FoldsAt(g, f, s)
FoldsOver(g, f, S) == g = [s \in SUBSET S |-> IF s = {} THEN 0 ELSE f[Picked(s)] + g[Rest(s)]]

(* Taking the picked element from a finite set leaves a smaller one. *)
LEMMA RestIsSmaller ==
    ASSUME NEW s, IsFiniteSet(s), s # {}
    PROVE  /\ Picked(s) \in s
           /\ Rest(s) \subseteq s /\ IsFiniteSet(Rest(s))
           /\ Cardinality(s) \in Nat /\ Cardinality(Rest(s)) \in Nat
           /\ Cardinality(s) = Cardinality(Rest(s)) + 1
<1>1. Picked(s) \in s
  BY DEF Picked
<1>2. IsFiniteSet(Rest(s)) /\ Cardinality(Rest(s)) = Cardinality(s) - 1
  BY <1>1, FS_RemoveElement DEF Rest
<1>3. Cardinality(s) \in Nat /\ Cardinality(Rest(s)) \in Nat
  BY <1>2, FS_CardinalityType
<1> QED
  BY <1>1, <1>2, <1>3 DEF Rest

(* Some function on the subsets of a finite set obeys the fold's equation. *)
LEMMA FoldExists ==
    ASSUME NEW S, IsFiniteSet(S), NEW f
    PROVE  \E g : FoldsOver(g, f, S)
<1> DEFINE UpTo(n) == \E g : /\ g = [s \in SUBSET S |-> g[s]]
                             /\ \A s \in SUBSET S : Cardinality(s) <= n => FoldsAt(g, f, s)
           Bad == {n \in Nat : ~ UpTo(n)}
<1>1. \A s \in SUBSET S : IsFiniteSet(s) /\ Cardinality(s) \in Nat
  BY FS_Subset, FS_CardinalityType
<1>2. ASSUME NEW n \in Bad, \A k \in Bad : n <= k PROVE FALSE
  <2>1. CASE n = 0
    <3> DEFINE g == [s \in SUBSET S |-> 0]
    <3>1. \A s \in SUBSET S : Cardinality(s) <= 0 => s = {}
      BY <1>1, FS_EmptySet
    <3>2. \A s \in SUBSET S : Cardinality(s) <= 0 => FoldsAt(g, f, s)
      BY <3>1 DEF FoldsAt
    <3>3. g = [s \in SUBSET S |-> g[s]]
      OBVIOUS
    <3> QED
      BY <2>1, <3>2, <3>3
  <2>2. CASE n # 0
    <3>1. n - 1 \in Nat /\ UpTo(n - 1)
      <4> HIDE DEF UpTo
      <4> QED
        BY <1>2, <2>2
    <3>2. PICK h : \A s \in SUBSET S : Cardinality(s) <= n - 1 => FoldsAt(h, f, s)
      BY <3>1
    <3> DEFINE g == [s \in SUBSET S |->
                       IF Cardinality(s) <= n - 1 THEN h[s] ELSE f[Picked(s)] + h[Rest(s)]]
    <3>3. ASSUME NEW s \in SUBSET S, Cardinality(s) <= n PROVE FoldsAt(g, f, s)
      <4>1. CASE s = {}
        <5>1. Cardinality(s) <= n - 1
          BY <3>1, <4>1, FS_EmptySet
        <5> QED
          BY <3>2, <4>1, <5>1 DEF FoldsAt
      <4>2. CASE s # {}
        <5>1. /\ Rest(s) \in SUBSET S /\ Cardinality(Rest(s)) <= n - 1
              /\ Cardinality(s) <= n - 1 \/ Cardinality(s) = n
          BY <1>1, <3>1, <3>3, <4>2, RestIsSmaller
        <5>2. g[Rest(s)] = h[Rest(s)]
          BY <5>1
        <5>3. g[s] = f[Picked(s)] + h[Rest(s)]
          BY <3>2, <4>2, <5>1 DEF FoldsAt
        <5> QED
          BY <4>2, <5>2, <5>3 DEF FoldsAt
      <4> QED
        BY <4>1, <4>2
    <3>4. g = [s \in SUBSET S |-> g[s]]
      OBVIOUS
    <3> HIDE DEF g
    <3>5. UpTo(n)
      BY <3>3, <3>4
    <3> QED
      BY <3>5
  <2> QED
    BY <2>1, <2>2
<1>3. Bad = {}
  <2>1. Bad \subseteq Nat
    OBVIOUS
  <2> HIDE DEF Bad
  <2> QED
    BY <1>2, <2>1, LeastNatural
<1>4. UpTo(Cardinality(S))
  <2> HIDE DEF UpTo
  <2> QED
    BY <1>1, <1>3
<1>5. PICK g : /\ g = [s \in SUBSET S |-> g[s]]
               /\ \A s \in SUBSET S : Cardinality(s) <= Cardinality(S) => FoldsAt(g, f, s)
  BY <1>4
<1>6. \A s \in SUBSET S : FoldsAt(g, f, s)
  BY <1>5, FS_Subset
<1>7. FoldsOver(g, f, S)
  BY <1>5, <1>6 DEF FoldsAt, FoldsOver
<1> QED
  BY <1>7

(* Functions that obey the equation on the subsets of S and of T agree on  *)
(* a set U they share.                                                     *)
LEMMA FoldUnique ==
    ASSUME NEW S, NEW T, NEW U, IsFiniteSet(U), U \subseteq S, U \subseteq T,
           NEW f,
           NEW g, FoldsBelow(g, f, S),
           NEW h, FoldsBelow(h, f, T)
    PROVE  g[U] = h[U]
<1> DEFINE Bad == {n \in Nat : \E s \in SUBSET U : Cardinality(s) = n /\ g[s] # h[s]}
<1>1. ASSUME NEW n \in Bad, \A k \in Bad : n <= k PROVE FALSE
  <2>1. PICK s \in SUBSET U : Cardinality(s) = n /\ g[s] # h[s]
    OBVIOUS
  <2>2. s \in SUBSET S /\ s \in SUBSET T /\ IsFiniteSet(s)
    BY FS_Subset
  <2>3. FoldsAt(g, f, s) /\ FoldsAt(h, f, s)
    BY <2>2 DEF FoldsBelow
  <2>4. CASE s = {}
    BY <2>1, <2>3, <2>4 DEF FoldsAt
  <2>5. CASE s # {}
    <3>1. /\ Picked(s) \in U /\ Rest(s) \in SUBSET U
          /\ Cardinality(Rest(s)) \in Nat /\ Cardinality(Rest(s)) < n
      BY <2>1, <2>2, <2>5, RestIsSmaller
    <3>2. g[Rest(s)] = h[Rest(s)]
      BY <1>1, <3>1
    <3> QED
      BY <2>1, <2>3, <2>5, <3>1, <3>2 DEF FoldsAt
  <2> QED
    BY <2>4, <2>5
<1>2. Bad = {}
  <2>1. Bad \subseteq Nat
    OBVIOUS
  <2> HIDE DEF Bad
  <2> QED
    BY <1>1, <2>1, LeastNatural
<1>3. Cardinality(U) \in Nat
  BY FS_CardinalityType
<1> QED
  BY <1>2, <1>3

(* The sum is the value at S of a function that obeys the equation. *)
LEMMA SumIsFold ==
    ASSUME NEW S, IsFiniteSet(S), NEW f
    PROVE  \E g : /\ FoldsBelow(g, f, S)
                  /\ SumFunctionOnSet(f, S) = g[S]
<1> DEFINE iter[s \in SUBSET S] ==
             IF s = {} THEN 0
             ELSE f[CHOOSE x \in s : TRUE] + iter[s \ {CHOOSE x \in s : TRUE}]
<1>1. SumFunctionOnSet(f, S) = iter[S]
  BY DEF SumFunctionOnSet, FoldFunctionOnSet, MapThenFoldSet
<1>2. iter = CHOOSE g : FoldsOver(g, f, S)
  BY DEF Picked, Rest, FoldsOver
<1>3. FoldsOver(iter, f, S)
  <2> HIDE DEF iter
  <2> QED
    BY <1>2, FoldExists
<1> HIDE DEF iter
<1>4. FoldsBelow(iter, f, S)
  BY <1>3 DEF FoldsAt, FoldsBelow, FoldsOver
<1> QED
  BY <1>1, <1>4

----------------------------------------------------------------------------
(* The sum over a set depends on the values in that set alone. *)
LEMMA SumAgree ==
    ASSUME NEW S, IsFiniteSet(S), NEW f, NEW e, \A x \in S : f[x] = e[x]
    PROVE  SumFunctionOnSet(f, S) = SumFunctionOnSet(e, S)
<1>1. PICK g : (FoldsBelow(g, f, S)) /\ SumFunctionOnSet(f, S) = g[S]
  BY SumIsFold
<1>2. PICK h : (FoldsBelow(h, e, S)) /\ SumFunctionOnSet(e, S) = h[S]
  BY SumIsFold
<1>3. FoldsBelow(h, f, S)
  <2>1. \A s \in SUBSET S : s # {} => f[Picked(s)] = e[Picked(s)]
    BY FS_Subset, RestIsSmaller
  <2> QED
    BY <1>2, <2>1 DEF FoldsAt, FoldsBelow
<1>4. g[S] = h[S]
  BY <1>1, <1>3, FoldUnique
<1> QED
  BY <1>1, <1>2, <1>4

(* The sum over no element. *)
LEMMA SumEmpty == \A f : SumFunctionOnSet(f, {}) = 0
<1> SUFFICES ASSUME NEW f PROVE SumFunctionOnSet(f, {}) = 0
  OBVIOUS
<1>1. PICK g : FoldsBelow(g, f, {}) /\ SumFunctionOnSet(f, {}) = g[{}]
  BY SumIsFold, FS_EmptySet
<1> QED
  BY <1>1 DEF FoldsAt, FoldsBelow

(* The sum over a set is its picked element and the sum of the rest. *)
LEMMA SumPick ==
    ASSUME NEW S, IsFiniteSet(S), S # {}, NEW f
    PROVE  SumFunctionOnSet(f, S) = f[Picked(S)] + SumFunctionOnSet(f, Rest(S))
<1> DEFINE T == Rest(S)
<1>1. IsFiniteSet(T) /\ T \subseteq S
  BY RestIsSmaller
<1>2. PICK g : (FoldsBelow(g, f, S)) /\ SumFunctionOnSet(f, S) = g[S]
  BY SumIsFold
<1>3. PICK h : (FoldsBelow(h, f, T)) /\ SumFunctionOnSet(f, T) = h[T]
  BY <1>1, SumIsFold
<1>4. g[T] = h[T]
  <2> HIDE DEF T
  <2> QED
    BY <1>1, <1>2, <1>3, FoldUnique
<1>5. g[S] = f[Picked(S)] + g[T]
  BY <1>2 DEF FoldsAt, FoldsBelow
<1> QED
  BY <1>2, <1>3, <1>4, <1>5

(* Integers add up to an integer, in whichever order they are taken. *)
LEMMA SumRemove ==
    ASSUME NEW S, IsFiniteSet(S), NEW f, \A x \in S : f[x] \in Int
    PROVE  /\ SumFunctionOnSet(f, S) \in Int
           /\ \A x \in S : SumFunctionOnSet(f, S) = f[x] + SumFunctionOnSet(f, S \ {x})
<1> DEFINE Sum(s) == SumFunctionOnSet(f, s)
           Good(s) == Sum(s) \in Int /\ \A x \in s : Sum(s) = f[x] + Sum(s \ {x})
           Bad == {n \in Nat : \E s \in SUBSET S : Cardinality(s) = n /\ ~ Good(s)}
<1>1. ASSUME NEW n \in Bad, \A k \in Bad : n <= k PROVE FALSE
  <2>1. PICK s \in SUBSET S : Cardinality(s) = n /\ ~ Good(s)
    OBVIOUS
  <2>2. IsFiniteSet(s)
    BY FS_Subset
  <2>3. \A t \in SUBSET s : Cardinality(t) \in Nat /\ Cardinality(t) < n => Good(t)
    <3> HIDE DEF Good
    <3> QED
      BY <1>1, <2>1
  <2>4. CASE s = {}
    BY <2>1, <2>4, SumEmpty
  <2>5. CASE s # {}
    <3> DEFINE y == Picked(s)
               t == s \ {y}
    <3>1. /\ y \in s /\ t \subseteq s
          /\ Cardinality(t) \in Nat /\ Cardinality(t) < n /\ Cardinality(t) = n - 1
      <4>1. /\ Picked(s) \in s /\ Rest(s) \subseteq s
            /\ Cardinality(s) \in Nat /\ Cardinality(Rest(s)) \in Nat
            /\ Cardinality(s) = Cardinality(Rest(s)) + 1
        BY <2>2, <2>5, RestIsSmaller
      <4>2. y = Picked(s) /\ t = Rest(s)
        BY DEF Rest
      <4>3. Cardinality(s) = n
        BY <2>1
      <4> HIDE DEF y, t
      <4> QED
        BY <4>1, <4>2, <4>3
    <3>2. Sum(s) = f[y] + Sum(t)
      BY <2>2, <2>5, SumPick DEF Rest
    <3>3. Good(t)
      BY <2>3, <3>1
    <3>4. f[y] \in Int /\ Sum(t) \in Int
      BY <3>1, <3>3
    <3>5. ASSUME NEW x \in s, x # y PROVE Sum(s) = f[x] + Sum(s \ {x})
      <4> DEFINE u == s \ {x}
                 v == t \ {x}
      <4>1. x \in t /\ Sum(t) = f[x] + Sum(v)
        BY <3>3, <3>5
      <4>2. /\ y \in u /\ u \ {y} = v /\ u \in SUBSET s /\ v \in SUBSET s
        BY <3>1, <3>5
      <4>3. /\ IsFiniteSet(u) /\ Cardinality(u) = n - 1
            /\ IsFiniteSet(t)
        BY <2>1, <2>2, <3>5, FS_RemoveElement
      <4>4. Cardinality(u) \in Nat /\ Cardinality(u) < n
        BY <3>1, <4>3
      <4>5. Good(u)
        BY <2>3, <4>2, <4>4
      <4>6. Sum(u) = f[y] + Sum(v)
        BY <4>2, <4>5
      <4>7. Cardinality(v) \in Nat /\ Cardinality(v) < n
        <5>1. IsFiniteSet(v) /\ Cardinality(v) = Cardinality(t) - 1
          BY <4>1, <4>3, FS_RemoveElement
        <5> QED
          BY <3>1, <5>1, FS_CardinalityType
      <4>8. Good(v)
        BY <2>3, <3>1, <4>2, <4>7
      <4>9. f[x] \in Int /\ f[y] \in Int /\ Sum(v) \in Int
        BY <3>1, <4>8
      <4> HIDE DEF u, v, y, t, Sum
      <4>10. Sum(s) = f[x] + Sum(u)
        BY <3>2, <4>1, <4>6, <4>9
      <4> QED
        BY <4>10 DEF u
    <3>6. Sum(s) \in Int
      BY <3>2, <3>4
    <3>7. \A x \in s : Sum(s) = f[x] + Sum(s \ {x})
      BY <3>2, <3>5
    <3> QED
      BY <2>1, <3>6, <3>7
  <2> QED
    BY <2>4, <2>5
<1>2. Bad = {}
  <2>1. Bad \subseteq Nat
    OBVIOUS
  <2> HIDE DEF Bad
  <2> QED
    BY <1>1, <2>1, LeastNatural
<1>3. Cardinality(S) \in Nat
  BY FS_CardinalityType
<1>4. Good(S)
  <2> HIDE DEF Good
  <2> QED
    BY <1>2, <1>3
<1> QED
  BY <1>4

----------------------------------------------------------------------------
(* What the proofs about sums use. *)

(* A new element adds its value. *)
LEMMA SumAdd ==
    ASSUME NEW S, IsFiniteSet(S), NEW x, x \notin S,
           NEW f, \A y \in S \cup {x} : f[y] \in Int
    PROVE  SumFunctionOnSet(f, S \cup {x}) = SumFunctionOnSet(f, S) + f[x]
<1> DEFINE T == S \cup {x}
<1>1. IsFiniteSet(T) /\ T \ {x} = S /\ x \in T
  BY FS_AddElement
<1>2. SumFunctionOnSet(f, T) = f[x] + SumFunctionOnSet(f, S)
  <2>1. \A y \in T : f[y] \in Int
    OBVIOUS
  <2> HIDE DEF T
  <2>2. SumFunctionOnSet(f, T) = f[x] + SumFunctionOnSet(f, T \ {x})
    BY <1>1, <2>1, SumRemove
  <2> QED
    BY <1>1, <2>2, Zenon
<1>3. SumFunctionOnSet(f, S) \in Int /\ f[x] \in Int
  BY SumRemove
<1> QED
  BY <1>1, <1>2, <1>3

(* When one element's value changes, the sum changes by the difference. *)
LEMMA SumChange ==
    ASSUME NEW S, IsFiniteSet(S), NEW x \in S,
           NEW f, \A y \in S : f[y] \in Int,
           NEW e, \A y \in S : e[y] \in Int,
           \A y \in S \ {x} : e[y] = f[y]
    PROVE  SumFunctionOnSet(e, S) = SumFunctionOnSet(f, S) - f[x] + e[x]
<1> DEFINE T == S \ {x}
<1>1. IsFiniteSet(T) /\ \A y \in T : f[y] \in Int /\ f[y] = e[y]
  BY FS_RemoveElement
<1>2. SumFunctionOnSet(f, T) = SumFunctionOnSet(e, T) /\ SumFunctionOnSet(f, T) \in Int
  <2> HIDE DEF T
  <2> QED
    BY <1>1, SumAgree, SumRemove
<1>3. /\ SumFunctionOnSet(f, S) = f[x] + SumFunctionOnSet(f, T)
      /\ SumFunctionOnSet(e, S) = e[x] + SumFunctionOnSet(e, T)
  BY SumRemove
<1> QED
  BY <1>2, <1>3

(* The sum of a combination is the combination of the sums. *)
LEMMA SumPlus ==
    ASSUME NEW S, IsFiniteSet(S),
           NEW f, \A y \in S : f[y] \in Int,
           NEW e, \A y \in S : e[y] \in Int,
           NEW h, \A y \in S : h[y] = f[y] + e[y]
    PROVE  SumFunctionOnSet(h, S) = SumFunctionOnSet(f, S) + SumFunctionOnSet(e, S)
<1> DEFINE Sum(k, s) == SumFunctionOnSet(k, s)
           Bad == {n \in Nat : \E s \in SUBSET S :
                     Cardinality(s) = n /\ Sum(h, s) # Sum(f, s) + Sum(e, s)}
<1>1. ASSUME NEW n \in Bad, \A k \in Bad : n <= k PROVE FALSE
  <2>1. PICK s \in SUBSET S : Cardinality(s) = n /\ Sum(h, s) # Sum(f, s) + Sum(e, s)
    OBVIOUS
  <2>2. IsFiniteSet(s)
    BY FS_Subset
  <2>3. s # {}
    <3>1. s = {} => Sum(h, s) = 0 /\ Sum(f, s) = 0 /\ Sum(e, s) = 0
      BY SumEmpty, Zenon
    <3> QED
      BY <2>1, <3>1
  <2> DEFINE x == Picked(s)
             t == Rest(s)
  <2>4. /\ x \in S /\ t \in SUBSET S /\ IsFiniteSet(t)
        /\ Cardinality(t) \in Nat /\ Cardinality(t) < n
    BY <2>1, <2>2, <2>3, RestIsSmaller
  <2>5. Sum(h, t) = Sum(f, t) + Sum(e, t)
    BY <1>1, <2>4
  <2>6. /\ Sum(h, s) = h[x] + Sum(h, t) /\ Sum(f, s) = f[x] + Sum(f, t)
        /\ Sum(e, s) = e[x] + Sum(e, t)
    BY <2>2, <2>3, SumPick
  <2>7. Sum(f, t) \in Int /\ Sum(e, t) \in Int
    <3> HIDE DEF t
    <3> QED
      BY <2>4, SumRemove
  <2> HIDE DEF Sum, x, t
  <2> QED
    BY <2>1, <2>4, <2>5, <2>6, <2>7
<1>2. Bad = {}
  <2>1. Bad \subseteq Nat
    OBVIOUS
  <2> HIDE DEF Bad
  <2> QED
    BY <1>1, <2>1, LeastNatural
<1>3. Cardinality(S) \in Nat
  BY FS_CardinalityType
<1> QED
  BY <1>2, <1>3

(* Naturals add up to a natural, and each is at most the sum. *)
LEMMA SumNat ==
    ASSUME NEW S, IsFiniteSet(S), NEW f, \A x \in S : f[x] \in Nat
    PROVE  /\ SumFunctionOnSet(f, S) \in Nat
           /\ \A x \in S : f[x] <= SumFunctionOnSet(f, S)
<1> DEFINE Sum(s) == SumFunctionOnSet(f, s)
           Bad == {n \in Nat : \E s \in SUBSET S : Cardinality(s) = n /\ Sum(s) \notin Nat}
<1>1. ASSUME NEW n \in Bad, \A k \in Bad : n <= k PROVE FALSE
  <2>1. PICK s \in SUBSET S : Cardinality(s) = n /\ Sum(s) \notin Nat
    OBVIOUS
  <2>2. IsFiniteSet(s)
    BY FS_Subset
  <2>3. s # {}
    BY <2>1, SumEmpty
  <2> DEFINE x == Picked(s)
             t == Rest(s)
  <2>4. /\ x \in S /\ t \in SUBSET S
        /\ Cardinality(t) \in Nat /\ Cardinality(t) < n
    BY <2>1, <2>2, <2>3, RestIsSmaller
  <2>5. Sum(t) \in Nat
    BY <1>1, <2>4
  <2>6. Sum(s) = f[x] + Sum(t)
    BY <2>2, <2>3, SumPick
  <2> HIDE DEF Sum, x, t
  <2> QED
    BY <2>1, <2>4, <2>5, <2>6
<1>2. Bad = {}
  <2>1. Bad \subseteq Nat
    OBVIOUS
  <2> HIDE DEF Bad
  <2> QED
    BY <1>1, <2>1, LeastNatural
<1>3. \A s \in SUBSET S : Sum(s) \in Nat
  BY <1>2, FS_Subset, FS_CardinalityType
<1>4. ASSUME NEW x \in S PROVE f[x] <= Sum(S)
  <2>1. Sum(S) = f[x] + Sum(S \ {x})
    BY SumRemove
  <2> QED
    BY <1>3, <2>1
<1> QED
  BY <1>3, <1>4

(* A function that is zero on a set adds up to zero. *)
LEMMA SumZero ==
    ASSUME NEW S, IsFiniteSet(S), NEW f, \A x \in S : f[x] = 0
    PROVE  SumFunctionOnSet(f, S) = 0
<1>1. SumFunctionOnSet(f, S) \in Int
  BY SumRemove
<1>2. \A x \in S : f[x] \in Int /\ f[x] = f[x] + f[x]
  OBVIOUS
<1>3. PICK sum \in Int : sum = SumFunctionOnSet(f, S)
  BY <1>1
<1>4. SumFunctionOnSet(f, S) = SumFunctionOnSet(f, S) + SumFunctionOnSet(f, S)
  BY <1>2, SumPlus
<1>5. sum = sum + sum
  BY <1>3, <1>4
<1>6. sum = 0
  BY <1>5
<1> QED
  BY <1>3, <1>6

(* A function that is zero but at one point adds up to its value there. *)
LEMMA SumPoint ==
    ASSUME NEW S, IsFiniteSet(S), NEW x \in S,
           NEW f, f[x] \in Int, \A y \in S \ {x} : f[y] = 0
    PROVE  SumFunctionOnSet(f, S) = f[x]
<1> DEFINE T == S \ {x}
<1>1. IsFiniteSet(T) /\ \A y \in T : f[y] = 0
  BY FS_RemoveElement
<1>2. SumFunctionOnSet(f, T) = 0
  <2> HIDE DEF T
  <2> QED
    BY <1>1, SumZero
<1>3. \A y \in S : f[y] \in Int
  OBVIOUS
<1>4. SumFunctionOnSet(f, S) = f[x] + SumFunctionOnSet(f, T)
  BY <1>3, SumRemove
<1> QED
  BY <1>2, <1>4

(* The sum over two sets that share nothing is the sum of the two sums. *)
LEMMA SumUnion ==
    ASSUME NEW S, IsFiniteSet(S), NEW T, IsFiniteSet(T), S \cap T = {},
           NEW f, \A x \in S \cup T : f[x] \in Int
    PROVE  SumFunctionOnSet(f, S \cup T) = SumFunctionOnSet(f, S) + SumFunctionOnSet(f, T)
<1> DEFINE U == S \cup T
           onS == [x \in U |-> IF x \in S THEN f[x] ELSE 0]
           onT == [x \in U |-> IF x \in S THEN 0 ELSE f[x]]
           Sum(g, s) == SumFunctionOnSet(g, s)
<1>1. IsFiniteSet(U)
  BY FS_Union
<1>2. /\ \A x \in U : onS[x] \in Int /\ onT[x] \in Int /\ f[x] = onS[x] + onT[x]
      /\ \A x \in S : onS[x] = f[x] /\ onT[x] = 0
      /\ \A x \in T : onS[x] = 0 /\ onT[x] = f[x]
  OBVIOUS
<1>3. Sum(f, U) = Sum(onS, U) + Sum(onT, U)
  <2> HIDE DEF onS, onT, U
  <2> QED
    BY <1>1, <1>2, SumPlus
<1> DEFINE Only(g, V) == \A x \in U \ V : g[x] = 0
<1>4. ASSUME NEW V \in SUBSET U, NEW g, \A x \in U : g[x] \in Int, Only(g, V)
      PROVE  Sum(g, U) = Sum(g, V)
  <2> DEFINE Bad == {n \in Nat : \E W \in SUBSET U :
                       V \subseteq W /\ Cardinality(W) = n /\ Sum(g, W) # Sum(g, V)}
  <2>1. ASSUME NEW n \in Bad, \A k \in Bad : n <= k PROVE FALSE
    <3>1. PICK W \in SUBSET U : V \subseteq W /\ Cardinality(W) = n /\ Sum(g, W) # Sum(g, V)
      OBVIOUS
    <3>2. IsFiniteSet(W)
      BY <1>1, FS_Subset
    <3>3. W # V
      BY <3>1
    <3>4. PICK x \in W : x \notin V
      BY <3>1, <3>3
    <3>5. /\ W \ {x} \in SUBSET U /\ V \subseteq W \ {x}
          /\ Cardinality(W \ {x}) \in Nat /\ Cardinality(W \ {x}) < n
      <4>1. Cardinality(W \ {x}) = n - 1 /\ IsFiniteSet(W \ {x})
        BY <3>1, <3>2, <3>4, FS_RemoveElement
      <4> QED
        BY <3>1, <3>4, <4>1, FS_CardinalityType
    <3>6. Sum(g, W \ {x}) = Sum(g, V)
      BY <2>1, <3>5
    <3>7. Sum(g, W) = g[x] + Sum(g, W \ {x}) /\ g[x] = 0
      BY <1>4, <3>2, <3>4, SumRemove
    <3>8. Sum(g, V) \in Int
      BY <1>1, <1>4, FS_Subset, SumRemove
    <3> HIDE DEF Sum
    <3> QED
      BY <3>1, <3>6, <3>7, <3>8
  <2>2. Bad = {}
    <3>1. Bad \subseteq Nat
      OBVIOUS
    <3> HIDE DEF Bad
    <3> QED
      BY <2>1, <3>1, LeastNatural
  <2>3. Cardinality(U) \in Nat /\ V \subseteq U /\ U \in SUBSET U
    BY <1>1, FS_CardinalityType
  <2> HIDE DEF Sum, U
  <2> QED
    BY <2>2, <2>3
<1>5. Sum(onS, U) = Sum(onS, S)
  <2>1. S \in SUBSET U /\ Only(onS, S)
    OBVIOUS
  <2> HIDE DEF onS, U, Only, Sum
  <2> QED
    BY <1>2, <1>4, <2>1
<1>6. Sum(onT, U) = Sum(onT, T)
  <2>1. T \in SUBSET U /\ Only(onT, T)
    OBVIOUS
  <2> HIDE DEF onT, U, Only, Sum
  <2> QED
    BY <1>2, <1>4, <2>1
<1>7. Sum(onS, S) = Sum(f, S) /\ Sum(onT, T) = Sum(f, T)
  <2> HIDE DEF onS, onT
  <2> QED
    BY <1>2, SumAgree
<1> QED
  BY <1>3, <1>5, <1>6, <1>7

(* Naturals over a smaller set add up to no more. *)
LEMMA SumSubset ==
    ASSUME NEW S, IsFiniteSet(S), NEW T, T \subseteq S, NEW f, \A x \in S : f[x] \in Nat
    PROVE  SumFunctionOnSet(f, T) <= SumFunctionOnSet(f, S)
<1> DEFINE R == S \ T
<1>1. IsFiniteSet(T) /\ IsFiniteSet(R) /\ T \cap R = {} /\ T \cup R = S
  BY FS_Subset
<1>2. SumFunctionOnSet(f, T) \in Nat /\ SumFunctionOnSet(f, R) \in Nat
  BY <1>1, SumNat
<1>3. \A x \in T \cup R : f[x] \in Int
  OBVIOUS
<1>4. SumFunctionOnSet(f, T \cup R) = SumFunctionOnSet(f, T) + SumFunctionOnSet(f, R)
  <2> HIDE DEF R
  <2> QED
    BY <1>1, <1>3, SumUnion
<1>5. SumFunctionOnSet(f, T \cup R) = SumFunctionOnSet(f, S)
  BY <1>1, Zenon
<1> QED
  BY <1>2, <1>4, <1>5

(* Values that are nowhere larger add up to no more. *)
LEMMA SumMonotone ==
    ASSUME NEW S, IsFiniteSet(S), NEW f, \A x \in S : f[x] \in Int,
           NEW e, \A x \in S : e[x] \in Int, \A x \in S : f[x] <= e[x]
    PROVE  SumFunctionOnSet(f, S) <= SumFunctionOnSet(e, S)
<1> DEFINE d == [x \in S |-> e[x] - f[x]]
<1>1. \A x \in S : d[x] \in Nat /\ d[x] \in Int /\ e[x] = f[x] + d[x]
  OBVIOUS
<1> HIDE DEF d
<1>2. SumFunctionOnSet(e, S) = SumFunctionOnSet(f, S) + SumFunctionOnSet(d, S)
  BY <1>1, SumPlus
<1>3. SumFunctionOnSet(d, S) \in Nat /\ SumFunctionOnSet(f, S) \in Int
  BY <1>1, SumNat, SumRemove
<1> QED
  BY <1>2, <1>3

(* Renaming the elements of a set one to one leaves the sum. *)
LEMMA SumReindex ==
    ASSUME NEW S, IsFiniteSet(S), NEW f, \A x \in S : f[x] \in Int,
           NEW h, \A x, y \in S : h[x] = h[y] => x = y,
           NEW e, \A x \in S : e[h[x]] = f[x]
    PROVE  SumFunctionOnSet(e, {h[x] : x \in S}) = SumFunctionOnSet(f, S)
<1> DEFINE Image(s) == {h[x] : x \in s}
           Sum(g, s) == SumFunctionOnSet(g, s)
           Bad == {n \in Nat : \E s \in SUBSET S :
                     Cardinality(s) = n /\ Sum(e, Image(s)) # Sum(f, s)}
<1>1. ASSUME NEW n \in Bad, \A k \in Bad : n <= k PROVE FALSE
  <2>1. PICK s \in SUBSET S : Cardinality(s) = n /\ Sum(e, Image(s)) # Sum(f, s)
    OBVIOUS
  <2>2. IsFiniteSet(s)
    BY FS_Subset
  <2>3. s # {}
    <3>1. ASSUME s = {} PROVE FALSE
      <4>1. Image(s) = {}
        BY <3>1
      <4>2. Sum(e, Image(s)) = 0 /\ Sum(f, s) = 0
        BY <3>1, <4>1, SumEmpty, Zenon
      <4> QED
        BY <2>1, <4>2
    <3> QED
      BY <3>1
  <2> DEFINE x == Picked(s)
             t == Rest(s)
  <2>4. /\ x \in s /\ t \in SUBSET S /\ IsFiniteSet(t) /\ x \notin t /\ s = t \cup {x}
        /\ Cardinality(t) \in Nat /\ Cardinality(t) < n
    <3>1. /\ x \in s /\ IsFiniteSet(t)
          /\ Cardinality(t) \in Nat /\ Cardinality(t) < n
      BY <2>1, <2>2, <2>3, RestIsSmaller
    <3>2. x \notin t /\ s = t \cup {x} /\ t \in SUBSET S
      BY <3>1 DEF Rest
    <3> QED
      BY <3>1, <3>2
  <2>5. Sum(e, Image(t)) = Sum(f, t)
    <3> HIDE DEF t, Image, Sum
    <3> QED
      BY <1>1, <2>4
  <2>6. Sum(f, s) = f[x] + Sum(f, t)
    BY <2>2, <2>3, SumPick
  <2> HIDE DEF x, t
  <2>7. Image(s) = Image(t) \cup {h[x]} /\ h[x] \notin Image(t)
    BY <2>4
  <2>8. IsFiniteSet(Image(t))
    <3>1. [y \in t |-> h[y]] \in Surjection(t, Image(t))
      BY DEF Surjection
    <3> QED
      BY <2>4, <3>1, FS_Surjection
  <2>9. \A z \in Image(t) \cup {h[x]} : e[z] \in Int
    BY <2>4
  <2>10. e[h[x]] = f[x] /\ f[x] \in Int
    BY <2>4
  <2>11. Sum(f, t) \in Int
    BY <2>4, SumRemove
  <2> HIDE DEF Image
  <2>12. Sum(e, Image(t) \cup {h[x]}) = Sum(e, Image(t)) + e[h[x]]
    BY <2>7, <2>8, <2>9, SumAdd
  <2>13. Sum(e, Image(s)) = Sum(e, Image(t)) + f[x]
    BY <2>7, <2>10, <2>12, Zenon
  <2> HIDE DEF Sum
  <2> QED
    BY <2>1, <2>5, <2>6, <2>10, <2>11, <2>13
<1>2. Bad = {}
  <2>1. Bad \subseteq Nat
    OBVIOUS
  <2> HIDE DEF Bad
  <2> QED
    BY <1>1, <2>1, LeastNatural
<1>3. Cardinality(S) \in Nat /\ S \in SUBSET S
  BY FS_CardinalityType
<1>4. Sum(e, Image(S)) = Sum(f, S)
  <2> HIDE DEF Sum, Image
  <2> QED
    BY <1>2, <1>3
<1> QED
  BY <1>4

(* Elements whose value is zero may be left out. *)
LEMMA SumSupport ==
    ASSUME NEW S, IsFiniteSet(S), NEW T, T \subseteq S,
           NEW f, \A x \in S : f[x] \in Int, \A x \in S \ T : f[x] = 0
    PROVE  SumFunctionOnSet(f, S) = SumFunctionOnSet(f, T)
<1> DEFINE R == S \ T
<1>1. IsFiniteSet(T) /\ IsFiniteSet(R) /\ T \cap R = {} /\ T \cup R = S
  BY FS_Subset
<1>2. SumFunctionOnSet(f, R) = 0
  <2>1. \A x \in R : f[x] = 0
    OBVIOUS
  <2> HIDE DEF R
  <2> QED
    BY <1>1, <2>1, SumZero
<1>3. \A x \in T \cup R : f[x] \in Int
  OBVIOUS
<1>4. SumFunctionOnSet(f, T \cup R) = SumFunctionOnSet(f, T) + SumFunctionOnSet(f, R)
  <2> HIDE DEF R
  <2> QED
    BY <1>1, <1>3, SumUnion
<1>5. SumFunctionOnSet(f, T \cup R) = SumFunctionOnSet(f, S)
  BY <1>1, Zenon
<1>6. SumFunctionOnSet(f, T) \in Int
  <2>1. \A x \in T : f[x] \in Int
    OBVIOUS
  <2> QED
    BY <1>1, <2>1, SumRemove
<1> QED
  BY <1>2, <1>4, <1>5, <1>6

(* The same value at every element. *)
LEMMA SumConstant ==
    ASSUME NEW S, IsFiniteSet(S), NEW c \in Int, NEW f, \A x \in S : f[x] = c
    PROVE  SumFunctionOnSet(f, S) = c * Cardinality(S)
<1> DEFINE Sum(s) == SumFunctionOnSet(f, s)
           Bad == {n \in Nat : \E s \in SUBSET S : Cardinality(s) = n /\ Sum(s) # c * n}
<1>1. ASSUME NEW n \in Bad, \A k \in Bad : n <= k PROVE FALSE
  <2>1. PICK s \in SUBSET S : Cardinality(s) = n /\ Sum(s) # c * n
    OBVIOUS
  <2>2. IsFiniteSet(s) /\ \A x \in s : f[x] \in Int
    BY FS_Subset
  <2>3. s # {}
    <3>1. s = {} => Sum(s) = 0 /\ Cardinality(s) = 0
      BY SumEmpty, FS_EmptySet, Zenon
    <3> HIDE DEF Sum
    <3> QED
      BY <2>1, <3>1
  <2> DEFINE x == Picked(s)
             t == Rest(s)
             m == Cardinality(t)
  <2>4. x \in S /\ t \in SUBSET S /\ m \in Nat /\ m < n /\ n = m + 1
    <3>1. x \in s /\ t \subseteq s /\ m \in Nat /\ Cardinality(s) = m + 1
      BY <2>2, <2>3, RestIsSmaller
    <3> HIDE DEF x, t, m
    <3> QED
      BY <2>1, <3>1
  <2>5. Sum(t) = c * m
    <3> HIDE DEF x, t, Sum
    <3> QED
      BY <1>1, <2>4
  <2>6. Sum(s) = f[x] + Sum(t) /\ f[x] = c
    BY <2>2, <2>3, <2>4, SumPick
  <2> HIDE DEF Sum, x, t, m
  <2>7. c * (m + 1) = c * m + c /\ c * m \in Int
    BY <2>4
  <2> QED
    BY <2>1, <2>4, <2>5, <2>6, <2>7
<1>2. Bad = {}
  <2>1. Bad \subseteq Nat
    OBVIOUS
  <2> HIDE DEF Bad
  <2> QED
    BY <1>1, <2>1, LeastNatural
<1>3. Cardinality(S) \in Nat /\ S \in SUBSET S
  BY FS_CardinalityType
<1>4. Sum(S) = c * Cardinality(S)
  <2> HIDE DEF Sum
  <2> QED
    BY <1>2, <1>3
<1> QED
  BY <1>4
=============================================================================
