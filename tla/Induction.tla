----------------------------- MODULE Induction -----------------------------
(***************************************************************************)
(* What proofs of recursive functions and of the community modules' folds  *)
(* need: induction over the naturals and over an interval, for the set of  *)
(* numbers that something holds of; sums over finite sets; one sequence    *)
(* behind another; and sequences of sequences, flattened.                  *)
(***************************************************************************)
EXTENDS SequencesExt, FiniteSetTheorems, SequenceTheorems, WellFoundedInduction, TLAPS

(* Induction over the naturals, for a set of them.                         *)
LEMMA UpToAll ==
  ASSUME NEW S, 0 \in S, \A n \in Nat : n \in S => n + 1 \in S
  PROVE  Nat \subseteq S
<1> DEFINE T == Nat \ S
<1> SUFFICES ASSUME T # {} PROVE FALSE
  OBVIOUS
<1>1. PICK n \in T : \A m \in T : <<m, n>> \notin OpToRel(<, Nat)
  <2> DEFINE R == OpToRel(<, Nat)
  <2>1. IsWellFoundedOn(R, Nat)
    BY NatLessThanWellFounded
  <2> HIDE DEF R
  <2>2. \E n \in T : \A m \in T : ~(<<m, n>> \in R)
    BY <2>1, WFMin
  <2> QED
    BY <2>2 DEF R
<1>2. n \in Nat \ {0}
  OBVIOUS
<1>3. n - 1 \in Nat /\ n - 1 < n
  BY <1>2
<1>4. n - 1 \notin T
  BY <1>1, <1>2, <1>3 DEF OpToRel
<1> QED
  BY <1>2, <1>3, <1>4

(* Induction over an interval.                                             *)
LEMMA StepByStep ==
  ASSUME NEW m \in Int, NEW n \in Int, NEW S, m \in S, \A k \in m .. n - 1 : k \in S => k + 1 \in S
  PROVE  m .. n \subseteq S
<1> DEFINE N == {k \in Nat : m + k <= n => m + k \in S}
<1>1. 0 \in N
  BY m + 0 = m
<1>2. ASSUME NEW k \in Nat, k \in N PROVE k + 1 \in N
  <2> SUFFICES ASSUME m + (k + 1) <= n PROVE m + (k + 1) \in S
    OBVIOUS
  <2>1. m + k \in m .. n - 1 /\ m + k \in S
    BY <1>2
  <2>2. (m + k) + 1 \in S
    BY <2>1
  <2> QED
    BY <2>2
<1>3. Nat \subseteq N
  <2> HIDE DEF N
  <2> QED
    BY <1>1, <1>2, UpToAll
<1>4. ASSUME NEW k \in m .. n PROVE k \in S
  <2>1. k - m \in N /\ m + (k - m) = k
    BY <1>3
  <2> QED
    BY <2>1
<1> QED
  BY <1>4

----------------------------------------------------------------------------
(* Sums over finite sets: SumFunctionOnSet takes the elements one by one,  *)
(* in an order of its own.                                                 *)
Some(s) == CHOOSE x \in s : TRUE
Iterates(f, D, g) == g = [s \in D |-> IF s = {} THEN 0 ELSE f[Some(s)] + g[s \ {Some(s)}]]

LEMMA SumIsIterated ==
  ASSUME NEW f, NEW S
  PROVE  SumFunctionOnSet(f, S) = (CHOOSE g : Iterates(f, SUBSET S, g))[S]
BY DEF SumFunctionOnSet, FoldFunctionOnSet, MapThenFoldSet, Iterates, Some

Small(S, n) == {s \in SUBSET S : IsFiniteSet(s) /\ Cardinality(s) <= n}

LEMMA OneLess ==
  ASSUME NEW s, s # {}, IsFiniteSet(s)
  PROVE  /\ Some(s) \in s /\ IsFiniteSet(s \ {Some(s)})
         /\ Cardinality(s \ {Some(s)}) = Cardinality(s) - 1 /\ Cardinality(s) \in Nat
<1>1. Some(s) \in s
  BY DEF Some
<1> QED
  BY <1>1, FS_RemoveElement, FS_CardinalityType

LEMMA IterExists ==
  ASSUME NEW f, NEW S, IsFiniteSet(S)
  PROVE  \E g : Iterates(f, SUBSET S, g)
<1> DEFINE N == {n \in Nat : \E g : Iterates(f, Small(S, n), g)}
<1>1. 0 \in N
  <2> DEFINE g == [s \in Small(S, 0) |-> 0]
  <2>1. \A s \in Small(S, 0) : s = {}
    BY FS_EmptySet, FS_CardinalityType DEF Small
  <2>2. Iterates(f, Small(S, 0), g)
    BY <2>1 DEF Iterates
  <2> HIDE DEF g
  <2> QED
    BY <2>2
<1>2. ASSUME NEW n \in Nat, n \in N PROVE n + 1 \in N
  <2>1. PICK g : Iterates(f, Small(S, n), g)
    BY <1>2
  <2> DEFINE h == [s \in Small(S, n + 1) |-> IF s = {} THEN 0 ELSE f[Some(s)] + g[s \ {Some(s)}]]
  <2>2. ASSUME NEW s \in Small(S, n) PROVE s \in Small(S, n + 1) /\ h[s] = g[s]
    <3>1. s \in Small(S, n + 1)
      BY FS_CardinalityType DEF Small
    <3> QED
      BY <2>1, <3>1 DEF Iterates
  <2>3. ASSUME NEW s \in Small(S, n + 1), s # {} PROVE s \ {Some(s)} \in Small(S, n)
    BY <2>3, OneLess DEF Small
  <2>4. Iterates(f, Small(S, n + 1), h)
    <3>1. \A s \in Small(S, n + 1) : s # {} => h[s \ {Some(s)}] = g[s \ {Some(s)}]
      BY <2>2, <2>3
    <3>2. \A s \in Small(S, n + 1) :
            h[s] = IF s = {} THEN 0 ELSE f[Some(s)] + h[s \ {Some(s)}]
      BY <3>1
    <3> HIDE DEF h
    <3>3. h = [s \in Small(S, n + 1) |-> h[s]]
      BY DEF h
    <3>4. h = [s \in Small(S, n + 1) |-> IF s = {} THEN 0 ELSE f[Some(s)] + h[s \ {Some(s)}]]
      BY <3>2, <3>3
    <3> QED
      BY <3>4 DEF Iterates
  <2> HIDE DEF h
  <2> QED
    BY <2>4
<1>3. Nat \subseteq N
  <2> HIDE DEF N
  <2> QED
    BY <1>1, <1>2, UpToAll
<1>4. Small(S, Cardinality(S)) = SUBSET S /\ Cardinality(S) \in Nat
  BY FS_Subset, FS_CardinalityType DEF Small
<1> QED
  BY <1>3, <1>4

(* The iterations over two sets agree on what is in both.                  *)
LEMMA IterAgree ==
  ASSUME NEW f, NEW S, NEW T \in SUBSET S, IsFiniteSet(S), NEW g, NEW h,
         Iterates(f, SUBSET S, g), Iterates(f, SUBSET T, h)
  PROVE  \A s \in SUBSET T : g[s] = h[s]
<1> DEFINE N == {n \in Nat : \A s \in SUBSET T : Cardinality(s) = n => g[s] = h[s]}
<1>0. \A s \in SUBSET T : IsFiniteSet(s) /\ Cardinality(s) \in Nat
  BY FS_Subset, FS_CardinalityType
<1>1. 0 \in N
  <2>1. ASSUME NEW s \in SUBSET T, Cardinality(s) = 0 PROVE g[s] = h[s]
    <3>1. s = {}
      BY <1>0, <2>1, FS_EmptySet
    <3> QED
      BY <3>1 DEF Iterates
  <2> QED
    BY <2>1
<1>2. ASSUME NEW n \in Nat, n \in N PROVE n + 1 \in N
  <2>1. ASSUME NEW s \in SUBSET T, Cardinality(s) = n + 1 PROVE g[s] = h[s]
    <3>1. s # {}
      BY <2>1, FS_EmptySet
    <3>2. Cardinality(s \ {Some(s)}) = n /\ s \ {Some(s)} \in SUBSET T
      BY <1>0, <2>1, <3>1, OneLess
    <3>3. g[s \ {Some(s)}] = h[s \ {Some(s)}]
      BY <1>2, <3>2
    <3>4. g[s] = f[Some(s)] + g[s \ {Some(s)}]
      BY <3>1 DEF Iterates
    <3>5. h[s] = f[Some(s)] + h[s \ {Some(s)}]
      BY <3>1 DEF Iterates
    <3> QED
      BY <3>3, <3>4, <3>5
  <2> QED
    BY <2>1
<1>3. Nat \subseteq N
  <2> HIDE DEF N
  <2> QED
    BY <1>1, <1>2, UpToAll
<1> QED
  BY <1>0, <1>3

(* An empty sum, and a sum without the element that comes first.           *)
LEMMA SumSteps ==
  ASSUME NEW f, NEW S, IsFiniteSet(S)
  PROVE  SumFunctionOnSet(f, S) =
           IF S = {} THEN 0 ELSE f[Some(S)] + SumFunctionOnSet(f, S \ {Some(S)})
<1> DEFINE g == CHOOSE g : Iterates(f, SUBSET S, g)
<1>1. Iterates(f, SUBSET S, g) /\ SumFunctionOnSet(f, S) = g[S]
  BY IterExists, SumIsIterated
<1>2. CASE S # {}
  <2> DEFINE T == S \ {Some(S)}
             h == CHOOSE h : Iterates(f, SUBSET T, h)
  <2>1. IsFiniteSet(T) /\ T \in SUBSET S
    BY FS_Subset
  <2>2. Iterates(f, SUBSET T, h) /\ SumFunctionOnSet(f, T) = h[T]
    BY <2>1, IterExists, SumIsIterated
  <2> HIDE DEF g, h, T
  <2>3. g[T] = h[T]
    BY <1>1, <2>1, <2>2, IterAgree
  <2>4. g[S] = f[Some(S)] + g[T]
    BY <1>1, <1>2 DEF Iterates, T
  <2> QED
    BY <1>1, <1>2, <2>2, <2>3, <2>4 DEF T
<1>3. CASE S = {}
  <2> HIDE DEF g
  <2>1. g[S] = 0
    BY <1>1, <1>3 DEF Iterates
  <2> QED
    BY <1>1, <1>3, <2>1
<1> QED
  BY <1>2, <1>3

Naturals(f, S) == \A x \in S : f[x] \in Nat

LEMMA SumType ==
  ASSUME NEW f, NEW S, IsFiniteSet(S), Naturals(f, S)
  PROVE  SumFunctionOnSet(f, S) \in Nat
<1> DEFINE N == {n \in Nat : \A s \in SUBSET S : Cardinality(s) = n => SumFunctionOnSet(f, s) \in Nat}
<1>0. \A s \in SUBSET S : IsFiniteSet(s) /\ Cardinality(s) \in Nat
  BY FS_Subset, FS_CardinalityType
<1>1. 0 \in N
  BY <1>0, FS_EmptySet, SumSteps
<1>2. ASSUME NEW n \in Nat, n \in N PROVE n + 1 \in N
  <2>1. ASSUME NEW s \in SUBSET S, Cardinality(s) = n + 1 PROVE SumFunctionOnSet(f, s) \in Nat
    <3>1. s # {}
      BY <2>1, FS_EmptySet
    <3>2. Cardinality(s \ {Some(s)}) = n /\ s \ {Some(s)} \in SUBSET S /\ Some(s) \in S
      BY <1>0, <2>1, <3>1, OneLess
    <3>3. SumFunctionOnSet(f, s \ {Some(s)}) \in Nat /\ f[Some(s)] \in Nat
      BY <1>2, <3>2 DEF Naturals
    <3> QED
      BY <1>0, <3>1, <3>3, SumSteps
  <2> QED
    BY <2>1
<1>3. Nat \subseteq N
  <2> HIDE DEF N
  <2> QED
    BY <1>1, <1>2, UpToAll
<1> QED
  BY <1>0, <1>3

(* The order does not matter.                                              *)
LEMMA SumWithout ==
  ASSUME NEW f, NEW S, IsFiniteSet(S), Naturals(f, S), NEW x \in S
  PROVE  SumFunctionOnSet(f, S) = f[x] + SumFunctionOnSet(f, S \ {x})
<1> DEFINE Sum(s) == SumFunctionOnSet(f, s)
           Fine(s) == \A y \in s : Sum(s) = f[y] + Sum(s \ {y})
           N == {n \in Nat : \A s \in SUBSET S : Cardinality(s) = n => Fine(s)}
<1>0. \A s \in SUBSET S : IsFiniteSet(s) /\ Cardinality(s) \in Nat /\ Sum(s) \in Nat
  <2>1. ASSUME NEW s \in SUBSET S PROVE IsFiniteSet(s) /\ Cardinality(s) \in Nat /\ Sum(s) \in Nat
    BY FS_Subset, FS_CardinalityType, SumType DEF Naturals
  <2> QED
    BY <2>1
<1>s. \A s \in SUBSET S : s # {} => Sum(s) = f[Some(s)] + Sum(s \ {Some(s)})
  BY <1>0, SumSteps
<1>1. 0 \in N
  BY <1>0, FS_EmptySet
<1>2. ASSUME NEW n \in Nat, n \in N PROVE n + 1 \in N
  <2>1. ASSUME NEW s \in SUBSET S, Cardinality(s) = n + 1, NEW y \in s
        PROVE  Sum(s) = f[y] + Sum(s \ {y})
    <3> DEFINE c == Some(s)
    <3>0. IsFiniteSet(s) /\ s # {}
      BY <1>0, <2>1
    <3>1. c \in s /\ Cardinality(s \ {c}) = n /\ Cardinality(s \ {y}) = n
      <4>1. c \in s /\ Cardinality(s \ {c}) = n
        <5>1. Some(s) \in s /\ Cardinality(s \ {Some(s)}) = Cardinality(s) - 1
          BY <3>0, OneLess
        <5> QED
          BY <2>1, <5>1
      <4>2. Cardinality(s \ {y}) = Cardinality(s) - 1
        BY <3>0, FS_RemoveElement
      <4> QED
        BY <2>1, <4>1, <4>2
    <3>2. Sum(s) = f[c] + Sum(s \ {c})
      BY <1>s, <2>1
    <3> HIDE DEF c, Sum
    <3>3. CASE c = y
      BY <3>2, <3>3
    <3>4. CASE c # y
      <4>1. Fine(s \ {c}) /\ Fine(s \ {y})
        BY <1>2, <3>1
      <4>2. Sum(s \ {c}) = f[y] + Sum((s \ {c}) \ {y}) /\ Sum(s \ {y}) = f[c] + Sum((s \ {y}) \ {c})
        BY <3>1, <3>4, <4>1
      <4>3. (s \ {c}) \ {y} = (s \ {y}) \ {c}
        OBVIOUS
      <4>4. f[c] \in Nat /\ f[y] \in Nat /\ Sum((s \ {y}) \ {c}) \in Nat
        BY <1>0, <3>1 DEF Naturals
      <4>5. Sum(s) = f[c] + (f[y] + Sum((s \ {y}) \ {c}))
        BY <3>2, <4>2, <4>3
      <4>6. f[y] + Sum(s \ {y}) = f[y] + (f[c] + Sum((s \ {y}) \ {c}))
        BY <4>2
      <4> QED
        BY <4>4, <4>5, <4>6
    <3> QED
      BY <3>3, <3>4
  <2> QED
    BY <2>1
<1>3. Nat \subseteq N
  <2> HIDE DEF N
  <2> QED
    BY <1>1, <1>2, UpToAll
<1> QED
  BY <1>0, <1>3

(* Induction over the subsets of a finite set, for a set of them.          *)
LEMMA OneByOne ==
  ASSUME NEW S, IsFiniteSet(S), NEW P, {} \in P,
         \A T \in SUBSET S, x \in S : T \in P /\ x \notin T => T \cup {x} \in P
  PROVE  S \in P
<1> DEFINE N == {n \in Nat : \A T \in SUBSET S : Cardinality(T) = n => T \in P}
<1>0. \A T \in SUBSET S : IsFiniteSet(T) /\ Cardinality(T) \in Nat
  BY FS_Subset, FS_CardinalityType
<1>1. 0 \in N
  BY <1>0, FS_EmptySet
<1>2. ASSUME NEW n \in Nat, n \in N PROVE n + 1 \in N
  <2>1. ASSUME NEW T \in SUBSET S, Cardinality(T) = n + 1 PROVE T \in P
    <3>0. T # {}
      <4>1. T = {} => Cardinality(T) = 0
        BY FS_EmptySet, Zenon
      <4> QED
        BY <2>1, <4>1
    <3>1. PICK x \in T : TRUE
      BY <3>0
    <3>2. IsFiniteSet(T)
      BY <1>0
    <3>3. Cardinality(T \ {x}) = n
      <4>1. Cardinality(T \ {x}) = Cardinality(T) - 1
        BY <3>2, FS_RemoveElement
      <4> QED
        BY <2>1, <4>1
    <3>4. T \ {x} \in P /\ x \notin T \ {x} /\ T = (T \ {x}) \cup {x}
      BY <1>2, <3>1, <3>3
    <3> QED
      BY <3>1, <3>4
  <2> QED
    BY <2>1
<1>3. Nat \subseteq N
  <2> HIDE DEF N
  <2> QED
    BY <1>1, <1>2, UpToAll
<1> QED
  BY <1>0, <1>3

LEMMA SumOfNone ==
  ASSUME NEW f PROVE SumFunctionOnSet(f, {}) = 0
BY SumSteps, FS_EmptySet

LEMMA SumWith ==
  ASSUME NEW f, NEW T, IsFiniteSet(T), NEW x, x \notin T, Naturals(f, T \cup {x})
  PROVE  /\ SumFunctionOnSet(f, T \cup {x}) = f[x] + SumFunctionOnSet(f, T)
         /\ SumFunctionOnSet(f, T) \in Nat /\ f[x] \in Nat
<1>1. IsFiniteSet(T \cup {x}) /\ (T \cup {x}) \ {x} = T /\ x \in T \cup {x}
  BY FS_AddElement
<1>2. SumFunctionOnSet(f, T \cup {x}) = f[x] + SumFunctionOnSet(f, (T \cup {x}) \ {x})
  BY <1>1, SumWithout
<1>3. SumFunctionOnSet(f, T) \in Nat
  BY SumType DEF Naturals
<1> QED
  BY <1>1, <1>2, <1>3 DEF Naturals

(* Sums of what is no more are no more, and of the same are the same.      *)
LEMMA SumsCompare ==
  ASSUME NEW S, IsFiniteSet(S), NEW f, NEW g, Naturals(f, S), Naturals(g, S),
         \A x \in S : f[x] <= g[x]
  PROVE  SumFunctionOnSet(f, S) <= SumFunctionOnSet(g, S)
<1> DEFINE P == {T \in SUBSET S : SumFunctionOnSet(f, T) <= SumFunctionOnSet(g, T)}
<1>1. {} \in P
  BY SumOfNone
<1>2. ASSUME NEW T \in SUBSET S, NEW x \in S, T \in P, x \notin T PROVE T \cup {x} \in P
  <2>1. IsFiniteSet(T) /\ Naturals(f, T \cup {x}) /\ Naturals(g, T \cup {x})
    BY FS_Subset DEF Naturals
  <2>2. /\ SumFunctionOnSet(f, T \cup {x}) = f[x] + SumFunctionOnSet(f, T)
        /\ SumFunctionOnSet(f, T) \in Nat /\ f[x] \in Nat
    BY <1>2, <2>1, SumWith
  <2>3. /\ SumFunctionOnSet(g, T \cup {x}) = g[x] + SumFunctionOnSet(g, T)
        /\ SumFunctionOnSet(g, T) \in Nat /\ g[x] \in Nat
    BY <1>2, <2>1, SumWith
  <2> QED
    BY <1>2, <2>2, <2>3
<1> HIDE DEF P
<1>3. S \in P
  BY <1>1, <1>2, OneByOne
<1> QED
  BY <1>3 DEF P

LEMMA SumsEqual ==
  ASSUME NEW S, IsFiniteSet(S), NEW f, NEW g, Naturals(f, S), \A x \in S : f[x] = g[x]
  PROVE  SumFunctionOnSet(f, S) = SumFunctionOnSet(g, S)
<1>1. Naturals(g, S)
  BY DEF Naturals
<1>2. /\ SumFunctionOnSet(f, S) <= SumFunctionOnSet(g, S)
      /\ SumFunctionOnSet(g, S) <= SumFunctionOnSet(f, S)
  BY <1>1, SumsCompare DEF Naturals
<1>3. SumFunctionOnSet(f, S) \in Nat /\ SumFunctionOnSet(g, S) \in Nat
  BY <1>1, SumType
<1> QED
  BY <1>2, <1>3

(* A sum over a set is one over a part and one over the rest.              *)
LEMMA SumOfParts ==
  ASSUME NEW S, IsFiniteSet(S), NEW f, Naturals(f, S), NEW R \in SUBSET S
  PROVE  SumFunctionOnSet(f, S) = SumFunctionOnSet(f, R) + SumFunctionOnSet(f, S \ R)
<1> DEFINE Sum(T) == SumFunctionOnSet(f, T)
           P == {T \in SUBSET S : Sum(T) = Sum(T \cap R) + Sum(T \ R)}
<1>1. {} \in P
  <2>1. {} \cap R = {} /\ {} \ R = {}
    OBVIOUS
  <2> QED
    BY <2>1, SumOfNone
<1>2. ASSUME NEW T \in SUBSET S, NEW x \in S, T \in P, x \notin T PROVE T \cup {x} \in P
  <2>1. /\ IsFiniteSet(T) /\ IsFiniteSet(T \cap R) /\ IsFiniteSet(T \ R)
        /\ Naturals(f, T \cup {x}) /\ Naturals(f, (T \cap R) \cup {x}) /\ Naturals(f, (T \ R) \cup {x})
    BY FS_Subset DEF Naturals
  <2>2. Sum(T \cup {x}) = f[x] + Sum(T) /\ f[x] \in Nat
    BY <1>2, <2>1, SumWith
  <2>3. Sum((T \cap R) \cup {x}) = f[x] + Sum(T \cap R) /\ Sum(T \cap R) \in Nat
    BY <1>2, <2>1, SumWith
  <2>4. Sum((T \ R) \cup {x}) = f[x] + Sum(T \ R) /\ Sum(T \ R) \in Nat
    BY <1>2, <2>1, SumWith
  <2>5. Sum(T) = Sum(T \cap R) + Sum(T \ R)
    BY <1>2
  <2>6. CASE x \in R
    <3>1. /\ Sum((T \cup {x}) \cap R) = Sum((T \cap R) \cup {x})
          /\ Sum((T \cup {x}) \ R) = Sum(T \ R)
      <4>1. (T \cup {x}) \cap R = (T \cap R) \cup {x} /\ (T \cup {x}) \ R = T \ R
        BY <2>6
      <4> QED
        BY <4>1, Zenon
    <3> HIDE DEF Sum
    <3> QED
      BY <2>2, <2>3, <2>4, <2>5, <3>1
  <2>7. CASE x \notin R
    <3>1. /\ Sum((T \cup {x}) \cap R) = Sum(T \cap R)
          /\ Sum((T \cup {x}) \ R) = Sum((T \ R) \cup {x})
      <4>1. (T \cup {x}) \cap R = T \cap R /\ (T \cup {x}) \ R = (T \ R) \cup {x}
        BY <2>7
      <4> QED
        BY <4>1, Zenon
    <3> HIDE DEF Sum
    <3> QED
      BY <2>2, <2>3, <2>4, <2>5, <3>1
  <2> QED
    BY <2>6, <2>7
<1> HIDE DEF P
<1>3. S \in P
  BY <1>1, <1>2, OneByOne
<1>4. S \cap R = R
  OBVIOUS
<1> QED
  BY <1>3, <1>4 DEF P

(* Zeros do not count.                                                     *)
LEMMA SumOfZeros ==
  ASSUME NEW S, IsFiniteSet(S), NEW f, \A x \in S : f[x] = 0
  PROVE  SumFunctionOnSet(f, S) = 0
<1> DEFINE P == {T \in SUBSET S : SumFunctionOnSet(f, T) = 0}
<1>1. {} \in P
  BY SumOfNone
<1>2. ASSUME NEW T \in SUBSET S, NEW x \in S, T \in P, x \notin T PROVE T \cup {x} \in P
  <2>1. IsFiniteSet(T) /\ Naturals(f, T \cup {x})
    BY FS_Subset DEF Naturals
  <2>2. SumFunctionOnSet(f, T \cup {x}) = f[x] + SumFunctionOnSet(f, T)
    BY <1>2, <2>1, SumWith
  <2> QED
    BY <1>2, <2>2
<1> HIDE DEF P
<1>3. S \in P
  BY <1>1, <1>2, OneByOne
<1> QED
  BY <1>3 DEF P

(* A count is a sum of ones.                                               *)
LEMMA SumOfOnes ==
  ASSUME NEW S, IsFiniteSet(S), NEW f, \A x \in S : f[x] = 1
  PROVE  SumFunctionOnSet(f, S) = Cardinality(S)
<1> DEFINE P == {T \in SUBSET S : SumFunctionOnSet(f, T) = Cardinality(T)}
<1>1. {} \in P
  BY SumOfNone, FS_EmptySet
<1>2. ASSUME NEW T \in SUBSET S, NEW x \in S, T \in P, x \notin T PROVE T \cup {x} \in P
  <2>1. IsFiniteSet(T) /\ Naturals(f, T \cup {x})
    BY FS_Subset DEF Naturals
  <2>2. SumFunctionOnSet(f, T \cup {x}) = f[x] + SumFunctionOnSet(f, T)
    BY <1>2, <2>1, SumWith
  <2>3. Cardinality(T \cup {x}) = Cardinality(T) + 1 /\ Cardinality(T) \in Nat
    BY <1>2, <2>1, FS_AddElement, FS_CardinalityType
  <2> QED
    BY <1>2, <2>2, <2>3
<1> HIDE DEF P
<1>3. S \in P
  BY <1>1, <1>2, OneByOne
<1> QED
  BY <1>3 DEF P

(* The sums of the classes of a partition add up to the whole.             *)
Class(S, k, c) == {x \in S : k[x] = c}
LEMMA SumOfClasses ==
  ASSUME NEW S, IsFiniteSet(S), NEW f, Naturals(f, S), NEW k, NEW K, IsFiniteSet(K),
         \A x \in S : k[x] \in K,
         NEW g, \A c \in K : g[c] = SumFunctionOnSet(f, Class(S, k, c))
  PROVE  SumFunctionOnSet(g, K) = SumFunctionOnSet(f, S)
<1> DEFINE Sum(T) == SumFunctionOnSet(f, T)
           In(J) == {x \in S : k[x] \in J}
           P == {J \in SUBSET K : SumFunctionOnSet(g, J) = Sum(In(J))}
<1>0. \A T \in SUBSET S : IsFiniteSet(T) /\ Naturals(f, T) /\ Sum(T) \in Nat
  <2>1. ASSUME NEW T \in SUBSET S PROVE IsFiniteSet(T) /\ Naturals(f, T) /\ Sum(T) \in Nat
    BY FS_Subset, SumType DEF Naturals
  <2> QED
    BY <2>1
<1>1. {} \in P
  <2>1. In({}) = {}
    OBVIOUS
  <2> QED
    BY <2>1, SumOfNone
<1>n. \A c \in K : g[c] \in Nat /\ g[c] = Sum(Class(S, k, c))
  BY <1>0 DEF Class
<1>2. ASSUME NEW J \in SUBSET K, NEW c \in K, J \in P, c \notin J PROVE J \cup {c} \in P
  <2>1. IsFiniteSet(J) /\ Naturals(g, J \cup {c})
    BY <1>n, FS_Subset DEF Naturals
  <2>2. SumFunctionOnSet(g, J \cup {c}) = g[c] + SumFunctionOnSet(g, J)
    BY <1>2, <2>1, SumWith
  <2> DEFINE A == In(J \cup {c})
             R == Class(S, k, c)
  <2>3. A \in SUBSET S /\ R \in SUBSET A /\ A \ R = In(J)
    BY <1>2 DEF Class
  <2> HIDE DEF A, R
  <2>4. IsFiniteSet(A) /\ Naturals(f, A)
    BY <1>0, <2>3
  <2>5. Sum(A) = Sum(R) + Sum(A \ R)
    BY <2>3, <2>4, SumOfParts
  <2>6. SumFunctionOnSet(g, J) = Sum(In(J)) /\ g[c] = Sum(R)
    BY <1>2, <1>n DEF R
  <2> QED
    BY <2>2, <2>3, <2>5, <2>6 DEF A
<1> HIDE DEF P
<1>3. K \in P
  BY <1>1, <1>2, OneByOne
<1>4. In(K) = S
  OBVIOUS
<1> QED
  BY <1>3, <1>4 DEF P

----------------------------------------------------------------------------
(* One sequence behind another.                                            *)
Joins(X, v, s, t) ==
  /\ v \in Seq(X) /\ Len(s) \in Nat /\ Len(t) \in Nat
  /\ Len(v) = Len(s) + Len(t)
  /\ \A k \in 1 .. Len(s) : v[k] = s[k]
  /\ \A k \in 1 .. Len(t) : v[Len(s) + k] = t[k]

LEMMA Concatenated ==
  ASSUME NEW X, NEW s \in Seq(X), NEW t \in Seq(X), NEW v, v = s \o t
  PROVE  Joins(X, v, s, t)
BY ConcatProperties, LenProperties DEF Joins

(* A sequence ends with what is put behind another.                        *)
LEMMA EndsWith ==
  ASSUME NEW X, NEW a \in Seq(X), NEW s \in Seq(X)
  PROVE  IsSuffix(s, a \o s)
<1> DEFINE t == a \o s
           m == Len(s)
           n == Len(a)
<1>1. Joins(X, t, a, s)
  <2>1. t = a \o s
    OBVIOUS
  <2> HIDE DEF t
  <2> QED
    BY <2>1, Concatenated, Zenon
<1> HIDE DEF t
<1>2. t \in Seq(X) /\ m \in Nat /\ n \in Nat /\ Len(t) = n + m /\ \A k \in 1 .. m : t[n + k] = s[k]
  BY <1>1 DEF Joins
<1> HIDE DEF m, n
<1> DEFINE u == Reverse(s)
           v == Reverse(t)
<1>3. /\ u = [k \in 1 .. m |-> s[(m - k) + 1]]
      /\ v = [k \in 1 .. n + m |-> t[((n + m) - k) + 1]]
  BY <1>2 DEF Reverse, m
<1>4. ASSUME NEW k \in 1 .. m PROVE u[k] = v[k]
  <2> DEFINE l == (m - k) + 1
  <2>1. l \in 1 .. m /\ ((n + m) - k) + 1 = n + l /\ k \in 1 .. n + m
    BY <1>2
  <2>2. u[k] = s[l]
    BY <1>3
  <2> HIDE DEF l, u, v
  <2>3. v[k] = t[n + l]
    BY <1>3, <2>1
  <2> QED
    BY <1>2, <2>1, <2>2, <2>3
<1>5. u \in Seq(X) /\ v \in Seq(X) /\ Len(u) = m /\ Len(v) = n + m
  <2>1. \A k \in 1 .. m : (m - k) + 1 \in 1 .. m
    BY <1>2
  <2>2. \A k \in 1 .. n + m : ((n + m) - k) + 1 \in 1 .. n + m
    BY <1>2
  <2>3. \A k \in 1 .. m : s[k] \in X
    BY DEF m
  <2>4. \A k \in 1 .. n + m : t[k] \in X
    BY <1>2
  <2> HIDE DEF u, v
  <2>5. u \in [1 .. m -> X]
    BY <1>3, <2>1, <2>3
  <2>6. v \in [1 .. n + m -> X]
    BY <1>3, <2>2, <2>4
  <2>7. ASSUME NEW k \in Nat, NEW w \in [1 .. k -> X] PROVE w \in Seq(X) /\ Len(w) = k
    OBVIOUS
  <2>8. u \in Seq(X) /\ Len(u) = m
    BY <1>2, <2>5, <2>7
  <2>9. n + m \in Nat
    BY <1>2
  <2>10. v \in Seq(X) /\ Len(v) = n + m
    BY <2>6, <2>7, <2>9, Zenon
  <2> QED
    BY <2>8, <2>10
<1> HIDE DEF u, v
<1>6. SubSeq(u, 1, m) = [k \in 1 .. m |-> u[k]]
  BY <1>2, <1>5
<1>7. SubSeq(v, 1, m) = [k \in 1 .. m |-> v[k]]
  BY <1>2, <1>5
<1>8. SubSeq(u, 1, m) = SubSeq(v, 1, m)
  BY <1>4, <1>6, <1>7
<1> QED
  BY <1>2, <1>5, <1>8 DEF IsSuffix, IsPrefix, t, u, v

----------------------------------------------------------------------------
(* Sequences of sequences, flattened.                                      *)
Flattens(ss, n, f) == f = [i \in 1 .. n |-> IF i = 1 THEN ss[i] ELSE f[i - 1] \o ss[i]]

LEMMA FlattenSteps ==
  ASSUME NEW X, NEW ss \in Seq(Seq(X)), Len(ss) # 0
  PROVE  \E f : /\ FlattenSeq(ss) = f[Len(ss)]
                /\ f[1] = ss[1]
                /\ \A n \in 1 .. Len(ss) - 1 : f[n + 1] = f[n] \o ss[n + 1]
<1> DEFINE N == {n \in Nat : \E f : Flattens(ss, n, f)}
<1>1. 0 \in N
  <2> DEFINE f == [i \in 1 .. 0 |-> ss[i]]
  <2>1. Flattens(ss, 0, f)
    BY DEF Flattens
  <2> HIDE DEF f
  <2> QED
    BY <2>1
<1>2. ASSUME NEW n \in Nat, n \in N PROVE n + 1 \in N
  <2>1. PICK f : Flattens(ss, n, f)
    BY <1>2
  <2> DEFINE g == [i \in 1 .. n + 1 |-> IF i = 1 THEN ss[i] ELSE f[i - 1] \o ss[i]]
  <2>2. ASSUME NEW i \in 1 .. n PROVE g[i] = f[i]
    <3>1. f[i] = IF i = 1 THEN ss[i] ELSE f[i - 1] \o ss[i]
      BY <2>1 DEF Flattens
    <3> QED
      BY <3>1
  <2>3. ASSUME NEW i \in 1 .. n + 1, i # 1 PROVE g[i - 1] = f[i - 1]
    <3>1. i - 1 \in 1 .. n
      BY <2>3
    <3> HIDE DEF g
    <3> QED
      BY <2>2, <3>1
  <2>4. \A i \in 1 .. n + 1 : g[i] = IF i = 1 THEN ss[i] ELSE g[i - 1] \o ss[i]
    BY <2>3
  <2>5. g = [i \in 1 .. n + 1 |-> g[i]]
    OBVIOUS
  <2> HIDE DEF g
  <2>6. g = [i \in 1 .. n + 1 |-> IF i = 1 THEN ss[i] ELSE g[i - 1] \o ss[i]]
    BY <2>4, <2>5
  <2>7. Flattens(ss, n + 1, g)
    BY <2>6 DEF Flattens
  <2> QED
    BY <2>7
<1>3. Nat \subseteq N
  <2> HIDE DEF N
  <2> QED
    BY <1>1, <1>2, UpToAll
<1> DEFINE f == CHOOSE f : Flattens(ss, Len(ss), f)
<1>4. Flattens(ss, Len(ss), f)
  BY <1>3
<1>5. FlattenSeq(ss) = f[Len(ss)]
  BY DEF FlattenSeq, Flattens
<1> HIDE DEF f
<1>6. \A i \in 1 .. Len(ss) : f[i] = IF i = 1 THEN ss[i] ELSE f[i - 1] \o ss[i]
  BY <1>4 DEF Flattens
<1>7. f[1] = ss[1]
  BY <1>6
<1>8. ASSUME NEW n \in 1 .. Len(ss) - 1 PROVE f[n + 1] = f[n] \o ss[n + 1]
  <2>1. n + 1 \in 1 .. Len(ss) /\ n + 1 # 1 /\ (n + 1) - 1 = n
    OBVIOUS
  <2> QED
    BY <1>6, <2>1
<1> QED
  BY <1>5, <1>7, <1>8

(* The parts of a flattening, and a flattening from one of them on.        *)
LEMMA FlattenParts ==
  ASSUME NEW X, NEW ss \in Seq(Seq(X)), NEW f, f[1] = ss[1],
         \A n \in 1 .. Len(ss) - 1 : f[n + 1] = f[n] \o ss[n + 1], NEW n \in 1 .. Len(ss)
  PROVE  f[n] \in Seq(X)
<1> DEFINE N == {k \in 1 .. Len(ss) : f[k] \in Seq(X)}
<1>0. Len(ss) \in Nat
  OBVIOUS
<1>1. 1 \in N
  OBVIOUS
<1>2. ASSUME NEW k \in 1 .. Len(ss) - 1, k \in N PROVE k + 1 \in N
  <2>0. f[k + 1] = f[k] \o ss[k + 1]
    OBVIOUS
  <2>1. k + 1 \in 1 .. Len(ss) /\ f[k + 1] = f[k] \o ss[k + 1] /\ f[k] \in Seq(X)
    BY <1>0, <1>2, <2>0
  <2>2. ss[k + 1] \in Seq(X)
    BY <2>1
  <2>3. f[k] \o ss[k + 1] \in Seq(X)
    BY <2>1, <2>2
  <2> QED
    BY <2>1, <2>3
<1> HIDE DEF N
<1>3. 1 .. Len(ss) \subseteq N
  <2> DEFINE m == 1
  <2>1. m \in Int /\ Len(ss) \in Int /\ m \in N /\ \A k \in m .. Len(ss) - 1 : k \in N => k + 1 \in N
    BY <1>0, <1>1, <1>2
  <2> HIDE DEF m
  <2>2. m .. Len(ss) \subseteq N
    BY <2>1, StepByStep
  <2> QED
    BY <2>2 DEF m
<1> QED
  BY <1>3 DEF N

LEMMA FlattenType ==
  ASSUME NEW X, NEW ss \in Seq(Seq(X))
  PROVE  FlattenSeq(ss) \in Seq(X)
<1>1. CASE Len(ss) = 0
  <2>1. ss = <<>>
    BY <1>1
  <2> QED
    BY <1>1, <2>1 DEF FlattenSeq
<1>2. CASE Len(ss) # 0
  <2>1. PICK f : /\ FlattenSeq(ss) = f[Len(ss)]
                 /\ f[1] = ss[1]
                 /\ \A n \in 1 .. Len(ss) - 1 : f[n + 1] = f[n] \o ss[n + 1]
    BY <1>2, FlattenSteps
  <2>2. Len(ss) \in 1 .. Len(ss)
    BY <1>2
  <2>3. f[Len(ss)] \in Seq(X)
    BY <2>1, <2>2, FlattenParts
  <2> QED
    BY <2>1, <2>3
<1> QED
  BY <1>1, <1>2

(* One of the sequences, between what is before and what is behind it.     *)
AllBehind(ss, i, Y) == \A j \in 1 .. Len(ss) : j > i => ss[j] \in Seq(Y)
Around(ss, i, X, Y) ==
  \E a \in Seq(X), b \in Seq(Y) : FlattenSeq(ss) = (a \o ss[i]) \o b /\ (i = 1 => a = <<>>)

LEMMA FlattenAround ==
  ASSUME NEW X, NEW Y, NEW ss \in Seq(Seq(X)), NEW i \in 1 .. Len(ss), AllBehind(ss, i, Y)
  PROVE  Around(ss, i, X, Y)
<1> USE DEF AllBehind
<1>1. PICK f : /\ FlattenSeq(ss) = f[Len(ss)]
               /\ f[1] = ss[1]
               /\ \A n \in 1 .. Len(ss) - 1 : f[n + 1] = f[n] \o ss[n + 1]
  <2>1. Len(ss) # 0
    OBVIOUS
  <2> QED
    BY <2>1, FlattenSteps
<1>2. \A n \in 1 .. Len(ss) : f[n] \in Seq(X)
  BY <1>1, FlattenParts
<1>3. \E a \in Seq(X) : f[i] = a \o ss[i] /\ (i = 1 => a = <<>>)
  <2>1. CASE i = 1
    <3>1. f[i] = <<>> \o ss[i] /\ <<>> \in Seq(X)
      BY <1>1, <2>1
    <3> QED
      BY <3>1
  <2>2. CASE i # 1
    <3> DEFINE k == i - 1
    <3>1. k \in 1 .. Len(ss) - 1 /\ k + 1 = i
      BY <2>2
    <3> HIDE DEF k
    <3>2. f[i] = f[k] \o ss[i]
      BY <1>1, <3>1
    <3>3. f[k] \in Seq(X)
      BY <1>2, <3>1
    <3> QED
      BY <2>2, <3>2, <3>3
  <2> QED
    BY <2>1, <2>2
<1>4. PICK a \in Seq(X) : f[i] = a \o ss[i] /\ (i = 1 => a = <<>>)
  BY <1>3
<1> DEFINE c == a \o ss[i]
           N == {n \in i .. Len(ss) : \E b \in Seq(Y) : f[n] = c \o b}
<1>5. c \in Seq(X)
  OBVIOUS
<1> HIDE DEF c
<1>6. i \in N
  <2>1. f[i] = c \o <<>>
    BY <1>4, <1>5 DEF c
  <2>2. <<>> \in Seq(Y) /\ i \in i .. Len(ss)
    OBVIOUS
  <2> QED
    BY <2>1, <2>2
<1>7. ASSUME NEW n \in i .. Len(ss) - 1, n \in N PROVE n + 1 \in N
  <2>1. PICK b \in Seq(Y) : f[n] = c \o b
    BY <1>7
  <2>2. n \in 1 .. Len(ss) - 1 /\ n + 1 \in i .. Len(ss) /\ n + 1 > i
    OBVIOUS
  <2> DEFINE s == ss[n + 1]
  <2>3. s \in Seq(Y)
    BY <2>2
  <2>4. f[n + 1] = (c \o b) \o s
    BY <1>1, <2>1, <2>2
  <2> HIDE DEF s
  <2>5. (c \o b) \o s = c \o (b \o s)
    BY <1>5, <2>3, SMTT(30)
  <2>6. b \o s \in Seq(Y)
    BY <2>3
  <2> QED
    BY <2>2, <2>4, <2>5, <2>6
<1> HIDE DEF N
<1>8. i \in Int /\ Len(ss) \in Int /\ Len(ss) \in i .. Len(ss)
  OBVIOUS
<1>9. Len(ss) \in N
  <2>1. i .. Len(ss) \subseteq N
    BY <1>6, <1>7, <1>8, StepByStep
  <2> QED
    BY <1>8, <2>1
<1>10. PICK b \in Seq(Y) : f[Len(ss)] = c \o b
  BY <1>9 DEF N
<1> QED
  BY <1>1, <1>4, <1>10 DEF c, Around
=============================================================================
