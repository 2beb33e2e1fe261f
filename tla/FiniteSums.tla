----------------------------- MODULE FiniteSums ----------------------------
(***************************************************************************)
(* Sums over finite sets (SumFunctionOnSet of the community modules): what   *)
(* the proofs about totals over orders rest on.                              *)
(*                                                                          *)
(* The induction theorems of the library take the formula to prove as an    *)
(* operator, which no prover here can instantiate.  Here a formula is the   *)
(* set of the numbers, or of the sets, it is true of.                       *)
(***************************************************************************)
EXTENDS Integers, FiniteSets, Functions, FiniteSetTheorems, WellFoundedInduction, TLAPS

\* Induction over the natural numbers.
LEMMA SetInduction ==
    ASSUME NEW I \in SUBSET Nat, 0 \in I, \A n \in I : n + 1 \in I
    PROVE  I = Nat
<1> SUFFICES ASSUME Nat \ I # {} PROVE FALSE
    OBVIOUS
<1> DEFINE R == OpToRel(<, Nat)
<1>1. \E x \in Nat \ I : \A y \in Nat \ I : ~(<<y, x>> \in R)
    <2> HIDE DEF R
    <2>1. IsWellFoundedOn(R, Nat)
        BY NatLessThanWellFounded DEF R
    <2>2. QED BY <2>1, WFMin
<1>2. PICK x \in Nat \ I : \A y \in Nat \ I : ~(<<y, x>> \in R)
    BY <1>1
<1>3. \A y \in Nat \ I : ~(y < x)
    BY <1>2 DEF OpToRel
<1>4. x # 0 /\ x - 1 \in Nat
    OBVIOUS
<1>5. x - 1 \in I
    BY <1>3, <1>4
<1>6. QED BY <1>4, <1>5

\* Induction over the subsets of a finite set, one element after another.
LEMMA SubsetInduction ==
    ASSUME NEW S, IsFiniteSet(S), NEW P, {} \in P,
           \A T \in SUBSET S : \A x \in S \ T : T \in P => T \cup {x} \in P
    PROVE  \A T \in SUBSET S : T \in P
<1> DEFINE I == {n \in Nat : \A T \in SUBSET S : Cardinality(T) = n => T \in P}
<1>1. \A T \in SUBSET S : IsFiniteSet(T) /\ Cardinality(T) \in Nat
    BY FS_Subset, FS_CardinalityType
<1>2. 0 \in I
    BY <1>1, FS_EmptySet
<1>3. ASSUME NEW n \in I PROVE n + 1 \in I
    <2> SUFFICES ASSUME NEW T \in SUBSET S, Cardinality(T) = n + 1 PROVE T \in P
        OBVIOUS
    <2>1. T # {}
        BY FS_EmptySet
    <2>2. PICK x \in T : TRUE
        BY <2>1
    <2>3. T \ {x} \in SUBSET S /\ Cardinality(T \ {x}) = n
        <3>1. IsFiniteSet(T) /\ n \in Nat
            BY <1>1
        <3>2. Cardinality(T \ {x}) = Cardinality(T) - 1
            BY <3>1, FS_RemoveElement
        <3>3. QED BY <3>1, <3>2
    <2>4. T \ {x} \in P /\ T = (T \ {x}) \cup {x}
        BY <2>3
    <2>5. QED BY <2>3, <2>4
<1> HIDE DEF I
<1>4. I \in SUBSET Nat
    BY DEF I
<1>5. I = Nat
    BY <1>2, <1>3, <1>4, SetInduction
<1>6. QED BY <1>1, <1>5 DEF I

---------------------------------------------------------------------------
\* The recursive function behind a sum over S.
SumBy(f, g, s) ==
    IF s = {} THEN 0
    ELSE f[CHOOSE x \in s : TRUE] + g[s \ {CHOOSE x \in s : TRUE}]
IsSummation(g, f, S) == g = [s \in SUBSET S |-> SumBy(f, g, s)]

\* A finite set has an element with the largest value.
LEMMA LargestBy ==
    ASSUME NEW S, IsFiniteSet(S), S # {}, NEW f, \A x \in S : f[x] \in Int
    PROVE  \E x \in S : \A y \in S : f[y] <= f[x]
<1> DEFINE P == {T \in SUBSET S : T # {} => \E x \in T : \A y \in T : f[y] <= f[x]}
<1>1. {} \in P
    OBVIOUS
<1>2. ASSUME NEW T \in SUBSET S, NEW x \in S \ T, T \in P PROVE T \cup {x} \in P
    <2>1. CASE T = {}
        BY <2>1
    <2>2. CASE T # {}
        <3>1. PICK m \in T : \A y \in T : f[y] <= f[m]
            BY <1>2, <2>2
        <3>2. CASE f[x] <= f[m]
            BY <3>1, <3>2
        <3>3. CASE ~(f[x] <= f[m])
            BY <3>1, <3>3
        <3>4. QED BY <3>2, <3>3
    <2>3. QED BY <2>1, <2>2
<1> HIDE DEF P
<1>3. S \in P
    BY <1>1, <1>2, SubsetInduction
<1>4. QED BY <1>3 DEF P

LEMMA SummationExists ==
    ASSUME NEW f, NEW S, IsFiniteSet(S)
    PROVE  \E g : IsSummation(g, f, S)
<1> DEFINE Upto(n) == {s \in SUBSET S : Cardinality(s) <= n}
           Partial(g, n) == g = [s \in Upto(n) |-> SumBy(f, g, s)]
           I == {n \in Nat : \E g : Partial(g, n)}
<1>1. \A s \in SUBSET S : IsFiniteSet(s) /\ Cardinality(s) \in Nat
                           /\ Cardinality(s) <= Cardinality(S)
    BY FS_Subset, FS_CardinalityType
<1>2. \A s \in SUBSET S : s # {} =>
          /\ (s \ {CHOOSE x \in s : TRUE}) \in SUBSET S
          /\ Cardinality(s \ {CHOOSE x \in s : TRUE}) = Cardinality(s) - 1
    BY <1>1, FS_RemoveElement
<1>3. 0 \in I
    <2> DEFINE g == [s \in Upto(0) |-> 0]
    <2>1. \A s \in Upto(0) : s = {}
        BY <1>1, FS_EmptySet
    <2>2. \A s \in Upto(0) : g[s] = SumBy(f, g, s)
        BY <2>1 DEF SumBy
    <2>3. Partial(g, 0)
        BY <2>2
    <2>4. QED BY <2>3
<1>4. ASSUME NEW n \in I PROVE n + 1 \in I
    <2>1. PICK g : Partial(g, n)
        OBVIOUS
    <2> DEFINE h == [s \in Upto(n + 1) |-> SumBy(f, g, s)]
    <2>2. \A s \in Upto(n) : s \in Upto(n + 1) /\ h[s] = g[s]
        BY <1>1, <2>1
    <2>3. ASSUME NEW s \in Upto(n + 1) PROVE h[s] = SumBy(f, h, s)
        <3>1. CASE s = {}
            BY <3>1 DEF SumBy
        <3>2. CASE s # {}
            <4>1. (s \ {CHOOSE x \in s : TRUE}) \in Upto(n)
                BY <1>1, <1>2, <3>2
            <4>2. QED BY <2>2, <4>1 DEF SumBy
        <3>3. QED BY <3>1, <3>2
    <2>4. Partial(h, n + 1)
        BY <2>3
    <2> HIDE DEF h, Partial
    <2>5. QED BY <2>4
<1>5. I = Nat
    <2> HIDE DEF I
    <2>1. I \in SUBSET Nat
        BY DEF I
    <2>2. QED BY <1>3, <1>4, <2>1, SetInduction
<1>6. Cardinality(S) \in I
    BY <1>5, FS_CardinalityType
<1>7. Upto(Cardinality(S)) = SUBSET S
    BY <1>1
<1>8. PICK g : Partial(g, Cardinality(S))
    BY <1>6
<1>9. g = [s \in SUBSET S |-> SumBy(f, g, s)]
    BY <1>7, <1>8
<1>10. QED BY <1>9 DEF IsSummation

LEMMA SumIsSummation ==
    ASSUME NEW f, NEW S, IsFiniteSet(S)
    PROVE  \E g : IsSummation(g, f, S) /\ SumFunctionOnSet(f, S) = g[S]
<1> DEFINE g == CHOOSE h : IsSummation(h, f, S)
<1>1. IsSummation(g, f, S)
    BY SummationExists
<1>2. SumFunctionOnSet(f, S) = g[S]
    BY DEF SumFunctionOnSet, FoldFunctionOnSet, MapThenFoldSet, IsSummation, SumBy
<1> HIDE DEF g
<1>3. QED BY <1>1, <1>2

\* On the sets both are defined on, two summations agree.
LEMMA SummationsAgree ==
    ASSUME NEW f, NEW S, IsFiniteSet(S), NEW T \in SUBSET S, NEW g, NEW h,
           IsSummation(g, f, S), IsSummation(h, f, T)
    PROVE  g[T] = h[T]
<1> DEFINE I == {n \in Nat : \A s \in SUBSET T : Cardinality(s) = n => g[s] = h[s]}
<1>1. \A s \in SUBSET T : IsFiniteSet(s) /\ Cardinality(s) \in Nat /\ s \in SUBSET S
    BY FS_Subset, FS_CardinalityType
<1>2. \A s \in SUBSET T : g[s] = SumBy(f, g, s) /\ h[s] = SumBy(f, h, s)
    BY <1>1 DEF IsSummation
<1>3. 0 \in I
    BY <1>1, <1>2, FS_EmptySet DEF SumBy
<1>4. ASSUME NEW n \in I PROVE n + 1 \in I
    <2> SUFFICES ASSUME NEW s \in SUBSET T, Cardinality(s) = n + 1 PROVE g[s] = h[s]
        OBVIOUS
    <2> DEFINE c == CHOOSE x \in s : TRUE
    <2>1. IsFiniteSet(s) /\ n \in Nat /\ s # {}
        BY <1>1, FS_EmptySet
    <2>2. c \in s
        BY <2>1
    <2>3. s \ {c} \in SUBSET T /\ Cardinality(s \ {c}) = n
        <3>1. Cardinality(s \ {c}) = Cardinality(s) - 1
            BY <2>1, <2>2, FS_RemoveElement
        <3>2. QED BY <2>1, <3>1
    <2>4. g[s \ {c}] = h[s \ {c}]
        BY <2>3
    <2>5. QED BY <1>2, <2>1, <2>4 DEF SumBy
<1> HIDE DEF I
<1>5. I \in SUBSET Nat
    BY DEF I
<1>6. I = Nat
    BY <1>3, <1>4, <1>5, SetInduction
<1>7. QED BY <1>1, <1>6 DEF I

\* A sum over the empty set, and one element taken out of a sum.
LEMMA SumEmpty == \A f : SumFunctionOnSet(f, {}) = 0
<1> SUFFICES ASSUME NEW f PROVE SumFunctionOnSet(f, {}) = 0
    OBVIOUS
<1>1. PICK g : IsSummation(g, f, {}) /\ SumFunctionOnSet(f, {}) = g[{}]
    BY FS_EmptySet, SumIsSummation
<1>2. QED BY <1>1 DEF IsSummation, SumBy

LEMMA SumTakesOut ==
    ASSUME NEW f, NEW S, IsFiniteSet(S), S # {}
    PROVE  \E x \in S : SumFunctionOnSet(f, S) = f[x] + SumFunctionOnSet(f, S \ {x})
<1> DEFINE c == CHOOSE x \in S : TRUE
<1>1. c \in S /\ IsFiniteSet(S \ {c})
    BY FS_RemoveElement
<1>2. PICK g : IsSummation(g, f, S) /\ SumFunctionOnSet(f, S) = g[S]
    BY SumIsSummation
<1>3. PICK h : IsSummation(h, f, S \ {c}) /\ SumFunctionOnSet(f, S \ {c}) = h[S \ {c}]
    BY <1>1, SumIsSummation
<1>4. g[S] = f[c] + g[S \ {c}]
    BY <1>2 DEF IsSummation, SumBy
<1>5. g[S \ {c}] = h[S \ {c}]
    BY <1>2, <1>3, SummationsAgree
<1>6. QED BY <1>1, <1>2, <1>3, <1>4, <1>5

\* A sum of whole (natural) numbers is one.
LEMMA SumType ==
    ASSUME NEW D, D \in {Int, Nat}, NEW f, NEW S, IsFiniteSet(S), \A x \in S : f[x] \in D
    PROVE  SumFunctionOnSet(f, S) \in D
<1> DEFINE I == {n \in Nat : \A T \in SUBSET S :
                                Cardinality(T) = n => SumFunctionOnSet(f, T) \in D}
<1>1. \A T \in SUBSET S : IsFiniteSet(T) /\ Cardinality(T) \in Nat
    BY FS_Subset, FS_CardinalityType
<1>2. 0 \in I
    BY <1>1, FS_EmptySet, SumEmpty
<1>3. ASSUME NEW n \in I PROVE n + 1 \in I
    <2> SUFFICES ASSUME NEW T \in SUBSET S, Cardinality(T) = n + 1
                 PROVE  SumFunctionOnSet(f, T) \in D
        OBVIOUS
    <2>1. IsFiniteSet(T) /\ n \in Nat /\ T # {}
        BY <1>1, FS_EmptySet
    <2>2. PICK x \in T : SumFunctionOnSet(f, T) = f[x] + SumFunctionOnSet(f, T \ {x})
        BY <2>1, SumTakesOut
    <2>3. T \ {x} \in SUBSET S /\ Cardinality(T \ {x}) = n
        <3>1. Cardinality(T \ {x}) = Cardinality(T) - 1
            BY <2>1, FS_RemoveElement
        <3>2. QED BY <2>1, <3>1
    <2>4. SumFunctionOnSet(f, T \ {x}) \in D /\ f[x] \in D
        BY <2>3
    <2>5. QED BY <2>2, <2>4
<1> HIDE DEF I
<1>4. I = Nat
    <2>1. I \in SUBSET Nat
        BY DEF I
    <2>2. QED BY <1>2, <1>3, <2>1, SetInduction
<1>5. QED BY <1>1, <1>4 DEF I

\* Any element may be taken out of a sum, or put into it.
LEMMA SumAddElement ==
    ASSUME NEW S, IsFiniteSet(S), NEW f, \A x \in S : f[x] \in Int,
           NEW T \in SUBSET S, NEW x \in S \ T
    PROVE  SumFunctionOnSet(f, T \cup {x}) = SumFunctionOnSet(f, T) + f[x]
<1> DEFINE I == {n \in Nat : \A U \in SUBSET S : \A y \in S \ U :
              Cardinality(U) = n =>
                  SumFunctionOnSet(f, U \cup {y}) = SumFunctionOnSet(f, U) + f[y]}
<1>1. \A U \in SUBSET S : IsFiniteSet(U) /\ Cardinality(U) \in Nat
    BY FS_Subset, FS_CardinalityType
<1>2. \A U \in SUBSET S : SumFunctionOnSet(f, U) \in Int
    BY <1>1, SumType
<1>3. 0 \in I
    <2> SUFFICES ASSUME NEW y \in S
                 PROVE  SumFunctionOnSet(f, {} \cup {y}) = SumFunctionOnSet(f, {}) + f[y]
        BY <1>1, FS_EmptySet
    <2>1. IsFiniteSet({y}) /\ {y} # {} /\ f[y] \in Int
        BY FS_Singleton
    <2>2. PICK c \in {y} : SumFunctionOnSet(f, {y}) = f[c] + SumFunctionOnSet(f, {y} \ {c})
        BY <2>1, SumTakesOut
    <2>3. {y} \ {c} = {} /\ {} \cup {y} = {y} /\ c = y
        OBVIOUS
    <2>4. SumFunctionOnSet(f, {y} \ {c}) = 0 /\ SumFunctionOnSet(f, {}) = 0
        BY <2>3, SumEmpty, Zenon
    <2>5. SumFunctionOnSet(f, {y}) = SumFunctionOnSet(f, {}) + f[y]
        BY <2>1, <2>2, <2>3, <2>4
    <2>6. QED BY <2>3, <2>5, Zenon
<1>4. ASSUME NEW n \in I PROVE n + 1 \in I
    <2> SUFFICES ASSUME NEW U \in SUBSET S, NEW y \in S \ U, Cardinality(U) = n + 1
                 PROVE  SumFunctionOnSet(f, U \cup {y}) = SumFunctionOnSet(f, U) + f[y]
        OBVIOUS
    <2>1. IsFiniteSet(U \cup {y}) /\ IsFiniteSet(U) /\ n \in Nat
        BY <1>1, FS_AddElement
    <2>2. PICK c \in U \cup {y} : SumFunctionOnSet(f, U \cup {y}) =
                                      f[c] + SumFunctionOnSet(f, (U \cup {y}) \ {c})
        BY <2>1, SumTakesOut
    <2>3. CASE c = y
        <3>1. (U \cup {y}) \ {c} = U /\ f[y] \in Int /\ SumFunctionOnSet(f, U) \in Int
            BY <1>2, <2>3
        <3>2. QED BY <2>2, <2>3, <3>1
    <2>4. CASE c # y
        <3> DEFINE V == U \ {c}
        <3>1. c \in U /\ V \in SUBSET S /\ c \in S \ V /\ y \in S \ V
            BY <2>4
        <3>2. V \cup {c} = U /\ (U \cup {y}) \ {c} = V \cup {y}
            BY <2>4, <3>1
        <3>3. Cardinality(V) = n
            <4>1. Cardinality(V) = Cardinality(U) - 1
                BY <2>1, <3>1, FS_RemoveElement
            <4>2. QED BY <2>1, <4>1
        <3> HIDE DEF V
        <3>4. /\ SumFunctionOnSet(f, V \cup {c}) = SumFunctionOnSet(f, V) + f[c]
              /\ SumFunctionOnSet(f, V \cup {y}) = SumFunctionOnSet(f, V) + f[y]
            BY <3>1, <3>3
        <3>5. SumFunctionOnSet(f, V) \in Int /\ f[c] \in Int /\ f[y] \in Int
            BY <1>2, <3>1
        <3>6. QED BY <2>2, <3>2, <3>4, <3>5
    <2>5. QED BY <2>3, <2>4
<1> HIDE DEF I
<1>5. I = Nat
    <2>1. I \in SUBSET Nat
        BY DEF I
    <2>2. QED BY <1>3, <1>4, <2>1, SetInduction
<1>6. Cardinality(T) \in I
    BY <1>1, <1>5
<1>7. QED BY <1>6 DEF I

---------------------------------------------------------------------------
\* A sum grows with its terms, and is determined by them.
LEMMA SumMonotone ==
    ASSUME NEW S, IsFiniteSet(S), NEW f, NEW g,
           \A x \in S : f[x] \in Int /\ g[x] \in Int /\ f[x] <= g[x]
    PROVE  SumFunctionOnSet(f, S) <= SumFunctionOnSet(g, S)
<1> DEFINE P == {T \in SUBSET S : SumFunctionOnSet(f, T) <= SumFunctionOnSet(g, T)}
<1>1. {} \in P
    BY SumEmpty
<1>2. ASSUME NEW T \in SUBSET S, NEW x \in S \ T, T \in P PROVE T \cup {x} \in P
    <2>1. /\ SumFunctionOnSet(f, T \cup {x}) = SumFunctionOnSet(f, T) + f[x]
          /\ SumFunctionOnSet(g, T \cup {x}) = SumFunctionOnSet(g, T) + g[x]
        BY SumAddElement
    <2>2. SumFunctionOnSet(f, T) \in Int /\ SumFunctionOnSet(g, T) \in Int
        BY FS_Subset, SumType
    <2>3. SumFunctionOnSet(f, T) <= SumFunctionOnSet(g, T)
        BY <1>2
    <2>4. QED BY <2>1, <2>2, <2>3
<1> HIDE DEF P
<1>3. S \in P
    BY <1>1, <1>2, SubsetInduction
<1>4. QED BY <1>3 DEF P

LEMMA SumAgree ==
    ASSUME NEW S, IsFiniteSet(S), NEW f, NEW g,
           \A x \in S : f[x] \in Int /\ g[x] = f[x]
    PROVE  SumFunctionOnSet(g, S) = SumFunctionOnSet(f, S)
<1>1. SumFunctionOnSet(f, S) <= SumFunctionOnSet(g, S)
    BY SumMonotone
<1>2. SumFunctionOnSet(g, S) <= SumFunctionOnSet(f, S)
    BY SumMonotone
<1>3. SumFunctionOnSet(f, S) \in Int /\ SumFunctionOnSet(g, S) \in Int
    BY SumType
<1>4. QED BY <1>1, <1>2, <1>3

\* A sum of which one term changes.
LEMMA SumUpdate ==
    ASSUME NEW S, IsFiniteSet(S), NEW f, NEW g, NEW x \in S,
           f[x] \in Int, g[x] \in Int,
           \A y \in S \ {x} : f[y] \in Int /\ g[y] = f[y]
    PROVE  SumFunctionOnSet(g, S) = SumFunctionOnSet(f, S) - f[x] + g[x]
<1> DEFINE T == S \ {x}
<1>1. T \in SUBSET S /\ x \in S \ T /\ IsFiniteSet(T) /\ T \cup {x} = S
    BY FS_RemoveElement
<1>2. SumFunctionOnSet(g, T) = SumFunctionOnSet(f, T) /\ SumFunctionOnSet(f, T) \in Int
    BY <1>1, SumAgree, SumType
<1> HIDE DEF T
<1>3. /\ SumFunctionOnSet(f, T \cup {x}) = SumFunctionOnSet(f, T) + f[x]
      /\ SumFunctionOnSet(g, T \cup {x}) = SumFunctionOnSet(g, T) + g[x]
    BY <1>1, SumAddElement DEF T
<1>4. /\ SumFunctionOnSet(f, S) = SumFunctionOnSet(f, T) + f[x]
      /\ SumFunctionOnSet(g, S) = SumFunctionOnSet(g, T) + g[x]
    BY <1>1, <1>3, Zenon
<1>5. QED BY <1>2, <1>4

\* A sum of natural numbers is at least that of a part of them.
LEMMA SumSubset ==
    ASSUME NEW S, IsFiniteSet(S), NEW f, \A x \in S : f[x] \in Nat, NEW T \in SUBSET S
    PROVE  SumFunctionOnSet(f, T) <= SumFunctionOnSet(f, S)
<1> DEFINE P == {U \in SUBSET S : SumFunctionOnSet(f, T) <= SumFunctionOnSet(f, T \cup U)}
<1>1. \A U \in SUBSET S : SumFunctionOnSet(f, U) \in Int
    BY FS_Subset, SumType
<1>2. {} \in P
    <2>1. T \cup {} = T
        OBVIOUS
    <2>2. SumFunctionOnSet(f, T \cup {}) = SumFunctionOnSet(f, T)
        BY <2>1, Zenon
    <2>3. QED BY <1>1, <2>2
<1>3. ASSUME NEW U \in SUBSET S, NEW x \in S \ U, U \in P PROVE U \cup {x} \in P
    <2>1. SumFunctionOnSet(f, T) <= SumFunctionOnSet(f, T \cup U)
        BY <1>3
    <2>2. T \cup (U \cup {x}) = (T \cup U) \cup {x}
        OBVIOUS
    <2>3. SumFunctionOnSet(f, (T \cup U) \cup {x}) >= SumFunctionOnSet(f, T \cup U)
        <3>1. CASE x \in T
            <4>1. (T \cup U) \cup {x} = T \cup U
                BY <3>1
            <4>2. SumFunctionOnSet(f, (T \cup U) \cup {x}) = SumFunctionOnSet(f, T \cup U)
                BY <4>1, Zenon
            <4>3. QED BY <1>1, <4>2
        <3>2. CASE x \notin T
            <4>1. SumFunctionOnSet(f, (T \cup U) \cup {x}) = SumFunctionOnSet(f, T \cup U) + f[x]
                BY <3>2, SumAddElement
            <4>2. QED BY <1>1, <4>1
        <3>3. QED BY <3>1, <3>2
    <2>4. /\ SumFunctionOnSet(f, T \cup U) \in Int
          /\ SumFunctionOnSet(f, (T \cup U) \cup {x}) \in Int
          /\ SumFunctionOnSet(f, T) \in Int
        BY <1>1
    <2>5. SumFunctionOnSet(f, T) <= SumFunctionOnSet(f, (T \cup U) \cup {x})
        BY <2>1, <2>3, <2>4
    <2>6. QED BY <2>2, <2>5, Zenon
<1> HIDE DEF P
<1>4. S \in P
    BY <1>2, <1>3, SubsetInduction
<1>5. T \cup S = S
    OBVIOUS
<1>6. SumFunctionOnSet(f, T) <= SumFunctionOnSet(f, T \cup S)
    BY <1>4 DEF P
<1>7. QED BY <1>5, <1>6, Zenon

\* Leaving terms out, and letting others shrink and one grow by k at most,
\* makes a sum of natural numbers grow by k at most.
LEMMA SumShrinks ==
    ASSUME NEW S, IsFiniteSet(S), NEW T \in SUBSET S, NEW f, NEW g, NEW d, NEW k \in Nat,
           \A x \in S : f[x] \in Nat,
           \A x \in T : g[x] \in Nat /\ g[x] <= (IF x = d THEN f[x] + k ELSE f[x])
    PROVE  SumFunctionOnSet(g, T) <= SumFunctionOnSet(f, S) + k
<1> DEFINE h == [x \in S |-> IF x = d THEN f[x] + k ELSE f[x]]
<1>1. \A x \in S : h[x] \in Nat /\ (x # d => h[x] = f[x])
    OBVIOUS
<1>2. d \in S => h[d] = f[d] + k
    OBVIOUS
<1>3. \A x \in T : g[x] <= h[x]
    OBVIOUS
<1> HIDE DEF h
<1>4. IsFiniteSet(T)
    BY FS_Subset
<1>5. SumFunctionOnSet(g, T) <= SumFunctionOnSet(h, T)
    BY <1>1, <1>3, <1>4, SumMonotone
<1>6. SumFunctionOnSet(h, T) <= SumFunctionOnSet(h, S)
    BY <1>1, SumSubset
<1>7. SumFunctionOnSet(h, S) <= SumFunctionOnSet(f, S) + k
    <2>1. SumFunctionOnSet(f, S) \in Nat /\ SumFunctionOnSet(h, S) \in Nat
        BY <1>1, SumType
    <2>2. CASE d \in S
        <3>1. SumFunctionOnSet(h, S) = SumFunctionOnSet(f, S) - f[d] + h[d]
            BY <1>1, <2>2, SumUpdate
        <3>2. QED BY <1>2, <2>1, <2>2, <3>1
    <2>3. CASE d \notin S
        <3>1. SumFunctionOnSet(h, S) = SumFunctionOnSet(f, S)
            BY <1>1, <2>3, SumAgree
        <3>2. QED BY <2>1, <3>1
    <2>4. QED BY <2>2, <2>3
<1>8. /\ SumFunctionOnSet(g, T) \in Nat /\ SumFunctionOnSet(h, T) \in Nat
      /\ SumFunctionOnSet(h, S) \in Nat /\ SumFunctionOnSet(f, S) \in Nat
    BY <1>1, <1>4, SumType
<1>9. QED BY <1>5, <1>6, <1>7, <1>8


LEMMA SumZero ==
    ASSUME NEW S, IsFiniteSet(S), NEW f, \A x \in S : f[x] = 0
    PROVE  SumFunctionOnSet(f, S) = 0
<1> DEFINE P == {T \in SUBSET S : SumFunctionOnSet(f, T) = 0}
<1>1. {} \in P
    BY SumEmpty
<1>2. ASSUME NEW T \in SUBSET S, NEW x \in S \ T, T \in P PROVE T \cup {x} \in P
    <2>1. SumFunctionOnSet(f, T \cup {x}) = SumFunctionOnSet(f, T) + f[x]
        BY SumAddElement
    <2>2. QED BY <1>2, <2>1
<1> HIDE DEF P
<1>3. S \in P
    BY <1>1, <1>2, SubsetInduction
<1>4. QED BY <1>3 DEF P

\* The parts of a finite set, by a key, add up to it.
LEMMA SumOfParts ==
    ASSUME NEW S, IsFiniteSet(S), NEW K, IsFiniteSet(K), NEW key, \A s \in S : key[s] \in K,
           NEW f, \A k \in K : f[k] = Cardinality({s \in S : key[s] = k})
    PROVE  SumFunctionOnSet(f, K) = Cardinality(S)
<1> DEFINE Sizes(T) == [k \in K |-> Cardinality({s \in T : key[s] = k})]
           P == {T \in SUBSET S : SumFunctionOnSet(Sizes(T), K) = Cardinality(T)}
<1>1. \A T \in SUBSET S : \A k \in K : Sizes(T)[k] \in Nat
    <2> SUFFICES ASSUME NEW T \in SUBSET S, NEW k \in K
                 PROVE  Cardinality({s \in T : key[s] = k}) \in Nat
        OBVIOUS
    <2>1. {s \in T : key[s] = k} \subseteq S
        OBVIOUS
    <2>2. QED BY <2>1, FS_Subset, FS_CardinalityType
<1>2. {} \in P
    <2>1. \A k \in K : Sizes({})[k] = 0
        <3>1. \A k \in K : {s \in {} : key[s] = k} = {}
            OBVIOUS
        <3>2. QED BY <3>1, FS_EmptySet
    <2> HIDE DEF Sizes
    <2>2. SumFunctionOnSet(Sizes({}), K) = 0
        BY <2>1, SumZero
    <2>3. QED BY <2>2, FS_EmptySet
<1>3. ASSUME NEW T \in SUBSET S, NEW x \in S \ T, T \in P PROVE T \cup {x} \in P
    <2> DEFINE U == T \cup {x}
    <2>1. /\ Sizes(U)[key[x]] = Sizes(T)[key[x]] + 1
          /\ \A k \in K \ {key[x]} : Sizes(U)[k] = Sizes(T)[k]
        <3>1. {s \in U : key[s] = key[x]} = {s \in T : key[s] = key[x]} \cup {x}
            OBVIOUS
        <3>2. \A k \in K \ {key[x]} : {s \in U : key[s] = k} = {s \in T : key[s] = k}
            OBVIOUS
        <3>3. IsFiniteSet({s \in T : key[s] = key[x]}) /\ x \notin {s \in T : key[s] = key[x]}
            <4>1. {s \in T : key[s] = key[x]} \subseteq S
                OBVIOUS
            <4>2. QED BY <4>1, FS_Subset
        <3>4. Cardinality({s \in T : key[s] = key[x]} \cup {x}) = Cardinality({s \in T : key[s] = key[x]}) + 1
            BY <3>3, FS_AddElement
        <3>5. key[x] \in K
            OBVIOUS
        <3>6. QED BY <3>1, <3>2, <3>4, <3>5
    <2>2. U \in SUBSET S /\ key[x] \in K
        OBVIOUS
    <2>3. Cardinality(U) = Cardinality(T) + 1 /\ Cardinality(T) \in Nat
        <3>1. IsFiniteSet(T)
            BY FS_Subset
        <3>2. QED BY <3>1, FS_AddElement, FS_CardinalityType
    <2>4. SumFunctionOnSet(Sizes(T), K) = Cardinality(T)
        BY <1>3
    <2>5. \A k \in K : Sizes(T)[k] \in Nat /\ Sizes(U)[k] \in Nat
        BY <1>1, <2>2
    <2> HIDE DEF Sizes, U
    <2>6. SumFunctionOnSet(Sizes(U), K) = SumFunctionOnSet(Sizes(T), K) - Sizes(T)[key[x]] + Sizes(U)[key[x]]
        BY <2>1, <2>2, <2>5, SumUpdate
    <2>7. SumFunctionOnSet(Sizes(U), K) = Cardinality(U)
        BY <2>1, <2>2, <2>3, <2>4, <2>5, <2>6
    <2>8. QED BY <2>2, <2>7 DEF U
<1> HIDE DEF P
<1>4. S \in P
    BY <1>2, <1>3, SubsetInduction
<1>5. SumFunctionOnSet(f, K) = SumFunctionOnSet(Sizes(S), K)
    <2>1. \A k \in K : f[k] = Sizes(S)[k] /\ Sizes(S)[k] \in Int
        BY <1>1
    <2> HIDE DEF Sizes
    <2>2. QED BY <2>1, SumAgree
<1>6. QED BY <1>4, <1>5 DEF P
===========================================================================
